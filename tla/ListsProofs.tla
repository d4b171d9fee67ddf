------------------------------ MODULE ListsProofs ------------------------------
(* Proofs about the lists of Client, the rows that show them, its types, the  *)
(* chats it shows, and the numbers and texts it prints.                       *)
EXTENDS ClientProofs, Counting

-----------------------------------------------------------------------------
(* The inductive invariant. *)

\* Nobody is a contact or a member twice, and groups are numbered.
TablesInv ==
  /\ contacts \in Seq(Friends)
  /\ \A i, j \in 1..Len(contacts) : contacts[i] = contacts[j] => i = j
  /\ joined \in Seq(Groups)
  /\ \A i, j \in 1..Len(joined) : joined[i] = joined[j] => i = j
  /\ \A i \in 1..Len(joined) : joined[i] <= groupCount
  /\ groupCount \in Groups

\* What the client asks for is well formed.
AskedInv ==
  /\ IsSequence(toServer)
  /\ \A m \in ToSet(toServer) :
       /\ m.type \in Requests
       /\ m.type = "add" => m.about \in Friends \union {NoUser}
       /\ m.type = "profile" => m.about \in Groups
       /\ m.type = "chat" => m.about.at \in Nat

\* A list that was sent is the beginning of the one that would be sent now.
FriendListing(list) ==
  /\ list \in Seq([name : Friends, status : {0, 1}])
  /\ Len(list) <= Len(contacts)
  /\ \A i \in 1..Len(list) : list[i].name = contacts[i]

GroupListing(list) ==
  /\ list \in Seq(Groups)
  /\ Len(list) <= Len(joined)
  /\ \A i \in 1..Len(list) : list[i] = joined[i]

WellFormed(m) ==
  /\ m.type \in Records \union {"stray"}
  /\ m.type = "friends" => FriendListing(m.about)
  /\ m.type = "groups" => GroupListing(m.about)
  /\ m.type \in {"profile", "stray"} => m.about \in Groups
  /\ m.type = "chat" => m.about.conv.kind # "none" /\ m.about.at \in Nat

\* Stored messages are chats.
StoredChat(m) == WellFormed(m) /\ m.type = "chat"

\* What the server sends is well formed, and only chats are stored and replayed.
SentInv ==
  /\ IsSequence(inbox) /\ IsSequence(queue) /\ IsSequence(stored)
  /\ \A m \in ToSet(inbox) : WellFormed(m) /\ m.type # "stray"
  /\ \A m \in ToSet(queue) : WellFormed(m)
  /\ \A m \in ToSet(stored) : StoredChat(m)
  /\ DOMAIN rows = Sessions
  /\ \A s \in Sessions : IsSequence(rows[s]) /\ \A m \in ToSet(rows[s]) : StoredChat(m)

\* The lists of one type in s get no shorter.
Rising(s, type) ==
  \A i, j \in 1..Len(s) : i < j /\ s[i].type = type /\ s[j].type = type
                          => Len(s[i].about) <= Len(s[j].about)

\* No list of the type is longer in s than in t.
Under(s, t, type) ==
  \A x \in ToSet(s), y \in ToSet(t) : x.type = type /\ y.type = type
                                      => Len(x.about) <= Len(y.about)

\* None is shorter than n.
AtLeast(s, type, n) == \A x \in ToSet(s) : x.type = type => n <= Len(x.about)

\* Lists of one type get no shorter on their way, from q over ib to the one
\* received last, of n entries.
InOrder(ib, q, type, n) ==
  /\ Rising(ib, type) /\ Rising(q, type) /\ Under(ib, q, type)
  /\ AtLeast(ib, type, n) /\ AtLeast(q, type, n)

GrowingInv ==
  /\ InOrder(inbox, queue, "friends", friendListSize)
  /\ InOrder(inbox, queue, "groups", groupListSize)

\* What has been received of the contacts is the beginning of what the server has;
\* only while a list is unpacked is there less of it than its size.
FriendDataInv ==
  /\ recvPc \in {"recv", "show", "ask friends", "ask groups", "entries", "groups"}
  /\ userdata \in [1..Cardinality(Friends) -> [name : Friends \union {NoUser}, status : {0, 1}]]
  /\ \A i \in 1..Cardinality(Friends) : userdata[i].name # NoUser =>
       i <= Len(contacts) /\ userdata[i].name = contacts[i]
  /\ friendListSize \in 0..Len(contacts)
  /\ recvPc # "entries" => \A i \in 1..friendListSize : userdata[i].name = contacts[i]
  /\ recvPc = "entries" =>
       /\ FriendListing(inHand.list) /\ friendListSize = Len(inHand.list)
       /\ inHand.next \in 1..(friendListSize + 1)
       /\ \A i \in 1..(inHand.next - 1) : userdata[i].name = contacts[i]
  /\ inHand = [list |-> inHand.list, next |-> inHand.next]

\* The same of the groups, which are unpacked in one step.
GroupDataInv ==
  /\ groupdata \in [1..Cardinality(Groups) -> Groups \union {0}]
  /\ groupListSize \in 0..Len(joined)
  /\ \A i \in 1..groupListSize : groupdata[i] = joined[i]

FriendRowUpTo(n) == [ptr : 1..n, status : {0, 1}, label : Friends, colour : Colours]

\* The rows of the friend list and the one that is highlighted.
FriendRowsInv ==
  /\ \E n \in 0..friendListSize : friendRows \in [1..n -> FriendRowUpTo(friendListSize)]
  /\ \A k \in DOMAIN friendRows :
       /\ friendRows[k].label = contacts[friendRows[k].ptr]
       /\ userdata[friendRows[k].ptr].name # NoUser
       /\ friendRows[k].colour = "choose" <=> k = lastfocusFriend /\ focusUser # NoUser
  /\ lastfocusFriend \in 0..friendListSize
  /\ focusUser \in Friends \union {NoUser}
  /\ focusUser # NoUser =>
       /\ lastfocusFriend \in DOMAIN friendRows
       /\ friendRows[lastfocusFriend].label = focusUser

\* The same of the group list.
GroupRowsInv ==
  /\ \E n \in 0..groupListSize : groupRows \in [1..n -> [id : Groups, colour : Colours]]
  /\ \A k \in DOMAIN groupRows :
       /\ \E i \in 1..groupListSize : joined[i] = groupRows[k].id
       /\ groupRows[k].colour = "choose" <=> k = lastfocus /\ focusGroup # 0
  /\ lastfocus \in 0..groupListSize
  /\ focusGroup \in Groups \union {0}
  /\ focusGroup # 0 =>
       /\ lastfocus \in DOMAIN groupRows
       /\ groupRows[lastfocus].id = focusGroup

TalkInv ==
  /\ talkUser \in Friends \union {NoUser} /\ talkGroup \in Groups \union {0}
  /\ talkUser = NoUser \/ talkGroup = 0
  /\ tab \in {"friend", "group", "about"}
  /\ members \in Groups \union {0}

ListsInv ==
  /\ TablesInv /\ AskedInv /\ SentInv /\ GrowingInv
  /\ FriendDataInv /\ GroupDataInv /\ FriendRowsInv /\ GroupRowsInv /\ TalkInv

-----------------------------------------------------------------------------
(* The tables of the server, and what it is asked for. *)

\* t begins with s.
Longer(t, s) == Len(s) <= Len(t) /\ \A i \in 1..Len(s) : t[i] = s[i]

\* Groups are numbered from 1.
LEMMA GroupNumbers ==
  /\ Cardinality(Groups) \in Nat /\ Cardinality(Friends) \in Nat
  /\ \A g : g \in Groups <=> g \in 1..Cardinality(Groups)
  <1>1. Cardinality(Groups) \in Nat
    BY GroupsAssumption, FS_CardinalityType
  <1>2. Cardinality(Friends) \in Nat
    BY FriendsAssumption, FS_CardinalityType
  <1>3. Groups = 1..Cardinality(Groups)
    BY GroupsAssumption
  <1> QED BY <1>1, <1>2, <1>3

\* A sequence without repetition, one more element that is not in it.
LEMMA AppendNew ==
  ASSUME NEW S, NEW s \in Seq(S), NEW x \in S, x \notin ToSet(s),
         \A i, j \in 1..Len(s) : s[i] = s[j] => i = j
  PROVE  /\ Append(s, x) \in Seq(S) /\ Longer(Append(s, x), s)
         /\ \A i, j \in 1..Len(Append(s, x)) : Append(s, x)[i] = Append(s, x)[j] => i = j
         /\ \A i \in 1..Len(Append(s, x)) : i \in 1..Len(s) \/ Append(s, x)[i] = x
  <1>1. /\ Append(s, x) \in Seq(S) /\ Len(Append(s, x)) = Len(s) + 1
        /\ \A i \in 1..Len(s) : Append(s, x)[i] = s[i]
        /\ Append(s, x)[Len(s) + 1] = x
    BY AppendProperties
  <1>2. Len(s) \in Nat /\ \A i \in 1..Len(s) : s[i] # x
    BY SeqFacts DEF IsSequence
  <1>3. \A i \in 1..(Len(s) + 1) : i \in 1..Len(s) \/ i = Len(s) + 1
    BY <1>2
  <1> QED BY <1>1, <1>2, <1>3 DEF Longer

\* Requests add one row at most.
LEMMA TablesFrame ==
  ASSUME AskedInv, TablesInv, [Next]_vars
  PROVE  /\ \/ contacts' = contacts
            \/ \E f \in Friends : f \notin ToSet(contacts) /\ contacts' = Append(contacts, f)
         /\ groupCount' \in Groups /\ groupCount <= groupCount'
         /\ \/ joined' = joined
            \/ \E g \in Groups : /\ g \notin ToSet(joined) /\ joined' = Append(joined, g)
                                  /\ g <= groupCount'
  <1>a. groupCount \in Groups /\ groupCount \in Nat
    BY GroupNumbers DEF TablesInv
  <1>1. CASE HandleAdd
    <2>1. Head(toServer) \in ToSet(toServer) /\ Head(toServer).type = "add"
      BY <1>1, SeqTail DEF HandleAdd, Handle, AskedInv
    <2> QED BY <1>1, <1>a, <2>1 DEF HandleAdd
  <1>2. CASE HandleJoin
    <2>1. \A g \in 1..groupCount : g \in Groups /\ g <= groupCount
      BY GroupNumbers DEF TablesInv
    <2>2. /\ UNCHANGED <<contacts, groupCount>>
          /\ \/ joined' = joined
             \/ \E g \in 1..groupCount : g \notin ToSet(joined) /\ joined' = Append(joined, g)
      BY <1>2 DEF HandleJoin, Join
    <2> QED BY <1>a, <2>1, <2>2
  <1>3. CASE HandleCreate
    <2>1. groupCount \in Nat /\ groupCount' = groupCount + 1 /\ groupCount' \in Groups
      BY <1>3, GroupNumbers DEF HandleCreate, TablesInv
    <2>2. groupCount' \notin ToSet(joined)
      BY <2>1, GroupNumbers, SeqFacts DEF TablesInv, IsSequence
    <2>3. contacts' = contacts /\ (joined' = joined \/ joined' = Append(joined, groupCount'))
      BY <1>3 DEF HandleCreate, Join
    <2>4. CASE joined' = Append(joined, groupCount')
      BY <1>a, <2>1, <2>2, <2>3, <2>4
    <2>5. CASE joined' = joined
      BY <1>a, <2>1, <2>3, <2>5
    <2> QED BY <2>3, <2>4, <2>5
  <1>4. CASE ClientThread /\ ~(HandleAdd \/ HandleJoin \/ HandleCreate)
    <2>1. UNCHANGED <<contacts, joined, groupCount>>
      BY <1>4 DEF ClientThread, HandleRequest, HandleRegister, HandleLogin, HandleFriends,
        HandleGroups, HandleProfile, HandleGroupChat, HandleSingle, CreateFails, ServerEnds,
        LoginStep, SetName, SelectStored, ReplayRow, EraseStored, LoginReceipt, InLogin, DeleteClient,
        tables
    <2> QED BY <1>a, <2>1
  <1>5. CASE Dispatch \/ Outside \/ Timer
    <2>1. UNCHANGED <<contacts, joined, groupCount>>
      BY <1>5 DEF Dispatch, SndLookup, SndSend, SndSave, SndTake, SndStep, Outside, OtherLogin,
        LoginStep, SetName, SelectStored, ReplayRow, EraseStored, LoginReceipt, InLogin, OtherLeaves,
        WipeName, PeerSends, Wedge, ServerStops, ServerEnds, LoseMessage, OverwriteRequest, Timer,
        tables, serverEnd
    <2> QED BY <1>a, <2>1
  <1>6. CASE ReceiveThread
    <2>1. UNCHANGED <<contacts, joined, groupCount>>
      BY <1>6 DEF ReceiveThread, ReceiveRegistered, ReceiveLogin, ReceiveRefusal, ReceiveNotice,
        ReceiveChat, ReceiveFriends, UnpackEntry, ShowFriends, ReceiveAdded, ReceiveGroups, ShowGroups,
        ReceiveJoined, ReceiveProfile, ShowMain, AskFriends, AskGroups, ReceiveEnd, Exit, Take, Busy,
        serverEnd, tables
    <2> QED BY <1>a, <2>1
  <1>7. CASE User
    <2>1. UNCHANGED <<contacts, joined, groupCount>>
      BY <1>7 DEF User, Login, Regist, OtherWindow, ClickFriend, ClickGroup, ChangeTab, Hover, Compose,
        SendSingle, SendGroup, SendNowhere, OpenDialog, CloseDialog, ConfirmBadNumber, ConfirmGroup,
        ConfirmCreate, ConfirmFriend, Quit, Start, Exit, InMain, UserActs, serverEnd, tables
    <2> QED BY <1>a, <2>1
  <1>8. CASE UNCHANGED vars
    <2>1. UNCHANGED <<contacts, joined, groupCount>>
      BY <1>8 DEF vars, tables
    <2> QED BY <1>a, <2>1
  <1> QED BY <1>1, <1>2, <1>3, <1>4, <1>5, <1>6, <1>7, <1>8 DEF Next

\* The tables stay without repetition, and what is in them stays in its place.
LEMMA TablesStep ==
  ASSUME AskedInv, TablesInv, [Next]_vars
  PROVE  TablesInv' /\ Longer(contacts', contacts) /\ Longer(joined', joined)
  <1>1. \A s : IsSequence(s) => Longer(s, s)
    BY SeqFacts DEF Longer
  <1>2. IsSequence(contacts) /\ IsSequence(joined)
    BY DEF TablesInv, IsSequence
  <1>3. /\ Longer(contacts', contacts) /\ contacts' \in Seq(Friends)
        /\ \A i, j \in 1..Len(contacts') : contacts'[i] = contacts'[j] => i = j
    <2>1. CASE contacts' = contacts
      BY <1>1, <1>2, <2>1 DEF TablesInv
    <2>2. ASSUME NEW f \in Friends, f \notin ToSet(contacts), contacts' = Append(contacts, f)
          PROVE  /\ Longer(contacts', contacts) /\ contacts' \in Seq(Friends)
                 /\ \A i, j \in 1..Len(contacts') : contacts'[i] = contacts'[j] => i = j
      BY <2>2, AppendNew DEF TablesInv
    <2> QED BY <2>1, <2>2, TablesFrame
  <1>4. /\ Longer(joined', joined) /\ joined' \in Seq(Groups) /\ groupCount' \in Groups
        /\ \A i, j \in 1..Len(joined') : joined'[i] = joined'[j] => i = j
        /\ \A i \in 1..Len(joined') : joined'[i] <= groupCount'
    <2>a. groupCount' \in Groups /\ groupCount <= groupCount'
      BY TablesFrame
    <2>1. CASE joined' = joined
      <3>1. \A i \in 1..Len(joined) : joined[i] \in Nat
        BY GroupNumbers DEF TablesInv
      <3>2. groupCount \in Nat /\ groupCount' \in Nat
        BY <2>a, GroupNumbers DEF TablesInv
      <3>3. \A i \in 1..Len(joined) : joined[i] <= groupCount'
        BY <2>a, <3>1, <3>2 DEF TablesInv
      <3> QED BY <1>1, <1>2, <2>1, <2>a, <3>3 DEF TablesInv
    <2>2. ASSUME NEW g \in Groups, g \notin ToSet(joined), joined' = Append(joined, g),
                 groupCount' \in Groups, groupCount <= groupCount', g <= groupCount'
          PROVE  /\ Longer(joined', joined) /\ joined' \in Seq(Groups) /\ groupCount' \in Groups
                 /\ \A i, j \in 1..Len(joined') : joined'[i] = joined'[j] => i = j
                 /\ \A i \in 1..Len(joined') : joined'[i] <= groupCount'
      <3>1. /\ Longer(joined', joined) /\ joined' \in Seq(Groups)
            /\ \A i, j \in 1..Len(joined') : joined'[i] = joined'[j] => i = j
            /\ \A i \in 1..Len(joined') : i \in 1..Len(joined) \/ joined'[i] = g
        BY <2>2, AppendNew DEF TablesInv
      <3>2. \A i \in 1..Len(joined) : joined'[i] = joined[i] /\ joined[i] <= groupCount
                                      /\ joined[i] \in Groups
        BY <3>1 DEF TablesInv, Longer
      <3>3. groupCount \in Nat /\ groupCount' \in Nat /\ \A h \in Groups : h \in Nat
        BY <2>2, GroupNumbers DEF TablesInv
      <3>4. ASSUME NEW i \in 1..Len(joined') PROVE joined'[i] <= groupCount'
        <4>1. CASE i \in 1..Len(joined)
          <5>1. joined'[i] = joined[i] /\ joined[i] <= groupCount /\ joined[i] \in Nat
            BY <3>2, <3>3, <4>1
          <5>2. groupCount \in Nat /\ groupCount' \in Nat /\ groupCount <= groupCount'
            BY <2>2, <3>3
          <5> QED BY <5>1, <5>2
        <4> QED BY <2>2, <3>1, <4>1
      <3> QED BY <2>2, <3>1, <3>4
    <2> QED BY <2>1, <2>2, <2>a, TablesFrame
  <1> QED BY <1>3, <1>4 DEF TablesInv

\* What the client asks for is well formed: a group that is clicked on is one of
\* the rows.
LEMMA AskedStep ==
  ASSUME BudgetInv, AskedInv, GroupRowsInv, [Next]_vars
  PROVE  AskedInv'
  <1>1. ASSUME NEW msgs, Asking(msgs), NEW m \in ToSet(msgs)
        PROVE  /\ m.type \in Requests
               /\ m.type = "add" => m.about \in Friends \union {NoUser}
               /\ m.type = "profile" => m.about \in Groups
               /\ m.type = "chat" => m.about.at \in Nat
    <2>1. CASE Plain(m)
      BY <2>1 DEF Plain, Requests
    <2>2. CASE ClickGroup /\ msgs = <<Msg("profile", talkGroup')>>
      <3>1. PICK k \in DOMAIN groupRows : FocusinGroup(k)
        BY <2>2 DEF ClickGroup
      <3>2. talkGroup' = groupRows[k].id
        BY <3>1 DEF FocusinGroup
      <3>3. groupRows[k].id \in Groups
        BY DEF GroupRowsInv
      <3>4. m = Msg("profile", talkGroup')
        BY <1>1, <2>2, SeqOne
      <3> QED BY <3>2, <3>3, <3>4 DEF Msg, Requests
    <2>3. CASE \/ \E a : msgs = <<Msg("login", a)>>
               \/ \E a : msgs = <<Msg("register", a)>>
               \/ \E n : msgs = <<Msg("join", n), Msg("groups", 0)>>
      BY <1>1, <2>3, SeqOne DEF Msg, Requests
    <2>4. CASE \E at \in budget.times : msgs = <<Msg("chat", Chat(made', Group(talkGroup), at))>>
      <3>1. PICK at \in budget.times : m = Msg("chat", Chat(made', Group(talkGroup), at))
        BY <1>1, <2>4, SeqOne
      <3>2. at \in Nat
        BY DEF BudgetInv, Budget
      <3> QED BY <3>1, <3>2 DEF Msg, Chat, Requests
    <2> QED BY <1>1, <2>1, <2>2, <2>3, <2>4 DEF Asking
  <1>2. /\ IsSequence(toServer')
        /\ \A m \in ToSet(toServer') :
             m \in ToSet(toServer) \/ \E msgs : Asking(msgs) /\ m \in ToSet(msgs)
    BY ToServerSet DEF AskedInv
  <1> QED BY <1>1, <1>2 DEF AskedInv

-----------------------------------------------------------------------------
(* Lists that get no shorter. *)

\* One more message in s.
LEMMA RisingAppend ==
  ASSUME NEW s, IsSequence(s), NEW x, NEW type, Rising(s, type),
         x.type = type => \A y \in ToSet(s) : y.type = type => Len(y.about) <= Len(x.about)
  PROVE  Rising(Append(s, x), type)
  <1>1. /\ Len(Append(s, x)) = Len(s) + 1 /\ Len(s) \in Nat
        /\ \A i \in 1..Len(s) : Append(s, x)[i] = s[i] /\ s[i] \in ToSet(s)
        /\ Append(s, x)[Len(s) + 1] = x
    BY SeqAppend, SeqFacts
  <1>2. ASSUME NEW i \in 1..(Len(s) + 1), NEW j \in 1..(Len(s) + 1), i < j
        PROVE  i \in 1..Len(s) /\ (j \in 1..Len(s) \/ j = Len(s) + 1)
    BY <1>1, <1>2
  <1> QED BY <1>1, <1>2 DEF Rising

\* The first message is taken.
LEMMA RisingTail ==
  ASSUME NEW s, IsSequence(s), s # <<>>, NEW type, Rising(s, type)
  PROVE  /\ Rising(Tail(s), type)
         /\ Head(s).type = type => AtLeast(Tail(s), type, Len(Head(s).about))
  <1>1. /\ IsSequence(Tail(s)) /\ Len(Tail(s)) = Len(s) - 1 /\ Head(s) = s[1] /\ Len(s) \in Nat
        /\ \A i \in 1..(Len(s) - 1) : Tail(s)[i] = s[i + 1]
    BY SeqTail, SeqFacts
  <1>2. \A i \in 1..(Len(s) - 1) : i + 1 \in 1..Len(s) /\ 1 \in 1..Len(s) /\ 1 < i + 1
    BY <1>1
  <1>3. Rising(Tail(s), type)
    <2> SUFFICES ASSUME NEW i \in 1..(Len(s) - 1), NEW j \in 1..(Len(s) - 1), i < j,
                        Tail(s)[i].type = type, Tail(s)[j].type = type
                 PROVE  Len(Tail(s)[i].about) <= Len(Tail(s)[j].about)
      BY <1>1 DEF Rising
    <2>1. i + 1 < j + 1
      BY <1>1
    <2> QED BY <1>1, <1>2, <2>1 DEF Rising
  <1>4. ASSUME Head(s).type = type, NEW x \in ToSet(Tail(s)), x.type = type
        PROVE  Len(Head(s).about) <= Len(x.about)
    <2>1. \A y : y \in ToSet(Tail(s)) <=> \E i \in 1..Len(Tail(s)) : y = Tail(s)[i]
      BY <1>1, SeqFacts
    <2>2. PICK i \in 1..(Len(s) - 1) : x = Tail(s)[i]
      BY <1>1, <2>1
    <2> QED BY <1>1, <1>2, <1>4, <2>2 DEF Rising
  <1> QED BY <1>3, <1>4 DEF AtLeast

\* Messages of other types come after those of s.
LEMMA RisingConcat ==
  ASSUME NEW s, NEW t, IsSequence(s), IsSequence(t), NEW type, Rising(s, type),
         type \notin Types(t)
  PROVE  Rising(s \o t, type)
  <1>1. /\ IsSequence(s \o t) /\ Len(s \o t) = Len(s) + Len(t)
        /\ Len(s) \in Nat /\ Len(t) \in Nat
        /\ \A i \in 1..Len(s) : (s \o t)[i] = s[i]
        /\ \A i \in 1..Len(t) : (s \o t)[Len(s) + i] = t[i]
    BY SeqConcat, SeqFacts
  <1>2. ASSUME NEW i \in 1..Len(s \o t), (s \o t)[i].type = type
        PROVE  i \in 1..Len(s)
    <2>1. i \in 1..Len(s) \/ (i - Len(s) \in 1..Len(t) /\ Len(s) + (i - Len(s)) = i)
      BY <1>1
    <2>2. \A j \in 1..Len(t) : t[j].type # type
      BY TypesFacts
    <2> QED BY <1>1, <1>2, <2>1, <2>2
  <1> QED BY <1>1, <1>2 DEF Rising

\* A message is received.
LEMMA OrderTaken ==
  ASSUME NEW ib, NEW q, NEW type, NEW n, IsSequence(ib), ib # <<>>, InOrder(ib, q, type, n)
  PROVE  /\ InOrder(Tail(ib), q, type, n)
         /\ Head(ib).type = type => InOrder(Tail(ib), q, type, Len(Head(ib).about))
  <1>1. /\ Rising(Tail(ib), type)
        /\ Head(ib).type = type => AtLeast(Tail(ib), type, Len(Head(ib).about))
    BY RisingTail DEF InOrder
  <1>2. ToSet(Tail(ib)) \subseteq ToSet(ib) /\ Head(ib) \in ToSet(ib)
    BY SeqTail
  <1> QED BY <1>1, <1>2 DEF InOrder, Under, AtLeast

\* A message goes on from the queue, or ends there.
LEMMA OrderMoved ==
  ASSUME NEW ib, NEW q, NEW type, NEW n, IsSequence(ib), IsSequence(q), q # <<>>,
         InOrder(ib, q, type, n)
  PROVE  InOrder(Append(ib, Head(q)), Tail(q), type, n) /\ InOrder(ib, Tail(q), type, n)
  <1>1. /\ Rising(Tail(q), type)
        /\ Head(q).type = type => AtLeast(Tail(q), type, Len(Head(q).about))
    BY RisingTail DEF InOrder
  <1>2. ToSet(Tail(q)) \subseteq ToSet(q) /\ Head(q) \in ToSet(q)
    BY SeqTail
  <1>3. ToSet(Append(ib, Head(q))) = ToSet(ib) \union {Head(q)}
    BY SeqAppend
  <1>4. Rising(Append(ib, Head(q)), type)
    BY <1>2, RisingAppend DEF InOrder, Under
  <1> QED BY <1>1, <1>2, <1>3, <1>4 DEF InOrder, Under, AtLeast

\* A message is lost on its way.
LEMMA RisingRemove ==
  ASSUME NEW s, IsSequence(s), NEW i \in 1..Len(s), NEW type, Rising(s, type)
  PROVE  Rising(RemoveAt(s, i), type) /\ ToSet(RemoveAt(s, i)) \subseteq ToSet(s)
  <1> DEFINE t == RemoveAt(s, i)
             old(k) == IF k < i THEN k ELSE k + 1
  <1>1. /\ Len(t) = Len(s) - 1 /\ Len(s) \in Nat /\ ToSet(t) \subseteq ToSet(s)
        /\ \A k \in 1..(Len(s) - 1) : t[k] = IF k < i THEN s[k] ELSE s[k + 1]
    BY SeqRemove, SeqFacts
  <1>2. \A k \in 1..(Len(s) - 1) : old(k) \in 1..Len(s) /\ t[k] = s[old(k)]
    BY <1>1
  <1>3. \A k, l \in 1..(Len(s) - 1) : k < l => old(k) < old(l)
    BY <1>1
  <1> HIDE DEF t, old
  <1>4. ASSUME NEW k \in 1..(Len(s) - 1), NEW l \in 1..(Len(s) - 1), k < l,
               t[k].type = type, t[l].type = type
        PROVE  Len(t[k].about) <= Len(t[l].about)
    <2>1. /\ old(k) \in 1..Len(s) /\ old(l) \in 1..Len(s) /\ old(k) < old(l)
          /\ s[old(k)] = t[k] /\ s[old(l)] = t[l]
      BY <1>2, <1>3, <1>4
    <2> QED BY <1>4, <2>1 DEF Rising
  <1>5. Rising(t, type)
    BY <1>1, <1>4 DEF Rising
  <1> QED BY <1>1, <1>5 DEF t

LEMMA OrderRemoved ==
  ASSUME NEW ib, NEW q, NEW type, NEW n, InOrder(ib, q, type, n)
  PROVE  /\ IsSequence(ib) => \A i \in 1..Len(ib) : InOrder(RemoveAt(ib, i), q, type, n)
         /\ IsSequence(q) => \A i \in 1..Len(q) : InOrder(ib, RemoveAt(q, i), type, n)
  <1>1. IsSequence(ib) => \A i \in 1..Len(ib) : InOrder(RemoveAt(ib, i), q, type, n)
    BY RisingRemove DEF InOrder, Under, AtLeast
  <1>2. IsSequence(q) => \A i \in 1..Len(q) : InOrder(ib, RemoveAt(q, i), type, n)
    BY RisingRemove DEF InOrder, Under, AtLeast
  <1> QED BY <1>1, <1>2

\* A message of another type comes in.
LEMMA OrderOther ==
  ASSUME NEW ib, NEW q, NEW type, NEW n, IsSequence(ib), NEW x, x.type # type,
         InOrder(ib, q, type, n)
  PROVE  InOrder(Append(ib, x), q, type, n)
  <1>1. Rising(Append(ib, x), type) /\ ToSet(Append(ib, x)) = ToSet(ib) \union {x}
    BY RisingAppend, SeqAppend DEF InOrder
  <1> QED BY <1>1 DEF InOrder, Under, AtLeast

\* Messages of other types are put into the queue.
LEMMA OrderQueued ==
  ASSUME NEW ib, NEW q, NEW type, NEW n, IsSequence(q), NEW t, IsSequence(t), type \notin Types(t),
         InOrder(ib, q, type, n)
  PROVE  InOrder(ib, q \o t, type, n)
  <1>1. Rising(q \o t, type)
    BY RisingConcat DEF InOrder
  <1>2. ToSet(q \o t) = ToSet(q) \union ToSet(t) /\ \A x \in ToSet(t) : x.type # type
    BY SeqConcat, SeqFacts, TypesFacts
  <1> QED BY <1>1, <1>2 DEF InOrder, Under, AtLeast

\* A list that is no shorter than the others is put into the queue.
LEMMA OrderListed ==
  ASSUME NEW ib, NEW q, NEW type, NEW n, IsSequence(q), NEW x, x.type = type,
         n <= Len(x.about), InOrder(ib, q, type, n),
         \A y \in ToSet(ib) \union ToSet(q) : y.type = type => Len(y.about) <= Len(x.about)
  PROVE  InOrder(ib, Append(q, x), type, n)
  <1>1. Rising(Append(q, x), type) /\ ToSet(Append(q, x)) = ToSet(q) \union {x}
    BY RisingAppend, SeqAppend DEF InOrder
  <1> QED BY <1>1 DEF InOrder, Under, AtLeast

\* Nothing is on the way, or nothing waits.
LEMMA OrderEmpty ==
  ASSUME NEW ib, NEW q, NEW type, NEW n, InOrder(ib, q, type, n)
  PROVE  /\ InOrder(ib, <<>>, type, n) /\ InOrder(<<>>, q, type, n)
         /\ (\A x \in ToSet(q) : x.type = type => 0 <= Len(x.about))
              => InOrder(<<>>, q, type, 0)
  <1>1. Rising(<<>>, type) /\ ToSet(<<>>) = {}
    BY SeqOne DEF Rising
  <1> QED BY <1>1 DEF InOrder, Under, AtLeast

-----------------------------------------------------------------------------
(* What the server sends. *)

\* A message that is no list.
NoList(m) ==
  /\ m.type \in (Records \union {"stray"}) \ {"friends", "groups"}
  /\ m.type \in {"profile", "stray"} => m.about \in Groups
  /\ m.type = "chat" => m.about.conv.kind # "none" /\ m.about.at \in Nat

\* A list as the tables have it.
Fresh(m) ==
  \/ m.type = "friends" /\ FriendListing(m.about) /\ Len(m.about) = Len(contacts)
  \/ m.type = "groups" /\ GroupListing(m.about) /\ Len(m.about) = Len(joined)

\* What a request puts into the queue.
LEMMA RequestAnswers ==
  ASSUME BudgetInv, AskedInv, SentInv, TablesInv, HandleRequest
  PROVE  \/ UNCHANGED <<inbox, queue>>
         \/ UNCHANGED queue /\ \E x : NoList(x) /\ x.type # "stray" /\ SendByFd(x)
         \/ /\ UNCHANGED inbox
            /\ \E msgs : /\ IsSequence(msgs) /\ \A m \in ToSet(msgs) : NoList(m)
                         /\ queue' = queue \o msgs
         \/ UNCHANGED inbox /\ \E x : Fresh(x) /\ queue' = queue \o <<x>>
  <1>a. ASSUME NEW x, NoList(x), queue' = queue \o <<x>>
        PROVE  \E msgs : /\ IsSequence(msgs) /\ \A m \in ToSet(msgs) : NoList(m)
                         /\ queue' = queue \o msgs
    <2>1. IsSequence(<<x>>) /\ ToSet(<<x>>) = {x}
      BY SeqOne
    <2> QED BY <1>a, <2>1
  <1>1. CASE HandleRegister
    <2>1. \E fresh : SendByFd(Msg("register-receipt", fresh))
      BY <1>1 DEF HandleRegister
    <2>2. UNCHANGED queue
      BY <1>1 DEF HandleRegister, sendVars
    <2> QED BY <2>1, <2>2 DEF NoList, Records, Msg
  <1>2. CASE HandleLogin
    <2>1. UNCHANGED queue /\ (UNCHANGED inbox \/ SendByFd(Msg("login-receipt", FALSE)))
      BY <1>2 DEF HandleLogin, sendVars
    <2>2. NoList(Msg("login-receipt", FALSE)) /\ Msg("login-receipt", FALSE).type # "stray"
      BY DEF NoList, Records, Msg
    <2> QED BY <2>1, <2>2
  <1>3. CASE HandleFriends
    <2>1. PICK online \in [DOMAIN contacts -> budget.statuses] :
            SendByName(<<Msg("friends", [i \in DOMAIN contacts |->
                                          [name |-> contacts[i], status |-> online[i]]])>>)
      BY <1>3 DEF HandleFriends
    <2> DEFINE list == [i \in DOMAIN contacts |-> [name |-> contacts[i], status |-> online[i]]]
    <2>2. Len(contacts) \in Nat /\ DOMAIN contacts = 1..Len(contacts)
          /\ \A i \in 1..Len(contacts) : contacts[i] \in Friends
      BY LenProperties DEF TablesInv
    <2>3. budget.statuses \subseteq {0, 1}
      BY DEF BudgetInv, Budget
    <2>4. list \in [1..Len(contacts) -> [name : Friends, status : {0, 1}]]
      BY <2>2, <2>3
    <2>5. list \in Seq([name : Friends, status : {0, 1}]) /\ Len(list) = Len(contacts)
          /\ \A i \in 1..Len(contacts) : list[i].name = contacts[i]
      BY <2>2, <2>4
    <2>6. Fresh(Msg("friends", list))
      <3> HIDE DEF list
      <3> QED BY <2>2, <2>5 DEF Fresh, Msg, FriendListing
    <2> QED BY <2>1, <2>6 DEF SendByName
  <1>4. CASE HandleGroups
    <2>1. Fresh(Msg("groups", joined)) /\ SendByName(<<Msg("groups", joined)>>)
      BY <1>4, LenProperties DEF HandleGroups, Fresh, Msg, GroupListing, TablesInv
    <2> QED BY <2>1 DEF SendByName
  <1>5. CASE HandleProfile
    <2>1. Head(toServer) \in ToSet(toServer) /\ Head(toServer).type = "profile"
      BY <1>5, SeqTail DEF HandleProfile, Handle, AskedInv
    <2>2. Head(toServer).about \in Groups
      BY <2>1 DEF AskedInv
    <2>3. \E x : NoList(x) /\ SendByName(<<x>>)
      BY <1>5, <2>2 DEF HandleProfile, NoList, Records, Msg
    <2> QED BY <1>a, <2>3 DEF SendByName
  <1>6. CASE HandleGroupChat
    <2>1. Head(toServer).type = "chat" /\ Head(toServer) \in ToSet(toServer)
      BY <1>6, SeqTail DEF HandleGroupChat, Handle, AskedInv
    <2>2. CASE Head(toServer).about.conv.kind = "group" /\ SendByName(<<Head(toServer)>>)
      <3>1. NoList(Head(toServer))
        BY <2>1, <2>2 DEF AskedInv, NoList, Records
      <3> QED BY <1>a, <2>2, <3>1 DEF SendByName
    <2>3. CASE SendByName(<<>>)
      BY <2>3, SeqOne DEF SendByName
    <2> QED BY <1>6, <2>2, <2>3 DEF HandleGroupChat
  <1>7. CASE HandleAdd \/ HandleJoin \/ HandleCreate \/ HandleSingle
    <2>1. \/ SendByName(<<>>)
          \/ \E type \in {"add-receipt", "join-receipt"} : \E done : SendByName(<<Msg(type, done)>>)
          \/ \E done : SendByName(<<Msg("create-receipt", TRUE), Msg("join-receipt", done)>>)
      BY <1>7 DEF HandleAdd, HandleJoin, HandleCreate, HandleSingle, JoinReceipt
    <2>2. \A type \in {"add-receipt", "join-receipt", "create-receipt"} : \A done : NoList(Msg(type, done))
      BY DEF NoList, Records, Msg
    <2>3. CASE SendByName(<<>>)
      BY <2>3, SeqOne DEF SendByName
    <2>4. CASE \E type \in {"add-receipt", "join-receipt"} : \E done : SendByName(<<Msg(type, done)>>)
      BY <1>a, <2>2, <2>4 DEF SendByName
    <2>5. ASSUME NEW done, SendByName(<<Msg("create-receipt", TRUE), Msg("join-receipt", done)>>)
          PROVE  \E msgs : /\ IsSequence(msgs) /\ \A m \in ToSet(msgs) : NoList(m)
                           /\ queue' = queue \o msgs
      <3> DEFINE x == Msg("create-receipt", TRUE)
                 y == Msg("join-receipt", done)
      <3>1. NoList(x) /\ NoList(y)
        BY <2>2
      <3>2. queue' = queue \o <<x, y>>
        BY <2>5 DEF SendByName
      <3> HIDE DEF x, y
      <3>3. IsSequence(<<x, y>>) /\ ToSet(<<x, y>>) = {x, y}
        BY SeqOne
      <3> QED BY <3>1, <3>2, <3>3
    <2>6. UNCHANGED inbox
      BY <1>7 DEF HandleAdd, HandleJoin, HandleCreate, HandleSingle, SendByName
    <2> QED BY <2>1, <2>3, <2>4, <2>5, <2>6
  <1> QED BY <1>1, <1>2, <1>3, <1>4, <1>5, <1>6, <1>7 DEF HandleRequest

\* A message of the queue, and a stored one, at the end of the queue.
LEMMA QueuedOne ==
  ASSUME SentInv, NEW x
  PROVE  Append(queue, x) = queue \o <<x>> /\ IsSequence(<<x>>) /\ ToSet(<<x>>) = {x}
  <1>1. PICK S : queue \in Seq(S)
    BY DEF SentInv, IsSequence
  <1>2. queue \in Seq(S \union {x})
    BY <1>1
  <1> QED BY <1>2, SeqOne

\* What the send thread does with the head of the queue.
LEMMA DispatchPipe ==
  ASSUME Dispatch
  PROVE  \/ UNCHANGED <<inbox, queue, stored, rows>>
         \/ /\ queue # <<>> /\ queue' = Tail(queue) /\ UNCHANGED rows
            /\ \/ inbox' = inbox
               \/ inbox' = Append(inbox, Head(queue)) /\ Head(queue).type # "stray"
               \/ /\ inbox' = Append(inbox, Msg("profile", Head(queue).about))
                  /\ Head(queue).type = "stray"
            /\ \/ stored' = stored
               \/ stored' = Append(stored, Head(queue)) /\ Head(queue).type = "chat"
  BY DEF Dispatch, SndLookup, SndSend, SndSave, SndTake, SndStep, loginVars

\* What a login does to the queue and to what is stored.
LEMMA LoginPipe ==
  ASSUME SentInv, NEW s \in Sessions, LoginStep(s)
  PROVE  /\ \/ UNCHANGED <<inbox, queue>>
            \/ UNCHANGED queue /\ SendByFd(Msg("login-receipt", TRUE))
            \/ UNCHANGED inbox /\ rows[s] # <<>> /\ queue' = queue \o <<Head(rows[s])>>
         /\ stored' \in {stored, <<>>}
         /\ \/ rows' = rows
            \/ rows' = [rows EXCEPT ![s] = stored]
            \/ rows[s] # <<>> /\ rows' = [rows EXCEPT ![s] = Tail(@)]
  <1>1. CASE ReplayRow(s)
    BY <1>1, QueuedOne DEF ReplayRow
  <1>2. CASE SetName(s) \/ SelectStored(s) \/ EraseStored(s) \/ LoginReceipt(s)
    BY <1>2 DEF SetName, SelectStored, EraseStored, LoginReceipt
  <1> QED BY <1>1, <1>2 DEF LoginStep

\* What a step does to what is on its way to the client.
LEMMA PipeFrame ==
  ASSUME BudgetInv, AskedInv, SentInv, TablesInv, [Next]_vars
  PROVE  \/ UNCHANGED <<inbox, queue>>
         \/ queue' = <<>> /\ UNCHANGED inbox
         \/ inbox # <<>> /\ inbox' = Tail(inbox) /\ UNCHANGED queue
         \/ inbox' = <<>> /\ ListsReset /\ UNCHANGED queue
         \/ UNCHANGED queue /\ \E x : NoList(x) /\ x.type # "stray" /\ SendByFd(x)
         \/ /\ UNCHANGED inbox
            /\ \E msgs : /\ IsSequence(msgs) /\ \A m \in ToSet(msgs) : NoList(m)
                         /\ queue' = queue \o msgs
         \/ UNCHANGED inbox /\ \E x : Fresh(x) /\ queue' = queue \o <<x>>
         \/ Dispatch
         \/ UNCHANGED queue /\ \E i \in 1..Len(inbox) : inbox' = RemoveAt(inbox, i)
         \/ UNCHANGED inbox /\ \E i \in 1..Len(queue) : queue' = RemoveAt(queue, i)
  <1> DEFINE Queued == \E msgs : /\ IsSequence(msgs) /\ \A m \in ToSet(msgs) : NoList(m)
                                /\ queue' = queue \o msgs
  <1>a. ASSUME NEW x, NoList(x), queue' = queue \o <<x>>
        PROVE  Queued
    <2>1. IsSequence(<<x>>) /\ ToSet(<<x>>) = {x}
      BY SeqOne
    <2> QED BY <1>a, <2>1
  <1>b. NoList(Msg("login-receipt", TRUE)) /\ NoList(Msg("force-logout", FALSE))
    BY DEF NoList, Records, Msg
  <1>c. Msg("login-receipt", TRUE).type # "stray" /\ Msg("force-logout", FALSE).type # "stray"
    BY DEF Msg
  <1>1. CASE HandleRequest
    BY <1>1, RequestAnswers
  <1>2. ASSUME NEW s \in Sessions, LoginStep(s)
        PROVE  \/ UNCHANGED <<inbox, queue>>
               \/ UNCHANGED queue /\ \E x : NoList(x) /\ x.type # "stray" /\ SendByFd(x)
               \/ UNCHANGED inbox /\ Queued
    <2>1. rows[s] # <<>> => NoList(Head(rows[s]))
      <3>1. rows[s] # <<>> => Head(rows[s]) \in ToSet(rows[s])
        BY SeqTail DEF SentInv
      <3> QED BY <3>1 DEF SentInv, StoredChat, WellFormed, NoList, Records
    <2> HIDE DEF Queued
    <2> QED BY <1>2, <1>a, <1>b, <1>c, <2>1, LoginPipe
  <1>3. CASE OtherLogin
    <2>1. UNCHANGED queue /\ (UNCHANGED inbox \/ SendByFd(Msg("force-logout", FALSE)))
      BY <1>3 DEF OtherLogin, sendVars
    <2> QED BY <1>b, <1>c, <2>1
  <1>4. CASE PeerSends
    <2>1. /\ UNCHANGED inbox
          /\ \E about : /\ queue' = Append(queue, Msg("chat", about))
                       /\ about.conv.kind # "none" /\ about.at \in budget.times
      BY <1>4 DEF PeerSends, netVars, Chat, Single, Group
    <2>2. budget.times \subseteq Nat
      BY DEF BudgetInv, Budget
    <2>3. \A about : about.conv.kind # "none" /\ about.at \in Nat => NoList(Msg("chat", about))
      BY DEF NoList, Records, Msg
    <2> QED BY <1>a, <2>1, <2>2, <2>3, QueuedOne
  <1>5. CASE \/ DeleteClient \/ CreateFails \/ OtherLeaves \/ WipeName \/ ServerStops \/ Timer
             \/ OverwriteRequest
    BY <1>5 DEF DeleteClient, CreateFails, ServerEnds, OtherLeaves, WipeName, ServerStops, Timer,
      OverwriteRequest, netVars, serverEnd, serverVars, sendVars
  <1>6. CASE ReceiveThread
    BY <1>6 DEF ReceiveThread, ReceiveRegistered, ReceiveLogin, ReceiveRefusal, ReceiveNotice,
      ReceiveChat, ReceiveFriends, UnpackEntry, ShowFriends, ReceiveAdded, ReceiveGroups, ShowGroups,
      ReceiveJoined, ReceiveProfile, ShowMain, AskFriends, AskGroups, ReceiveEnd, Exit, Take, Busy,
      Receive, serverEnd, serverVars, sendVars
  <1>7. CASE User
    BY <1>7 DEF User, Login, Regist, OtherWindow, ClickFriend, ClickGroup, ChangeTab, Hover, Compose,
      SendSingle, SendGroup, SendNowhere, OpenDialog, CloseDialog, ConfirmBadNumber, ConfirmGroup,
      ConfirmCreate, ConfirmFriend, Quit, Start, Exit, InMain, UserActs, serverEnd, serverVars,
      sendVars
  <1>8. CASE UNCHANGED vars
    BY <1>8 DEF vars, netVars, serverVars, sendVars
  <1>9. CASE Wedge
    <2>1. UNCHANGED inbox /\ (UNCHANGED queue \/ (queue # <<>> /\ queue' = Front(queue)))
      BY <1>9 DEF Wedge, netVars
    <2>2. queue # <<>> => \E i \in 1..Len(queue) : Front(queue) = RemoveAt(queue, i)
      BY SeqFront DEF SentInv
    <2> QED BY <2>1, <2>2
  <1>10. CASE LoseMessage
    <2>1. DOMAIN inbox = 1..Len(inbox)
      BY SeqFacts DEF SentInv
    <2> QED BY <1>10, <2>1 DEF LoseMessage, serverVars, sendVars
  <1>11. "us" \in Sessions /\ "other" \in Sessions
    BY DEF Sessions
  <1> HIDE DEF Queued
  <1> QED BY <1>1, <1>2, <1>3, <1>4, <1>5, <1>6, <1>7, <1>8, <1>9, <1>10, <1>11
          DEF Next, ClientThread, Outside, Queued

\* What a step does to what is stored and replayed.
LEMMA StoredFrame ==
  ASSUME SentInv, [Next]_vars
  PROVE  /\ \/ stored' \in {stored, <<>>}
            \/ /\ queue # <<>> /\ Head(queue).type = "chat"
               /\ stored' = Append(stored, Head(queue))
         /\ \/ rows' = rows \/ rows' = [s \in Sessions |-> <<>>]
            \/ \E s \in Sessions :
                 \/ rows' = [rows EXCEPT ![s] = stored]
                 \/ rows[s] # <<>> /\ rows' = [rows EXCEPT ![s] = Tail(@)]
  <1>1. CASE Dispatch
    BY <1>1, DispatchPipe
  <1>2. ASSUME NEW s \in Sessions, LoginStep(s)
        PROVE  /\ stored' \in {stored, <<>>}
               /\ \/ rows' = rows
                  \/ rows' = [rows EXCEPT ![s] = stored]
                  \/ rows[s] # <<>> /\ rows' = [rows EXCEPT ![s] = Tail(@)]
    BY <1>2, LoginPipe
  <1>3. CASE HandleRequest \/ DeleteClient
    BY <1>3 DEF HandleRequest, DeleteClient, Handle, HandleRegister, HandleLogin, HandleFriends,
      HandleGroups, HandleAdd, HandleJoin, HandleCreate, HandleProfile, HandleGroupChat,
      HandleSingle, SendByName, sendVars
  <1>4. CASE CreateFails \/ ServerStops
    BY <1>4 DEF CreateFails, ServerStops, ServerEnds
  <1>5. CASE \/ OtherLogin \/ OtherLeaves \/ WipeName \/ PeerSends \/ Wedge \/ LoseMessage
             \/ OverwriteRequest \/ Timer
    BY <1>5 DEF OtherLogin, OtherLeaves, WipeName, PeerSends, Wedge, LoseMessage, OverwriteRequest,
      Timer, serverEnd, serverVars, sendVars, loginVars
  <1>6. CASE ReceiveThread
    BY <1>6 DEF ReceiveThread, ReceiveRegistered, ReceiveLogin, ReceiveRefusal, ReceiveNotice,
      ReceiveChat, ReceiveFriends, UnpackEntry, ShowFriends, ReceiveAdded, ReceiveGroups, ShowGroups,
      ReceiveJoined, ReceiveProfile, ShowMain, AskFriends, AskGroups, ReceiveEnd, Exit, Take, Busy,
      serverEnd, serverVars, sendVars, loginVars
  <1>7. CASE User
    BY <1>7 DEF User, Login, Regist, OtherWindow, ClickFriend, ClickGroup, ChangeTab, Hover, Compose,
      SendSingle, SendGroup, SendNowhere, OpenDialog, CloseDialog, ConfirmBadNumber, ConfirmGroup,
      ConfirmCreate, ConfirmFriend, Quit, Start, Exit, InMain, UserActs, serverEnd, serverVars,
      sendVars, loginVars
  <1>8. CASE UNCHANGED vars
    BY <1>8 DEF vars, serverVars, sendVars, loginVars
  <1>9. "us" \in Sessions /\ "other" \in Sessions
    BY DEF Sessions
  <1> QED BY <1>1, <1>2, <1>3, <1>4, <1>5, <1>6, <1>7, <1>8, <1>9 DEF Next, ClientThread, Outside

\* Tables that have become longer begin with the lists that were sent.
LEMMA StillWellFormed ==
  ASSUME TablesInv, TablesInv', Longer(contacts', contacts), Longer(joined', joined)
  PROVE  /\ \A list : FriendListing(list) => FriendListing(list)'
         /\ \A m : WellFormed(m) => WellFormed(m)'
  <1>1. /\ Len(contacts) \in Nat /\ Len(contacts') \in Nat
        /\ Len(joined) \in Nat /\ Len(joined') \in Nat
    BY LenProperties DEF TablesInv
  <1>2. ASSUME NEW list, FriendListing(list) PROVE FriendListing(list)'
    <2>1. Len(list) \in Nat
      BY <1>2, LenProperties DEF FriendListing
    <2> QED BY <1>1, <1>2, <2>1 DEF FriendListing, Longer
  <1>3. ASSUME NEW list, GroupListing(list) PROVE GroupListing(list)'
    <2>1. Len(list) \in Nat
      BY <1>3, LenProperties DEF GroupListing
    <2> QED BY <1>1, <1>3, <2>1 DEF GroupListing, Longer
  <1> QED BY <1>2, <1>3 DEF WellFormed

\* What is sent stays well formed.
LEMMA SentStep ==
  ASSUME BudgetInv, AskedInv, SentInv, TablesInv, [Next]_vars
  PROVE  SentInv'
  <1>1. \A m : WellFormed(m) => WellFormed(m)'
    BY TablesStep, StillWellFormed
  <1>2. \A m : NoList(m) \/ Fresh(m) => WellFormed(m)
    <2>1. Len(contacts) \in Nat /\ Len(joined) \in Nat
      BY LenProperties DEF TablesInv
    <2> QED BY <2>1 DEF NoList, Fresh, WellFormed, Records, FriendListing, GroupListing
  <1> DEFINE Inbox(t) == IsSequence(t) /\ \A m \in ToSet(t) : WellFormed(m) /\ m.type # "stray"
             Queue(t) == IsSequence(t) /\ \A m \in ToSet(t) : WellFormed(m)
             Stored(t) == IsSequence(t) /\ \A m \in ToSet(t) : StoredChat(m)
  <1>3. Inbox(inbox) /\ Queue(queue) /\ Stored(stored)
    BY DEF SentInv
  <1>4. Inbox(<<>>) /\ Queue(<<>>) /\ Stored(<<>>)
    BY SeqOne
  <1>5. ASSUME NEW t, IsSequence(t), \A m \in ToSet(t) : WellFormed(m) PROVE Queue(queue \o t)
    BY <1>3, <1>5, SeqConcat
  <1>6. ASSUME NEW x, WellFormed(x), x.type # "stray" PROVE Inbox(Append(inbox, x))
    BY <1>3, <1>6, SeqAppend
  <1>7. queue # <<>> => Queue(Tail(queue)) /\ WellFormed(Head(queue))
    BY <1>3, SeqTail
  <1>8. Inbox(inbox') /\ Queue(queue')
    <2>1. CASE inbox # <<>> /\ inbox' = Tail(inbox) /\ UNCHANGED queue
      BY <1>3, <2>1, SeqTail
    <2>2. ASSUME UNCHANGED queue, NEW x, NoList(x), x.type # "stray", SendByFd(x)
          PROVE  Inbox(inbox') /\ Queue(queue')
      <3>1. inbox' = inbox \/ inbox' = Append(inbox, x)
        BY <2>2 DEF SendByFd
      <3> QED BY <1>2, <1>3, <1>6, <2>2, <3>1
    <2>3. ASSUME NEW msgs, IsSequence(msgs), \A m \in ToSet(msgs) : NoList(m), queue' = queue \o msgs,
                 UNCHANGED inbox
          PROVE  Inbox(inbox') /\ Queue(queue')
      BY <1>2, <1>3, <1>5, <2>3
    <2>4. ASSUME NEW x, Fresh(x), queue' = queue \o <<x>>, UNCHANGED inbox
          PROVE  Inbox(inbox') /\ Queue(queue')
      <3>1. IsSequence(<<x>>) /\ ToSet(<<x>>) = {x}
        BY SeqOne
      <3> QED BY <1>2, <1>3, <1>5, <2>4, <3>1
    <2>5. CASE Dispatch
      <3>1. Head(queue).type = "stray" /\ WellFormed(Head(queue)) =>
              /\ WellFormed(Msg("profile", Head(queue).about))
              /\ Msg("profile", Head(queue).about).type # "stray"
        BY DEF WellFormed, Msg, Records
      <3> HIDE DEF Inbox, Queue
      <3> QED BY <1>3, <1>6, <1>7, <2>5, <3>1, DispatchPipe
    <2>6. CASE UNCHANGED queue /\ \E i \in 1..Len(inbox) : inbox' = RemoveAt(inbox, i)
      BY <1>3, <2>6, SeqRemove
    <2>7. CASE UNCHANGED inbox /\ \E i \in 1..Len(queue) : queue' = RemoveAt(queue, i)
      BY <1>3, <2>7, SeqRemove
    <2> HIDE DEF Inbox, Queue
    <2> QED BY <1>3, <1>4, <2>1, <2>2, <2>3, <2>4, <2>5, <2>6, <2>7, PipeFrame
  <1>9. Stored(stored')
    <2>1. Head(queue).type = "chat" /\ queue # <<>> => Stored(Append(stored, Head(queue)))
      BY <1>3, <1>7, SeqAppend DEF StoredChat
    <2> HIDE DEF Stored
    <2> QED BY <1>3, <1>4, <2>1, StoredFrame
  <1>10. DOMAIN rows' = Sessions /\ \A s \in Sessions : Stored(rows'[s])
    <2>1. DOMAIN rows = Sessions /\ \A s \in Sessions : Stored(rows[s])
      BY DEF SentInv
    <2>2. \A s \in Sessions : rows[s] # <<>> => Stored(Tail(rows[s]))
      BY <2>1, SeqTail
    <2> HIDE DEF Stored
    <2> QED BY <1>3, <1>4, <2>1, <2>2, StoredFrame
  <1>11. \A m : StoredChat(m) => StoredChat(m)'
    BY <1>1 DEF StoredChat
  <1> QED BY <1>1, <1>8, <1>9, <1>10, <1>11 DEF SentInv

-----------------------------------------------------------------------------
(* What a step does to the lists. *)

\* What the server, the timer and the outside leave alone.
LEMMA AwayFrame ==
  ASSUME ClientThread \/ Dispatch \/ Outside \/ Timer \/ UNCHANGED vars
  PROVE  /\ UNCHANGED <<listVars, inputVars, loggedIn, recvPc, inHand, record, view, members>>
         /\ UNCHANGED <<friendListSize, groupListSize, talk, tab>>
  <1>1. UNCHANGED clientVars
    <2>1. CASE Timer
      BY <2>1 DEF Timer
    <2>2. CASE UNCHANGED vars
      BY <2>2 DEF vars
    <2> QED BY <2>1, <2>2, ServerFrame
  <1> QED BY <1>1 DEF clientVars, sessionVars, chatVars, listVars, lists, pane

\* One of the handlers of ClientLists, or nothing.
LEMMA ListFrame ==
  ASSUME [Next]_vars
  PROVE  \/ UNCHANGED listVars
         \/ ReceiveFriends \/ UnpackEntry \/ ShowFriends \/ ReceiveAdded
         \/ ReceiveGroups \/ ShowGroups \/ ReceiveJoined
         \/ \E k \in DOMAIN friendRows : MovetoFriend(k) \/ LeaveFriend(k) \/ FocusinFriend(k)
         \/ \E k \in DOMAIN groupRows : MovetoGroup(k) \/ LeaveGroup(k) \/ FocusinGroup(k)
         \/ \E aim \in {"friend", "group", "about"} : ClickTab(aim)
         \/ ListsReset /\ recvPc' = "recv" /\ inHand' = Nothing
  <1>1. CASE ClientThread \/ Dispatch \/ Outside \/ Timer \/ UNCHANGED vars
    BY <1>1, AwayFrame
  <1>2. CASE ReceiveThread
    BY <1>2 DEF ReceiveThread, ReceiveRegistered, ReceiveLogin, ReceiveRefusal, ReceiveNotice,
      ReceiveChat, ReceiveProfile, ShowMain, AskFriends, AskGroups, ReceiveEnd, Exit
  <1>3. CASE User
    BY <1>3 DEF User, Login, Regist, OtherWindow, ClickFriend, ClickGroup, ChangeTab, Hover, Compose,
      SendSingle, SendGroup, SendNowhere, OpenDialog, CloseDialog, ConfirmBadNumber, ConfirmGroup,
      ConfirmCreate, ConfirmFriend, Quit, Start, Exit
  <1> QED BY <1>1, <1>2, <1>3 DEF Next

\* The receive thread is where it was, with the list it has in hand.
LEMMA RecvFrame ==
  ASSUME [Next]_vars
  PROVE  \/ UNCHANGED <<recvPc, inHand>>
         \/ ReceiveFriends \/ UnpackEntry \/ ShowFriends \/ ReceiveGroups \/ ShowGroups
         \/ /\ recvPc # "entries" /\ recvPc' \in {"show", "ask friends", "ask groups", "recv"}
            /\ UNCHANGED <<inHand, listVars>>
         \/ recvPc' = "recv" /\ inHand' = Nothing /\ ListsReset
  <1>1. CASE ClientThread \/ Dispatch \/ Outside \/ Timer \/ UNCHANGED vars
    BY <1>1, AwayFrame
  <1>2. CASE ReceiveThread
    BY <1>2 DEF ReceiveThread, ReceiveRegistered, ReceiveLogin, ReceiveRefusal, ReceiveNotice,
      ReceiveChat, ReceiveAdded, ReceiveJoined, ReceiveProfile, ShowMain, AskFriends, AskGroups,
      ReceiveEnd, Exit, Receive, Busy, sessionVars
  <1>3. CASE User
    BY <1>3 DEF User, Login, Regist, OtherWindow, ClickFriend, ClickGroup, ChangeTab, Hover, Compose,
      SendSingle, SendGroup, SendNowhere, OpenDialog, CloseDialog, ConfirmBadNumber, ConfirmGroup,
      ConfirmCreate, ConfirmFriend, Quit, Start, Exit, InMain, UserActs, sessionVars
  <1> QED BY <1>1, <1>2, <1>3 DEF Next

\* The two sizes change when a list is received, and at the end of the process.
LEMMA SizesFrame ==
  ASSUME [Next]_vars
  PROVE  \/ UNCHANGED <<friendListSize, groupListSize>>
         \/ /\ inbox # <<>> /\ inbox' = Tail(inbox) /\ queue' = queue
            /\ \/ /\ Head(inbox).type = "friends" /\ groupListSize' = groupListSize
                  /\ friendListSize' = Len(Head(inbox).about)
               \/ /\ Head(inbox).type = "groups" /\ friendListSize' = friendListSize
                  /\ groupListSize' = Len(Head(inbox).about)
         \/ friendListSize' = 0 /\ groupListSize' = 0 /\ inbox' = <<>> /\ queue' = queue
  <1>1. CASE ReceiveFriends \/ ReceiveGroups
    BY <1>1 DEF ReceiveFriends, ReceiveGroups, Receive, Take, FriendListSize, GroupList, serverEnd,
      serverVars, sendVars
  <1>2. CASE ReceiveRefusal \/ ReceiveEnd \/ Quit
    BY <1>2 DEF ReceiveRefusal, ReceiveEnd, Quit, Exit, ListsReset, serverVars, sendVars
  <1>3. CASE ClientThread \/ Dispatch \/ Outside \/ Timer \/ UNCHANGED vars
    BY <1>3, AwayFrame
  <1>4. CASE ReceiveThread /\ ~(ReceiveFriends \/ ReceiveGroups \/ ReceiveRefusal \/ ReceiveEnd)
    BY <1>4 DEF ReceiveThread, ReceiveRegistered, ReceiveLogin, ReceiveNotice, ReceiveChat,
      UnpackEntry, ShowFriends, ReceiveAdded, ShowGroups, ReceiveJoined, ReceiveProfile, ShowMain,
      AskFriends, AskGroups, FriendEntry, UpdateFriendlist, UpdateGrouplist, listVars, lists
  <1>5. CASE User /\ ~Quit
    BY <1>5 DEF User, Login, Regist, OtherWindow, ClickFriend, ClickGroup, ChangeTab, Hover, Compose,
      SendSingle, SendGroup, SendNowhere, OpenDialog, CloseDialog, ConfirmBadNumber, ConfirmGroup,
      ConfirmCreate, ConfirmFriend, Start, FocusinFriend, FocusinGroup, ClickTab, MovetoFriend,
      LeaveFriend, MovetoGroup, LeaveGroup, listVars, lists
  <1> QED BY <1>1, <1>2, <1>3, <1>4, <1>5 DEF Next

\* What a step does to the order of one kind of list when none is received.
LEMMA OrderStep ==
  ASSUME BudgetInv, AskedInv, SentInv, TablesInv, [Next]_vars, NEW type, NEW n,
         \/ type = "friends" /\ n \in 0..Len(contacts)
         \/ type = "groups" /\ n \in 0..Len(joined),
         InOrder(inbox, queue, type, n)
  PROVE  InOrder(inbox', queue', type, n)
  <1>a. PICK top : /\ \/ type = "friends" /\ top = Len(contacts)
                      \/ type = "groups" /\ top = Len(joined)
                   /\ n \in 0..top
    OBVIOUS
  <1>1. IsSequence(inbox) /\ IsSequence(queue)
    BY DEF SentInv
  <1>2. CASE UNCHANGED <<inbox, queue>>
    BY <1>2
  <1>3. CASE \/ queue' = <<>> /\ UNCHANGED inbox
             \/ inbox' = <<>> /\ UNCHANGED queue
    BY <1>3, OrderEmpty
  <1>4. CASE inbox # <<>> /\ inbox' = Tail(inbox) /\ UNCHANGED queue
    BY <1>1, <1>4, OrderTaken
  <1>5. ASSUME UNCHANGED queue, NEW x, NoList(x), SendByFd(x)
        PROVE  InOrder(inbox', queue', type, n)
    <2>1. x.type # type
      BY <1>5 DEF NoList
    <2>2. inbox' = inbox \/ inbox' = Append(inbox, x)
      BY <1>5 DEF SendByFd
    <2> QED BY <1>1, <1>5, <2>1, <2>2, OrderOther
  <1>6. ASSUME UNCHANGED inbox, NEW msgs, IsSequence(msgs), \A m \in ToSet(msgs) : NoList(m),
               queue' = queue \o msgs
        PROVE  InOrder(inbox', queue', type, n)
    <2>1. type \notin Types(msgs)
      <3>1. \A m \in ToSet(msgs) : m.type # type
        BY <1>6 DEF NoList
      <3> QED BY <1>6, <3>1, SeqFacts, TypesFacts
    <2> QED BY <1>1, <1>6, <2>1, OrderQueued
  <1>7. ASSUME UNCHANGED inbox, NEW x, Fresh(x), queue' = queue \o <<x>>
        PROVE  InOrder(inbox', queue', type, n)
    <2>1. CASE x.type # type
      <3>1. IsSequence(<<x>>) /\ type \notin Types(<<x>>)
        BY <2>1, SeqOne, TypesOne
      <3> QED BY <1>1, <1>7, <3>1, OrderQueued
    <2>2. CASE x.type = type
      <3>1. queue \o <<x>> = Append(queue, x)
        <4>1. PICK S : queue \in Seq(S)
          BY <1>1 DEF IsSequence
        <4>2. queue \in Seq(S \union {x})
          BY <4>1
        <4> QED BY <4>2
      <3>2. Len(x.about) = top /\ n <= top
        BY <1>a, <1>7, <2>2 DEF Fresh
      <3>3. \A y \in ToSet(inbox) \union ToSet(queue) : y.type = type => Len(y.about) <= top
        BY <1>a DEF SentInv, WellFormed, FriendListing, GroupListing
      <3> QED BY <1>1, <1>7, <2>2, <3>1, <3>2, <3>3, OrderListed
    <2> QED BY <2>1, <2>2
  <1>8. CASE Dispatch
    <2>1. queue # <<>> =>
            InOrder(Append(inbox, Head(queue)), Tail(queue), type, n) /\ InOrder(inbox, Tail(queue), type, n)
      BY <1>1, OrderMoved
    <2>2. Msg("profile", Head(queue).about).type # type
      BY DEF Msg
    <2>3. queue # <<>> => InOrder(Append(inbox, Msg("profile", Head(queue).about)), Tail(queue), type, n)
      BY <1>1, <2>1, <2>2, OrderOther
    <2> QED BY <1>8, <2>1, <2>3, DispatchPipe
  <1>9. CASE UNCHANGED queue /\ \E i \in 1..Len(inbox) : inbox' = RemoveAt(inbox, i)
    BY <1>1, <1>9, OrderRemoved
  <1>10. CASE UNCHANGED inbox /\ \E i \in 1..Len(queue) : queue' = RemoveAt(queue, i)
    BY <1>1, <1>10, OrderRemoved
  <1> QED BY <1>2, <1>3, <1>4, <1>5, <1>6, <1>7, <1>8, <1>9, <1>10, PipeFrame

\* Lists get no shorter on their way.
LEMMA GrowingStep ==
  ASSUME BudgetInv, AskedInv, SentInv, TablesInv, GrowingInv, FriendDataInv, GroupDataInv, [Next]_vars
  PROVE  GrowingInv'
  <1>1. IsSequence(inbox) /\ friendListSize \in 0..Len(contacts) /\ groupListSize \in 0..Len(joined)
    BY DEF SentInv, FriendDataInv, GroupDataInv
  <1>2. CASE friendListSize' = 0 /\ groupListSize' = 0 /\ inbox' = <<>> /\ queue' = queue
    <2>1. \A x \in ToSet(queue) : x.type \in {"friends", "groups"} => 0 <= Len(x.about)
      <3>1. \A x \in ToSet(queue) : x.type \in {"friends", "groups"} => Len(x.about) \in Nat
        BY LenProperties DEF SentInv, WellFormed, FriendListing, GroupListing
      <3> QED BY <3>1
    <2> QED BY <1>2, <2>1, OrderEmpty DEF GrowingInv
  <1>3. CASE UNCHANGED <<friendListSize, groupListSize>>
    <2>1. InOrder(inbox', queue', "friends", friendListSize)
      BY <1>1, OrderStep DEF GrowingInv
    <2>2. InOrder(inbox', queue', "groups", groupListSize)
      BY <1>1, OrderStep DEF GrowingInv
    <2> QED BY <1>3, <2>1, <2>2 DEF GrowingInv
  <1>4. CASE /\ inbox # <<>> /\ inbox' = Tail(inbox) /\ queue' = queue
             /\ \/ /\ Head(inbox).type = "friends" /\ groupListSize' = groupListSize
                   /\ friendListSize' = Len(Head(inbox).about)
                \/ /\ Head(inbox).type = "groups" /\ friendListSize' = friendListSize
                   /\ groupListSize' = Len(Head(inbox).about)
    BY <1>1, <1>4, OrderTaken DEF GrowingInv
  <1> QED BY <1>2, <1>3, <1>4, SizesFrame

-----------------------------------------------------------------------------
(* What has been received. *)

\* The contacts are no more than there are friends, and keep their places.
LEMMA ContactsFacts ==
  ASSUME AskedInv, TablesInv, [Next]_vars
  PROVE  /\ contacts \in Seq(Friends) /\ Len(contacts) \in Nat /\ Len(contacts') \in Nat
         /\ Len(contacts) <= Len(contacts') /\ Len(contacts) <= Cardinality(Friends)
         /\ Cardinality(Friends) \in Nat
         /\ \A i \in 1..Len(contacts) : contacts'[i] = contacts[i] /\ contacts[i] \in Friends
         /\ NoUser \notin Friends
  <1>1. TablesInv' /\ Longer(contacts', contacts)
    BY TablesStep
  <1>2. Len(contacts) \in Nat /\ Len(contacts') \in Nat
    BY <1>1, LenProperties DEF TablesInv
  <1>3. Len(contacts) <= Cardinality(Friends)
    BY NoLonger, FriendsAssumption DEF TablesInv
  <1>4. \A i \in 1..Len(contacts) : contacts[i] \in Friends
    BY DEF TablesInv
  <1> QED BY <1>1, <1>2, <1>3, <1>4, GroupNumbers, NoUserAssumption DEF Longer, TablesInv

\* The list of friends and where the receive thread is with it.
LEMMA FriendDataFrame ==
  ASSUME [Next]_vars
  PROVE  \/ /\ UNCHANGED <<userdata, friendListSize, inHand>>
            /\ \/ UNCHANGED recvPc
               \/ /\ recvPc # "entries"
                  /\ recvPc' \in {"show", "ask friends", "ask groups", "recv", "groups"}
         \/ ReceiveFriends \/ UnpackEntry \/ ShowFriends
         \/ ListsReset /\ recvPc' = "recv" /\ inHand' = Nothing
  <1> DEFINE Kept == UNCHANGED <<userdata, friendListSize>>
  <1>1. \/ Kept \/ ReceiveFriends \/ UnpackEntry \/ ShowFriends
        \/ ListsReset /\ recvPc' = "recv" /\ inHand' = Nothing
    BY ListFrame DEF listVars, lists, ReceiveAdded, ReceiveGroups, ShowGroups, ReceiveJoined,
      UpdateFriendlist, UpdateGrouplist, GroupList, MovetoFriend, LeaveFriend, FocusinFriend,
      MovetoGroup, LeaveGroup, FocusinGroup, ClickTab
  <1>2. CASE Kept
    <2>1. CASE UNCHANGED <<recvPc, inHand>>
      BY <1>2, <2>1
    <2>2. CASE ReceiveGroups \/ ShowGroups
      <3>1. recvPc # "entries" /\ recvPc' \in {"recv", "groups"} /\ inHand' = inHand
        BY <2>2 DEF ReceiveGroups, ShowGroups, Receive, Busy
      <3> QED BY <1>2, <3>1
    <2>3. CASE /\ recvPc # "entries" /\ recvPc' \in {"show", "ask friends", "ask groups", "recv"}
               /\ UNCHANGED <<inHand, listVars>>
      BY <1>2, <2>3
    <2> QED BY <2>1, <2>2, <2>3, RecvFrame
  <1> QED BY <1>1, <1>2

\* An entry of a list that is unpacked is the contact that has its place.
LEMMA FriendDataStep ==
  ASSUME AskedInv, TablesInv, SentInv, FriendDataInv, [Next]_vars
  PROVE  FriendDataInv'
  <1> DEFINE Entry == [name : Friends \union {NoUser}, status : {0, 1}]
             Size == Cardinality(Friends)
  <1>1. /\ contacts \in Seq(Friends) /\ Len(contacts) \in Nat /\ Len(contacts') \in Nat
        /\ Len(contacts) <= Len(contacts') /\ Len(contacts) <= Size /\ Size \in Nat
        /\ \A i \in 1..Len(contacts) : contacts'[i] = contacts[i] /\ contacts[i] \in Friends
        /\ NoUser \notin Friends
    BY ContactsFacts
  <1>2. /\ userdata \in [1..Size -> Entry]
        /\ \A i \in 1..Size : userdata[i].name # NoUser =>
             i <= Len(contacts) /\ userdata[i].name = contacts[i]
        /\ friendListSize \in 0..Len(contacts)
    BY DEF FriendDataInv
  <1>a. \A i \in 1..friendListSize : i \in 1..Len(contacts)
    BY <1>1, <1>2
  <1>3. \A list : FriendListing(list) =>
          /\ list \in Seq([name : Friends, status : {0, 1}]) /\ Len(list) \in Nat
          /\ Len(list) <= Len(contacts) /\ Len(list) <= Len(contacts')
          /\ \A i \in 1..Len(list) : /\ list[i].name = contacts[i] /\ list[i].name = contacts'[i]
                                      /\ list[i] \in [name : Friends, status : {0, 1}]
    <2> SUFFICES ASSUME NEW list, FriendListing(list)
                 PROVE  /\ list \in Seq([name : Friends, status : {0, 1}]) /\ Len(list) \in Nat
                        /\ Len(list) <= Len(contacts) /\ Len(list) <= Len(contacts')
                        /\ \A i \in 1..Len(list) : /\ list[i].name = contacts[i]
                                                    /\ list[i].name = contacts'[i]
                                                    /\ list[i] \in [name : Friends, status : {0, 1}]
      OBVIOUS
    <2>1. Len(list) \in Nat /\ list \in Seq([name : Friends, status : {0, 1}])
          /\ Len(list) <= Len(contacts)
      BY LenProperties DEF FriendListing
    <2>2. ASSUME NEW i \in 1..Len(list)
          PROVE  /\ list[i].name = contacts[i] /\ list[i].name = contacts'[i]
                 /\ list[i] \in [name : Friends, status : {0, 1}]
      <3>1. i \in 1..Len(contacts)
        BY <1>1, <2>1
      <3>2. list[i] \in [name : Friends, status : {0, 1}]
        BY <2>1, ElementOfSeq
      <3>3. list[i].name = contacts[i]
        BY DEF FriendListing
      <3> QED BY <1>1, <3>1, <3>2, <3>3
    <2> QED BY <1>1, <2>1, <2>2
  <1>4. ASSUME UNCHANGED <<userdata, friendListSize>>
        PROVE  /\ userdata' \in [1..Size -> Entry]
               /\ \A i \in 1..Size : userdata'[i].name # NoUser =>
                    i <= Len(contacts') /\ userdata'[i].name = contacts'[i]
               /\ friendListSize' \in 0..Len(contacts')
    BY <1>1, <1>2, <1>4
  <1>5. CASE UNCHANGED <<userdata, friendListSize, inHand, recvPc>>
    <2>1. recvPc # "entries" => \A i \in 1..friendListSize : userdata[i].name = contacts'[i]
      BY <1>1, <1>2, <1>a DEF FriendDataInv
    <2>2. recvPc = "entries" =>
            /\ FriendListing(inHand.list) /\ friendListSize = Len(inHand.list)
            /\ inHand.next \in 1..(friendListSize + 1)
            /\ \A i \in 1..(inHand.next - 1) : userdata[i].name = contacts'[i]
      BY <1>1, <1>2 DEF FriendDataInv
    <2>3. recvPc = "entries" => FriendListing(inHand.list)'
      BY <1>3, <1>5, <2>2 DEF FriendListing
    <2> QED BY <1>4, <1>5, <2>1, <2>2, <2>3 DEF FriendDataInv
  <1>6. CASE /\ UNCHANGED <<userdata, friendListSize, inHand>>
             /\ recvPc # "entries"
             /\ recvPc' \in {"show", "ask friends", "ask groups", "recv", "groups"}
    <2>1. \A i \in 1..friendListSize : userdata[i].name = contacts'[i]
      BY <1>1, <1>2, <1>6, <1>a DEF FriendDataInv
    <2> QED BY <1>4, <1>6, <2>1 DEF FriendDataInv
  <1>7. CASE ReceiveFriends
    <2> DEFINE list == Head(inbox).about
    <2>1. /\ inbox # <<>> /\ Head(inbox).type = "friends"
          /\ friendListSize' = Len(list) /\ userdata' = userdata
          /\ recvPc' = "entries" /\ inHand' = [list |-> list, next |-> 1]
      BY <1>7 DEF ReceiveFriends, Receive, FriendListSize
    <2>2. FriendListing(list)
      BY <2>1, SeqTail DEF SentInv, WellFormed
    <2> HIDE DEF list
    <2>a. Len(list) \in Nat /\ Len(list) <= Len(contacts) /\ inHand'.list = list
      BY <2>1, <2>2, LenProperties DEF FriendListing
    <2>3. FriendListing(inHand.list)' /\ friendListSize' \in 0..Len(contacts')
      <3>1. \A i \in 1..Len(list) : list[i].name = contacts'[i]
        BY <1>1, <2>2, <2>a DEF FriendListing
      <3>2. Len(list) <= Len(contacts')
        BY <1>1, <2>a
      <3>3. FriendListing(inHand.list)'
        BY <2>2, <2>a, <3>1, <3>2 DEF FriendListing
      <3> QED BY <1>1, <2>1, <2>a, <3>2, <3>3
    <2>4. inHand'.next \in 1..(friendListSize' + 1) /\ inHand'.next = 1
          /\ friendListSize' = Len(inHand'.list)
          /\ inHand' = [list |-> inHand'.list, next |-> inHand'.next]
      BY <1>3, <2>1, <2>2
    <2>5. \A i \in 1..Size : userdata'[i].name # NoUser =>
             i <= Len(contacts') /\ userdata'[i].name = contacts'[i]
      BY <1>1, <1>2, <2>1
    <2>6. \A i \in 1..(inHand'.next - 1) : userdata'[i].name = contacts'[i]
      BY <2>4
    <2> QED BY <1>2, <2>1, <2>3, <2>4, <2>5, <2>6 DEF FriendDataInv
  <1>8. CASE UnpackEntry
    <2> DEFINE list == inHand.list
               k == inHand.next
    <2>1. /\ recvPc = "entries" /\ recvPc' = "entries" /\ friendListSize' = friendListSize
          /\ k <= Len(list) /\ userdata' = [userdata EXCEPT ![k] = list[k]]
          /\ inHand' = [inHand EXCEPT !.next = k + 1]
      BY <1>8 DEF UnpackEntry, Busy, FriendEntry
    <2>2. /\ FriendListing(list) /\ friendListSize = Len(list) /\ k \in 1..(friendListSize + 1)
          /\ \A i \in 1..(k - 1) : userdata[i].name = contacts[i]
          /\ inHand = [list |-> list, next |-> k]
      BY <2>1 DEF FriendDataInv
    <2>3. inHand' = [list |-> list, next |-> k + 1]
      BY <2>1, <2>2
    <2> HIDE DEF list, k
    <2>4. k \in 1..Len(list) /\ k \in 1..Len(contacts) /\ k \in 1..Size
      BY <1>1, <1>3, <2>1, <2>2
    <2>5. list[k] \in [name : Friends, status : {0, 1}] /\ list[k].name = contacts'[k]
      BY <1>3, <2>2, <2>4
    <2>6. /\ userdata' \in [1..Size -> Entry] /\ userdata'[k].name = contacts'[k]
          /\ \A i \in 1..Size : i # k => userdata'[i] = userdata[i]
      BY <1>2, <2>1, <2>4, <2>5
    <2>7. \A i \in 1..Size : userdata'[i].name # NoUser =>
             i <= Len(contacts') /\ userdata'[i].name = contacts'[i]
      BY <1>1, <1>2, <2>4, <2>6
    <2>8. \A i \in 1..k : userdata'[i].name = contacts'[i]
      <3> SUFFICES ASSUME NEW i \in 1..k, i # k PROVE userdata'[i].name = contacts'[i]
        BY <2>6
      <3>1. i \in 1..(k - 1) /\ i \in 1..Size /\ i \in 1..Len(contacts)
        BY <1>1, <2>4
      <3> QED BY <1>1, <2>2, <2>6, <3>1
    <2>9. FriendListing(inHand.list)'
      BY <1>3, <2>2, <2>3 DEF FriendListing
    <2>10. inHand'.next \in 1..(friendListSize' + 1) /\ inHand'.next - 1 = k
          /\ friendListSize' = Len(inHand'.list) /\ friendListSize' \in 0..Len(contacts')
          /\ inHand' = [list |-> inHand'.list, next |-> inHand'.next]
      BY <1>1, <1>2, <2>1, <2>2, <2>3, <2>4
    <2> QED BY <2>1, <2>6, <2>7, <2>8, <2>9, <2>10 DEF FriendDataInv
  <1>9. CASE ShowFriends
    <2>1. /\ recvPc = "entries" /\ inHand.next > Len(inHand.list)
          /\ recvPc' = "recv" /\ inHand' = Nothing /\ UNCHANGED <<userdata, friendListSize>>
      BY <1>9 DEF ShowFriends, Busy, UpdateFriendlist, lists
    <2>2. inHand.next - 1 = friendListSize
      BY <1>2, <2>1 DEF FriendDataInv
    <2>3. \A i \in 1..friendListSize : userdata[i].name = contacts[i]
      BY <2>1, <2>2 DEF FriendDataInv
    <2>4. \A i \in 1..friendListSize : userdata'[i].name = contacts'[i]
      BY <1>1, <1>2, <2>1, <2>3
    <2> QED BY <1>4, <2>1, <2>4 DEF FriendDataInv, Nothing
  <1>10. CASE ListsReset /\ recvPc' = "recv" /\ inHand' = Nothing
    <2>1. userdata' = [i \in 1..Size |-> [name |-> NoUser, status |-> 0]] /\ friendListSize' = 0
      BY <1>10 DEF ListsReset
    <2>2. userdata' \in [1..Size -> Entry] /\ \A i \in 1..Size : userdata'[i].name = NoUser
      BY <2>1
    <2>3. /\ friendListSize' \in 0..Len(contacts')
          /\ \A i \in 1..friendListSize' : userdata'[i].name = contacts'[i]
      BY <1>1, <2>1
    <2> QED BY <1>10, <2>2, <2>3 DEF FriendDataInv, Nothing
  <1> QED BY <1>5, <1>6, <1>7, <1>8, <1>9, <1>10, FriendDataFrame

\* The list of groups is the beginning of the groups the user is in.
LEMMA GroupDataStep ==
  ASSUME AskedInv, TablesInv, SentInv, GroupDataInv, [Next]_vars
  PROVE  GroupDataInv'
  <1>1. TablesInv' /\ Longer(joined', joined)
    BY TablesStep
  <1>2. /\ Len(joined) \in Nat /\ Len(joined') \in Nat /\ Len(joined) <= Len(joined')
        /\ \A i \in 1..Len(joined) : joined'[i] = joined[i] /\ joined[i] \in Groups
        /\ Len(joined) <= Cardinality(Groups) /\ Cardinality(Groups) \in Nat
    <2>1. Len(joined) <= Cardinality(Groups)
      BY NoLonger, GroupsAssumption DEF TablesInv
    <2> QED BY <1>1, <2>1, LenProperties, GroupNumbers DEF TablesInv, Longer
  <1>3. CASE UNCHANGED <<groupdata, groupListSize>>
    BY <1>2, <1>3 DEF GroupDataInv
  <1>4. CASE ReceiveGroups
    <2> DEFINE list == Head(inbox).about
    <2>1. /\ inbox # <<>> /\ Head(inbox).type = "groups" /\ groupListSize' = Len(list)
          /\ groupdata' = [i \in DOMAIN groupdata |-> IF i <= Len(list) THEN list[i] ELSE groupdata[i]]
      BY <1>4 DEF ReceiveGroups, Receive, GroupList
    <2>2. GroupListing(list)
      BY <2>1, SeqTail DEF SentInv, WellFormed
    <2> HIDE DEF list
    <2>3. /\ Len(list) \in Nat /\ Len(list) <= Len(joined)
          /\ \A i \in 1..Len(list) : list[i] = joined[i] /\ list[i] \in Groups
      BY <2>2, LenProperties DEF GroupListing
    <2>4. groupdata' \in [1..Cardinality(Groups) -> Groups \union {0}]
      BY <1>2, <2>1, <2>3 DEF GroupDataInv
    <2>5. \A i \in 1..Len(list) : groupdata'[i] = joined'[i]
      BY <1>2, <2>1, <2>3 DEF GroupDataInv
    <2> QED BY <1>2, <2>1, <2>3, <2>4, <2>5 DEF GroupDataInv
  <1>5. CASE ListsReset
    <2>1. groupdata' = [i \in 1..Cardinality(Groups) |-> 0] /\ groupListSize' = 0
      BY <1>5 DEF ListsReset
    <2> QED BY <1>2, <2>1 DEF GroupDataInv
  <1>6. \/ UNCHANGED <<groupdata, groupListSize>> \/ ReceiveGroups \/ ListsReset
    BY ListFrame DEF listVars, lists, ReceiveFriends, UnpackEntry, ShowFriends, ReceiveAdded,
      ShowGroups, ReceiveJoined, FriendListSize, FriendEntry, UpdateFriendlist, UpdateGrouplist,
      MovetoFriend, LeaveFriend, FocusinFriend, MovetoGroup, LeaveGroup, FocusinGroup, ClickTab
  <1> QED BY <1>3, <1>4, <1>5, <1>6

-----------------------------------------------------------------------------
(* What a list looks like when it is sorted. *)

\* The last of one, and of none.
LEMMA LastOfOne ==
  ASSUME NEW x \in Nat, NEW otherwise
  PROVE  LastOf({x}, otherwise) = x /\ LastOf({}, otherwise) = otherwise
  <1>1. \E k \in {x} : \A j \in {x} : j <= k
    OBVIOUS
  <1>2. (CHOOSE k \in {x} : \A j \in {x} : j <= k) \in {x}
    BY <1>1
  <1> QED BY <1>2 DEF LastOf

\* Each friend that was received has a row of his own: no two have the same
\* place in the order of the rows.
LEMMA FriendsSorted ==
  ASSUME TablesInv, FriendDataInv, \A i \in 1..friendListSize : userdata[i].name = contacts[i]
  PROVE  /\ SortedFriends \in [1..friendListSize -> 1..friendListSize]
         /\ \A j, k \in 1..friendListSize : SortedFriends[j] = SortedFriends[k] => j = k
         /\ \A p \in 1..friendListSize : \E k \in 1..friendListSize : SortedFriends[k] = p
  <1> DEFINE n == friendListSize
             before == [p \in 1..n |-> {q \in 1..n : FriendBefore(q, p)}]
             rank(p) == Cardinality({q \in 1..n : FriendBefore(q, p)})
             status(p) == userdata[p].status
             place(p) == NameRank[userdata[p].name]
  <1>1. n \in Nat /\ \A p \in 1..n : p \in 1..Len(contacts) /\ p \in 1..Cardinality(Friends)
    <2>1. Len(contacts) \in Nat /\ Len(contacts) <= Cardinality(Friends)
      BY LenProperties, NoLonger, FriendsAssumption DEF TablesInv
    <2>2. friendListSize \in 0..Len(contacts)
      BY DEF FriendDataInv
    <2> QED BY <2>1, <2>2, GroupNumbers
  <1>2. ASSUME NEW p \in 1..n
        PROVE  status(p) \in {0, 1} /\ place(p) \in Nat /\ userdata[p].name \in Friends
    <2>1. userdata[p] \in [name : Friends \union {NoUser}, status : {0, 1}]
      BY <1>1 DEF FriendDataInv
    <2>2. userdata[p].name = contacts[p] /\ contacts[p] \in Friends
      BY <1>1 DEF TablesInv
    <2> QED BY <2>1, <2>2, RankAssumption
  <1>3. ASSUME NEW p \in 1..n, NEW q \in 1..n, p # q PROVE place(p) # place(q)
    <2>1. userdata[p].name # userdata[q].name
      BY <1>1, <1>3 DEF TablesInv
    <2> QED BY <1>2, <2>1, RankAssumption
  <1>4. \A p, q \in 1..n : q \in before[p] <=>
          status(q) > status(p) \/ (status(q) = status(p) /\ place(q) < place(p))
    BY DEF FriendBefore
  <1>5. \A p \in 1..n : rank(p) = Cardinality(before[p])
    OBVIOUS
  <1>6. SortedFriends = [k \in 1..n |-> CHOOSE p \in 1..n : rank(p) = k - 1]
    BY DEF SortedFriends
  <1>7. before \in [1..n -> SUBSET (1..n)]
    OBVIOUS
  <1> HIDE DEF n, before, rank, status, place
  <1>8. \A p \in 1..n : p \notin before[p]
    BY <1>2, <1>4
  <1>9. \A p, q \in 1..n : p # q => p \in before[q] \/ q \in before[p]
    BY <1>2, <1>3, <1>4
  <1>10. \A p, q \in 1..n : p \in before[q] => before[p] \subseteq before[q]
    <2> SUFFICES ASSUME NEW p \in 1..n, NEW q \in 1..n, p \in before[q], NEW r \in before[p]
                 PROVE  r \in before[q]
      OBVIOUS
    <2>1. r \in 1..n
      BY <1>7
    <2> QED BY <1>2, <1>4, <2>1
  <1>11. /\ \A p, q \in 1..n : rank(p) = rank(q) => p = q
         /\ \A p \in 1..n : rank(p) \in 0..(n - 1)
         /\ \A k \in 1..n : \E p \in 1..n : rank(p) = k - 1
    <2>1. Ordered(before, 1..n)
      BY <1>7, <1>8, <1>9, <1>10 DEF Ordered
    <2>2. IsFiniteSet(1..n) /\ Cardinality(1..n) = n
      BY <1>1, FS_Interval
    <2>3. Ranked(before, 1..n, n)
      BY <2>1, <2>2, OnePerRank
    <2> QED BY <1>5, <2>3 DEF Ranked
  <1>12. ASSUME NEW k \in 1..n PROVE SortedFriends[k] \in 1..n /\ rank(SortedFriends[k]) = k - 1
    BY <1>6, <1>11
  <1>13. \A p \in 1..n : rank(p) + 1 \in 1..n /\ SortedFriends[rank(p) + 1] = p
    <2> TAKE p \in 1..n
    <2>1. rank(p) + 1 \in 1..n /\ rank(p) \in Nat
      BY <1>1, <1>11
    <2>2. rank(SortedFriends[rank(p) + 1]) = rank(p)
      BY <1>12, <2>1
    <2> QED BY <1>11, <1>12, <2>1, <2>2
  <1>14. \A j, k \in 1..n : SortedFriends[j] = SortedFriends[k] => j = k
    BY <1>12
  <1>15. SortedFriends \in [1..n -> 1..n]
    BY <1>6, <1>12
  <1> QED BY <1>13, <1>14, <1>15 DEF n

\* The same of the groups.
LEMMA GroupsSorted ==
  ASSUME TablesInv, GroupDataInv
  PROVE  /\ SortedGroups \in [1..groupListSize -> Groups]
         /\ \A j, k \in 1..groupListSize : SortedGroups[j] = SortedGroups[k] => j = k
         /\ \A k \in 1..groupListSize : \E i \in 1..groupListSize : SortedGroups[k] = joined[i]
         /\ \A i \in 1..groupListSize : \E k \in 1..groupListSize : SortedGroups[k] = joined[i]
  <1> DEFINE n == groupListSize
             before == [p \in 1..n |-> {q \in 1..n : groupdata[q] < groupdata[p]}]
             rank(g) == Cardinality({i \in 1..n : groupdata[i] < g})
             all == {groupdata[i] : i \in 1..n}
  <1>1. n \in Nat /\ \A p \in 1..n : p \in 1..Len(joined)
    BY LenProperties DEF GroupDataInv, TablesInv
  <1>2. \A p \in 1..n : groupdata[p] = joined[p] /\ groupdata[p] \in Nat /\ groupdata[p] \in Groups
    BY <1>1, GroupNumbers DEF GroupDataInv, TablesInv
  <1>3. \A p, q \in 1..n : groupdata[p] = groupdata[q] => p = q
    BY <1>1, <1>2 DEF TablesInv
  <1>4. \A p, q \in 1..n : q \in before[p] <=> groupdata[q] < groupdata[p]
    OBVIOUS
  <1>5. \A p \in 1..n : rank(groupdata[p]) = Cardinality(before[p])
    OBVIOUS
  <1>6. SortedGroups = [k \in 1..n |-> CHOOSE g \in all : rank(g) = k - 1]
    BY DEF SortedGroups
  <1>7. before \in [1..n -> SUBSET (1..n)]
    OBVIOUS
  <1>8. \A g : g \in all <=> \E i \in 1..n : g = groupdata[i]
    OBVIOUS
  <1> HIDE DEF n, before, rank, all
  <1>9. \A p \in 1..n : p \notin before[p]
    BY <1>2, <1>4
  <1>10. \A p, q \in 1..n : p # q => p \in before[q] \/ q \in before[p]
    BY <1>2, <1>3, <1>4
  <1>11. \A p, q \in 1..n : p \in before[q] => before[p] \subseteq before[q]
    <2> SUFFICES ASSUME NEW p \in 1..n, NEW q \in 1..n, p \in before[q], NEW r \in before[p]
                 PROVE  r \in before[q]
      OBVIOUS
    <2>1. r \in 1..n
      BY <1>7
    <2> QED BY <1>2, <1>4, <2>1
  <1>12. Ranked(before, 1..n, n)
    <2>1. Ordered(before, 1..n)
      BY <1>7, <1>9, <1>10, <1>11 DEF Ordered
    <2>2. IsFiniteSet(1..n) /\ Cardinality(1..n) = n
      BY <1>1, FS_Interval
    <2> QED BY <2>1, <2>2, OnePerRank
  <1>13. /\ \A g, h \in all : rank(g) = rank(h) => g = h
         /\ \A g \in all : rank(g) \in 0..(n - 1)
         /\ \A k \in 1..n : \E g \in all : rank(g) = k - 1
    BY <1>5, <1>8, <1>12 DEF Ranked
  <1>14. ASSUME NEW k \in 1..n PROVE SortedGroups[k] \in all /\ rank(SortedGroups[k]) = k - 1
    BY <1>6, <1>13
  <1>15. \A g \in all : rank(g) + 1 \in 1..n /\ SortedGroups[rank(g) + 1] = g
    <2> TAKE g \in all
    <2>1. rank(g) + 1 \in 1..n /\ rank(g) \in Nat
      BY <1>1, <1>13
    <2>2. rank(SortedGroups[rank(g) + 1]) = rank(g)
      BY <1>14, <2>1
    <2> QED BY <1>13, <1>14, <2>1, <2>2
  <1>16. \A j, k \in 1..n : SortedGroups[j] = SortedGroups[k] => j = k
    BY <1>14
  <1>17. all \subseteq Groups /\ \A g : g \in all <=> \E i \in 1..n : g = joined[i]
    BY <1>2, <1>8
  <1>18. SortedGroups \in [1..n -> Groups]
    BY <1>6, <1>14, <1>17
  <1>19. \A i \in 1..n : \E k \in 1..n : SortedGroups[k] = joined[i]
    BY <1>15, <1>17
  <1>20. \A k \in 1..n : \E i \in 1..n : SortedGroups[k] = joined[i]
    BY <1>14, <1>17
  <1> QED BY <1>16, <1>18, <1>19, <1>20 DEF n

-----------------------------------------------------------------------------
(* The rows. *)

\* A list is received only if it is as long as the one before.
LEMMA SizesGrow ==
  ASSUME SentInv, GrowingInv, FriendDataInv, GroupDataInv, [Next]_vars
  PROVE  \/ friendListSize <= friendListSize' /\ groupListSize <= groupListSize'
         \/ ListsReset
  <1>a. friendListSize \in 0..Len(contacts) /\ groupListSize \in 0..Len(joined)
    BY DEF FriendDataInv, GroupDataInv
  <1>1. CASE ReceiveFriends \/ ReceiveGroups
    <2>1. /\ inbox # <<>>
          /\ \/ /\ Head(inbox).type = "friends" /\ friendListSize' = Len(Head(inbox).about)
                /\ groupListSize' = groupListSize
             \/ /\ Head(inbox).type = "groups" /\ groupListSize' = Len(Head(inbox).about)
                /\ friendListSize' = friendListSize
      BY <1>1 DEF ReceiveFriends, ReceiveGroups, Receive, FriendListSize, GroupList
    <2>2. Head(inbox) \in ToSet(inbox)
      BY <2>1, SeqTail DEF SentInv
    <2>3. /\ Head(inbox).type = "friends" => friendListSize <= Len(Head(inbox).about)
          /\ Head(inbox).type = "groups" => groupListSize <= Len(Head(inbox).about)
      BY <2>2 DEF GrowingInv, InOrder, AtLeast
    <2>4. friendListSize <= friendListSize /\ groupListSize <= groupListSize
      BY <1>a
    <2> QED BY <2>1, <2>3, <2>4
  <1>2. CASE UNCHANGED <<friendListSize, groupListSize>>
    BY <1>2, <1>a
  <1>3. UNCHANGED <<friendListSize, groupListSize>> \/ ListsReset \/ ReceiveFriends \/ ReceiveGroups
    BY ListFrame DEF listVars, lists, UnpackEntry, ShowFriends, ReceiveAdded,
      ShowGroups, ReceiveJoined, FriendEntry, UpdateFriendlist, UpdateGrouplist,
      MovetoFriend, LeaveFriend, FocusinFriend, MovetoGroup, LeaveGroup, FocusinGroup, ClickTab
  <1> QED BY <1>1, <1>2, <1>3

\* An entry that has a name keeps one.
LEMMA NamesStay ==
  ASSUME TablesInv, FriendDataInv, [Next]_vars
  PROVE  \/ \A i \in 1..Cardinality(Friends) :
              userdata[i].name # NoUser => userdata'[i].name # NoUser
         \/ ListsReset
  <1>1. CASE UnpackEntry
    <2>1. /\ recvPc = "entries" /\ inHand.next <= Len(inHand.list)
          /\ userdata' = [userdata EXCEPT ![inHand.next] = inHand.list[inHand.next]]
      BY <1>1 DEF UnpackEntry, Busy, FriendEntry
    <2>2. FriendListing(inHand.list) /\ inHand.next \in 1..(Len(inHand.list) + 1)
      BY <2>1 DEF FriendDataInv
    <2>3. inHand.next \in 1..Len(inHand.list) /\ inHand.list \in Seq([name : Friends, status : {0, 1}])
      BY <2>1, <2>2, LenProperties DEF FriendListing
    <2>4. inHand.list[inHand.next] \in [name : Friends, status : {0, 1}]
      BY <2>3, ElementOfSeq
    <2>5. inHand.list[inHand.next].name # NoUser
      BY <2>4, NoUserAssumption
    <2> QED BY <2>1, <2>5 DEF FriendDataInv
  <1>2. CASE UNCHANGED userdata
    BY <1>2
  <1>3. UNCHANGED userdata \/ ListsReset \/ UnpackEntry
    BY ListFrame DEF listVars, lists, ReceiveFriends, ReceiveGroups, ShowFriends, ReceiveAdded,
      ShowGroups, ReceiveJoined, FriendListSize, GroupList, UpdateFriendlist, UpdateGrouplist,
      MovetoFriend, LeaveFriend, FocusinFriend, MovetoGroup, LeaveGroup, FocusinGroup, ClickTab
  <1> QED BY <1>1, <1>2, <1>3

\* What a step does to the rows of the friend list.
LEMMA FriendRowsFrame ==
  ASSUME FriendDataInv, [Next]_vars
  PROVE  \/ UNCHANGED friendTab
         \/ UpdateFriendlist /\ \A i \in 1..friendListSize : userdata[i].name = contacts[i]
         \/ \E k \in DOMAIN friendRows : MovetoFriend(k) \/ LeaveFriend(k) \/ FocusinFriend(k)
         \/ ListsReset
  <1>1. CASE ShowFriends
    <2>1. recvPc = "entries" /\ inHand.next > Len(inHand.list) /\ UpdateFriendlist
      BY <1>1 DEF ShowFriends, Busy
    <2>2. /\ friendListSize = Len(inHand.list) /\ inHand.next \in 1..(friendListSize + 1)
          /\ \A i \in 1..(inHand.next - 1) : userdata[i].name = contacts[i]
          /\ friendListSize \in 0..Len(contacts)
      BY <2>1 DEF FriendDataInv
    <2>3. inHand.next - 1 = friendListSize
      BY <2>1, <2>2
    <2> QED BY <2>1, <2>2, <2>3
  <1>2. CASE ReceiveAdded
    <2>1. recvPc = "recv" /\ UpdateFriendlist
      BY <1>2 DEF ReceiveAdded, Receive
    <2> QED BY <2>1 DEF FriendDataInv
  <1> QED BY <1>1, <1>2, ListFrame DEF listVars, ReceiveFriends, UnpackEntry, ReceiveGroups,
      ShowGroups, ReceiveJoined, FriendListSize, FriendEntry, GroupList, UpdateGrouplist,
      MovetoGroup, LeaveGroup, FocusinGroup, ClickTab

\* Rows, highlight and focus with nothing done to them.
LEMMA FriendRowsKept ==
  ASSUME AskedInv, TablesInv, SentInv, GrowingInv, FriendDataInv, GroupDataInv, FriendRowsInv,
         [Next]_vars, ~ListsReset
  PROVE  /\ friendListSize \in Nat /\ friendListSize' \in Nat /\ friendListSize <= friendListSize'
         /\ \A p \in 1..friendListSize : p \in 1..friendListSize' /\ contacts'[p] = contacts[p]
         /\ \A p \in 1..friendListSize : userdata[p].name # NoUser => userdata'[p].name # NoUser
  <1>1. /\ Len(contacts) \in Nat /\ Len(contacts) <= Cardinality(Friends)
        /\ Cardinality(Friends) \in Nat
        /\ \A i \in 1..Len(contacts) : contacts'[i] = contacts[i]
    BY ContactsFacts
  <1>2. friendListSize \in 0..Len(contacts)
    BY DEF FriendDataInv
  <1>3. friendListSize' \in 0..Len(contacts') /\ Len(contacts') \in Nat
    BY FriendDataStep, ContactsFacts DEF FriendDataInv
  <1>4. friendListSize <= friendListSize'
    BY SizesGrow
  <1>5. \A p \in 1..friendListSize : /\ p \in 1..friendListSize' /\ p \in 1..Len(contacts)
                                     /\ p \in 1..Cardinality(Friends)
    BY <1>1, <1>2, <1>3, <1>4
  <1> QED BY <1>1, <1>2, <1>3, <1>4, <1>5, NamesStay

\* A row shows the contact its pointer leads to, and one row is highlighted, that
\* of the friend clicked last.
LEMMA FriendRowsStep ==
  ASSUME AskedInv, TablesInv, SentInv, GrowingInv, FriendDataInv, GroupDataInv, FriendRowsInv,
         [Next]_vars
  PROVE  FriendRowsInv'
  <1>1. PICK n \in 0..friendListSize : friendRows \in [1..n -> FriendRowUpTo(friendListSize)]
    BY DEF FriendRowsInv
  <1>2. \A k \in 1..n :
          /\ friendRows[k] \in FriendRowUpTo(friendListSize)
          /\ friendRows[k].ptr \in 1..friendListSize
          /\ friendRows[k].label = contacts[friendRows[k].ptr]
          /\ userdata[friendRows[k].ptr].name # NoUser
          /\ friendRows[k].colour = "choose" <=> k = lastfocusFriend /\ focusUser # NoUser
    BY <1>1 DEF FriendRowsInv, FriendRowUpTo
  <1>3. /\ lastfocusFriend \in 0..friendListSize /\ focusUser \in Friends \union {NoUser}
        /\ focusUser # NoUser => /\ lastfocusFriend \in 1..n
                                /\ friendRows[lastfocusFriend].label = focusUser
    BY <1>1 DEF FriendRowsInv
  <1>4. CASE ListsReset
    <2>1. friendRows' = <<>> /\ lastfocusFriend' = 0 /\ focusUser' = NoUser /\ friendListSize' = 0
      BY <1>4 DEF ListsReset
    <2>2. friendRows' \in [1..0 -> FriendRowUpTo(friendListSize)'] /\ DOMAIN friendRows' = {}
      BY <2>1
    <2> QED BY <2>1, <2>2 DEF FriendRowsInv
  <1>5. ASSUME ~ListsReset
        PROVE  /\ friendListSize \in Nat /\ friendListSize' \in Nat /\ friendListSize <= friendListSize'
               /\ \A p \in 1..friendListSize : p \in 1..friendListSize' /\ contacts'[p] = contacts[p]
               /\ \A p \in 1..friendListSize : userdata[p].name # NoUser => userdata'[p].name # NoUser
    BY <1>5, FriendRowsKept
  \* New colours for the same rows.
  <1>6. ASSUME ~ListsReset, DOMAIN friendRows' = 1..n,
               friendRows' = [k \in 1..n |-> friendRows'[k]],
               lastfocusFriend' \in 0..friendListSize, focusUser' \in Friends \union {NoUser},
               focusUser' # NoUser => /\ lastfocusFriend' \in 1..n
                                      /\ friendRows[lastfocusFriend'].label = focusUser',
               \A k \in 1..n :
                 /\ \E c \in Colours : friendRows'[k] = [friendRows[k] EXCEPT !.colour = c]
                 /\ friendRows'[k].colour = "choose" <=> k = lastfocusFriend' /\ focusUser' # NoUser
        PROVE  FriendRowsInv'
    <2>1. /\ friendListSize \in Nat /\ friendListSize' \in Nat /\ friendListSize <= friendListSize'
          /\ \A p \in 1..friendListSize : p \in 1..friendListSize' /\ contacts'[p] = contacts[p]
          /\ \A p \in 1..friendListSize : userdata[p].name # NoUser => userdata'[p].name # NoUser
      BY <1>5, <1>6
    <2>2. ASSUME NEW k \in 1..n
          PROVE  /\ friendRows'[k] \in FriendRowUpTo(friendListSize')
                 /\ friendRows'[k].label = friendRows[k].label
                 /\ friendRows'[k].label = contacts'[friendRows'[k].ptr]
                 /\ userdata'[friendRows'[k].ptr].name # NoUser
      <3>1. PICK c \in Colours : friendRows'[k] = [friendRows[k] EXCEPT !.colour = c]
        BY <1>6
      <3>2. friendRows[k] \in [ptr : 1..friendListSize, status : {0, 1}, label : Friends, colour : Colours]
        BY <1>2 DEF FriendRowUpTo
      <3>3. /\ friendRows'[k] = [ptr |-> friendRows[k].ptr, status |-> friendRows[k].status,
                                 label |-> friendRows[k].label, colour |-> c]
            /\ friendRows[k].ptr \in 1..friendListSize /\ friendRows[k].status \in {0, 1}
            /\ friendRows[k].label \in Friends
        BY <3>1, <3>2
      <3>4. /\ friendRows'[k].ptr = friendRows[k].ptr /\ friendRows'[k].label = friendRows[k].label
            /\ friendRows[k].ptr \in 1..friendListSize'
        BY <2>1, <3>3
      <3>5. friendRows'[k] \in FriendRowUpTo(friendListSize')
        BY <3>3, <3>4 DEF FriendRowUpTo
      <3> QED BY <1>2, <2>1, <3>3, <3>4, <3>5
    <2>3. friendRows' \in [1..n -> FriendRowUpTo(friendListSize')] /\ n \in 0..friendListSize'
      BY <1>6, <2>1, <2>2
    <2>4. lastfocusFriend' \in 0..friendListSize'
      BY <1>6, <2>1
    <2>5. focusUser' # NoUser => /\ lastfocusFriend' \in DOMAIN friendRows'
                                 /\ friendRows'[lastfocusFriend'].label = focusUser'
      BY <1>6, <2>2
    <2>6. \A k \in DOMAIN friendRows' :
            /\ friendRows'[k].label = contacts'[friendRows'[k].ptr]
            /\ userdata'[friendRows'[k].ptr].name # NoUser
            /\ friendRows'[k].colour = "choose" <=> k = lastfocusFriend' /\ focusUser' # NoUser
      BY <1>6, <2>2
    <2>7. FriendRowUpTo(friendListSize)' = FriendRowUpTo(friendListSize')
      BY DEF FriendRowUpTo
    <2> QED BY <1>6, <2>3, <2>4, <2>5, <2>6, <2>7 DEF FriendRowsInv
  <1>7. ASSUME NEW k \in 1..n PROVE friendRows[k] = [friendRows[k] EXCEPT !.colour = friendRows[k].colour]
                                     /\ friendRows[k].colour \in Colours
    BY <1>2 DEF FriendRowUpTo
  <1>8. CASE UNCHANGED friendTab /\ ~ListsReset
    <2>1. /\ friendRows' = friendRows /\ lastfocusFriend' = lastfocusFriend /\ focusUser' = focusUser
      BY <1>8 DEF friendTab
    <2> QED BY <1>1, <1>2, <1>3, <1>6, <1>7, <1>8, <2>1
  <1>9. ASSUME ~ListsReset, NEW k \in DOMAIN friendRows, MovetoFriend(k) \/ LeaveFriend(k)
        PROVE  FriendRowsInv'
    <2>1. /\ k # lastfocusFriend /\ UNCHANGED <<lastfocusFriend, focusUser>>
          /\ \E c \in Colours \ {"choose"} : friendRows' = [friendRows EXCEPT ![k].colour = c]
      BY <1>9 DEF MovetoFriend, LeaveFriend, StatusColour, Colours
    <2>2. PICK c \in Colours \ {"choose"} : friendRows' = [friendRows EXCEPT ![k].colour = c]
      BY <2>1
    <2>3. /\ k \in 1..n /\ DOMAIN friendRows' = 1..n
          /\ friendRows' = [j \in 1..n |-> friendRows'[j]]
          /\ friendRows'[k] = [friendRows[k] EXCEPT !.colour = c] /\ friendRows'[k].colour = c
          /\ \A j \in 1..n : j # k => friendRows'[j] = friendRows[j]
      BY <1>1, <1>2, <2>2 DEF FriendRowUpTo
    <2> QED BY <1>2, <1>3, <1>6, <1>7, <1>9, <2>1, <2>2, <2>3
  <1>10. ASSUME ~ListsReset, NEW k \in DOMAIN friendRows, FocusinFriend(k)
         PROVE  FriendRowsInv'
    <2>1. /\ lastfocusFriend' = k /\ focusUser' = userdata[friendRows[k].ptr].name
          /\ friendRows' = [j \in DOMAIN friendRows |->
                IF j = k THEN [friendRows[j] EXCEPT !.colour = "choose"]
                ELSE IF j = lastfocusFriend
                     THEN [friendRows[j] EXCEPT !.colour = StatusColour(friendRows[j].status)]
                     ELSE friendRows[j]]
      BY <1>10 DEF FocusinFriend
    <2>2. k \in 1..n /\ k \in 0..friendListSize
      BY <1>1, <1>5, <1>10
    <2>3. focusUser' = friendRows[k].label /\ friendRows[k].label \in Friends
          /\ focusUser' # NoUser
      <3>1. friendRows[k].ptr \in 1..Cardinality(Friends)
        <4>1. friendListSize \in 0..Len(contacts) /\ Len(contacts) <= Cardinality(Friends)
              /\ Len(contacts) \in Nat /\ Cardinality(Friends) \in Nat
          BY ContactsFacts DEF FriendDataInv
        <4> QED BY <1>2, <2>2, <4>1
      <3>2. userdata[friendRows[k].ptr].name = contacts[friendRows[k].ptr]
        BY <1>2, <2>2, <3>1 DEF FriendDataInv
      <3>3. friendRows[k].label \in Friends
        BY <1>2, <2>2 DEF FriendRowUpTo
      <3> QED BY <1>2, <2>1, <2>2, <3>2, <3>3
    <2>4. \A j \in 1..n : StatusColour(friendRows[j].status) \in Colours \ {"choose"}
      BY DEF StatusColour, Colours
    <2>5. ASSUME NEW j \in 1..n
          PROVE  /\ \E c \in Colours : friendRows'[j] = [friendRows[j] EXCEPT !.colour = c]
                 /\ friendRows'[j].colour = "choose" <=> j = k
      <3>1. friendRows[j] \in [ptr : 1..friendListSize, status : {0, 1}, label : Friends, colour : Colours]
        BY <1>2 DEF FriendRowUpTo
      <3>2. CASE j = k
        BY <1>1, <2>1, <3>1, <3>2 DEF Colours
      <3>3. CASE j # k /\ j = lastfocusFriend
        BY <1>1, <2>1, <2>4, <3>1, <3>3
      <3>4. CASE j # k /\ j # lastfocusFriend
        BY <1>1, <1>2, <1>7, <2>1, <3>4
      <3> QED BY <3>2, <3>3, <3>4
    <2>6. DOMAIN friendRows' = 1..n /\ friendRows' = [j \in 1..n |-> friendRows'[j]]
      BY <1>1, <2>1
    <2> QED BY <1>6, <1>10, <2>1, <2>2, <2>3, <2>5, <2>6
  <1>11. ASSUME ~ListsReset, UpdateFriendlist,
                \A i \in 1..friendListSize : userdata[i].name = contacts[i]
         PROVE  FriendRowsInv'
    <2> DEFINE m == friendListSize
    <2>1. /\ SortedFriends \in [1..m -> 1..m]
          /\ \A j, k \in 1..m : SortedFriends[j] = SortedFriends[k] => j = k
          /\ \A p \in 1..m : \E k \in 1..m : SortedFriends[k] = p
      BY <1>11, FriendsSorted
    <2>2. /\ friendRows' = [k \in 1..m |-> FriendRow(SortedFriends[k])]
          /\ lastfocusFriend' =
                LastOf({k \in 1..m : userdata[SortedFriends[k]].name = focusUser}, lastfocusFriend)
          /\ UNCHANGED <<userdata, friendListSize, focusUser>>
      BY <1>11 DEF UpdateFriendlist, lists
    <2>3. m \in Nat /\ \A p \in 1..m : /\ contacts'[p] = contacts[p] /\ p \in 1..Len(contacts)
                                         /\ p \in 1..Cardinality(Friends)
      <3>1. friendListSize \in 0..Len(contacts) /\ Len(contacts) <= Cardinality(Friends)
            /\ Len(contacts) \in Nat /\ Cardinality(Friends) \in Nat
        BY ContactsFacts DEF FriendDataInv
      <3> QED BY <1>5, <1>11, <3>1
    <2>4. \A p \in 1..m : userdata[p].name = contacts[p] /\ contacts[p] \in Friends
                          /\ userdata[p].status \in {0, 1}
      <3> TAKE p \in 1..m
      <3>1. userdata[p].name = contacts[p]
        BY <1>11
      <3>2. contacts[p] \in Friends
        BY <2>3 DEF TablesInv
      <3>3. userdata[p] \in [name : Friends \union {NoUser}, status : {0, 1}]
        BY <2>3 DEF FriendDataInv
      <3> QED BY <3>1, <3>2, <3>3
    <2>5. \A p, q \in 1..m : contacts[p] = contacts[q] => p = q
      BY <2>3 DEF TablesInv
    <2>6. \A k \in 1..m : friendRows'[k] = FriendRow(SortedFriends[k]) /\ SortedFriends[k] \in 1..m
      BY <2>1, <2>2
    <2>7. ASSUME NEW p \in 1..m
          PROVE  /\ FriendRow(p) \in FriendRowUpTo(m) /\ FriendRow(p).ptr = p
                 /\ FriendRow(p).label = contacts[p]
                 /\ FriendRow(p).colour = "choose" <=> contacts[p] = focusUser
      <3>1. userdata[p].name \in Friends /\ userdata[p].status \in {0, 1}
        BY <2>4
      <3>2. StatusColour(userdata[p].status) \in Colours \ {"choose"} /\ "choose" \in Colours
        BY DEF StatusColour, Colours
      <3> QED BY <2>4, <3>1, <3>2 DEF FriendRow, FriendRowUpTo
    <2>8. friendRows' \in [1..m -> FriendRowUpTo(m)] /\ DOMAIN friendRows' = 1..m
      BY <2>2, <2>6, <2>7
    <2>a. /\ FriendRowUpTo(friendListSize)' = FriendRowUpTo(m) /\ m \in 0..friendListSize'
          /\ friendListSize' = m
      BY <2>2, <2>3 DEF FriendRowUpTo
    <2>b. \A k \in 1..m : /\ friendRows'[k].label = contacts'[friendRows'[k].ptr]
                          /\ userdata'[friendRows'[k].ptr].name # NoUser
      <3> TAKE k \in 1..m
      <3>1. PICK q \in 1..m : friendRows'[k] = FriendRow(q)
        BY <2>6
      <3>2. FriendRow(q).ptr = q /\ FriendRow(q).label = contacts[q] /\ contacts'[q] = contacts[q]
        BY <2>3, <2>7
      <3>3. userdata[q].name # NoUser /\ userdata' = userdata
        BY <2>2, <2>4, NoUserAssumption
      <3> QED BY <3>1, <3>2, <3>3
    <2>c. focusUser' \in Friends \union {NoUser} /\ focusUser' = focusUser
      BY <1>3, <2>2
    <2>9. CASE focusUser \in {contacts[p] : p \in 1..m}
      <3>1. PICK p \in 1..m : contacts[p] = focusUser
        BY <2>9
      <3>2. PICK k \in 1..m : SortedFriends[k] = p
        BY <2>1
      <3>3. \A j \in 1..m : contacts[SortedFriends[j]] = focusUser <=> j = k
        <4> TAKE j \in 1..m
        <4>1. SortedFriends[j] \in 1..m
          BY <2>6
        <4>2. contacts[SortedFriends[j]] = focusUser => SortedFriends[j] = p
          BY <2>5, <3>1, <4>1
        <4>3. SortedFriends[j] = p <=> j = k
          BY <2>1, <3>2
        <4> QED BY <3>1, <4>2, <4>3
      <3>4. {j \in 1..m : userdata[SortedFriends[j]].name = focusUser} = {k}
        BY <2>4, <2>6, <3>3
      <3>5. lastfocusFriend' = k
        BY <2>2, <3>4, LastOfOne
      <3>6. focusUser # NoUser
        BY <2>4, <3>1, NoUserAssumption
      <3>7. \A j \in 1..m : friendRows'[j].colour = "choose" <=> j = lastfocusFriend'
        BY <2>6, <2>7, <3>3, <3>5
      <3>8. friendRows'[k].label = focusUser
        BY <2>6, <2>7, <3>1, <3>2
      <3>9. lastfocusFriend' \in 0..friendListSize' /\ lastfocusFriend' \in DOMAIN friendRows'
        BY <2>3, <2>8, <2>a, <3>5
      <3> QED BY <2>8, <2>a, <2>b, <2>c, <3>5, <3>6, <3>7, <3>8, <3>9 DEF FriendRowsInv
    <2>10. CASE focusUser \notin {contacts[p] : p \in 1..m}
      <3>1. \A j \in 1..m : contacts[SortedFriends[j]] # focusUser
        BY <2>6, <2>10
      <3>2. {j \in 1..m : userdata[SortedFriends[j]].name = focusUser} = {}
        BY <2>4, <2>6, <3>1
      <3>3. lastfocusFriend' = lastfocusFriend
        BY <2>2, <3>2, LastOfOne, <2>3
      <3>4. focusUser = NoUser
        BY <1>2, <1>3, <2>10
      <3>5. \A j \in 1..m : friendRows'[j].colour # "choose"
        BY <2>6, <2>7, <3>1
      <3> QED BY <2>8, <2>a, <2>b, <2>c, <3>3, <3>4, <3>5, <1>3 DEF FriendRowsInv
    <2> QED BY <2>9, <2>10
  <1> QED BY <1>4, <1>8, <1>9, <1>10, <1>11, FriendRowsFrame

\* What a step does to the rows of the group list.
LEMMA GroupRowsFrame ==
  ASSUME [Next]_vars
  PROVE  \/ UNCHANGED groupTab
         \/ UpdateGrouplist
         \/ \E k \in DOMAIN groupRows : MovetoGroup(k) \/ LeaveGroup(k) \/ FocusinGroup(k)
         \/ ListsReset
  BY ListFrame DEF listVars, ReceiveFriends, UnpackEntry, ShowFriends, ReceiveAdded, ReceiveGroups,
      ShowGroups, ReceiveJoined, FriendListSize, FriendEntry, GroupList, UpdateFriendlist,
      MovetoFriend, LeaveFriend, FocusinFriend, ClickTab

\* The groups that were received are still there, and none is numbered 0.
LEMMA GroupRowsKept ==
  ASSUME AskedInv, TablesInv, SentInv, GrowingInv, FriendDataInv, GroupDataInv,
         [Next]_vars, ~ListsReset
  PROVE  /\ groupListSize \in Nat /\ groupListSize' \in Nat /\ groupListSize <= groupListSize'
         /\ \A i \in 1..groupListSize : i \in 1..groupListSize' /\ joined'[i] = joined[i]
         /\ 0 \notin Groups
  <1>1. TablesInv' /\ Longer(joined', joined)
    BY TablesStep
  <1>2. Len(joined) \in Nat /\ Len(joined') \in Nat
    BY <1>1, LenProperties DEF TablesInv
  <1>3. groupListSize \in 0..Len(joined)
    BY DEF GroupDataInv
  <1>4. groupListSize' \in 0..Len(joined')
    BY GroupDataStep DEF GroupDataInv
  <1>5. groupListSize <= groupListSize'
    BY SizesGrow
  <1>6. \A i \in 1..Len(joined) : joined'[i] = joined[i]
    BY <1>1 DEF Longer
  <1>7. 0 \notin Groups
    BY GroupNumbers
  <1> QED BY <1>2, <1>3, <1>4, <1>5, <1>6, <1>7

\* A row shows a group the user is in, and one row is highlighted, that of the
\* group clicked last.
LEMMA GroupRowsStep ==
  ASSUME AskedInv, TablesInv, SentInv, GrowingInv, FriendDataInv, GroupDataInv, GroupRowsInv,
         [Next]_vars
  PROVE  GroupRowsInv'
  <1>1. PICK n \in 0..groupListSize : groupRows \in [1..n -> [id : Groups, colour : Colours]]
    BY DEF GroupRowsInv
  <1>2. \A k \in 1..n :
          /\ groupRows[k] \in [id : Groups, colour : Colours]
          /\ \E i \in 1..groupListSize : joined[i] = groupRows[k].id
          /\ groupRows[k].colour = "choose" <=> k = lastfocus /\ focusGroup # 0
    BY <1>1 DEF GroupRowsInv
  <1>3. /\ lastfocus \in 0..groupListSize /\ focusGroup \in Groups \union {0}
        /\ focusGroup # 0 => lastfocus \in 1..n /\ groupRows[lastfocus].id = focusGroup
    BY <1>1 DEF GroupRowsInv
  <1>4. CASE ListsReset
    <2>1. groupRows' = <<>> /\ lastfocus' = 0 /\ focusGroup' = 0 /\ groupListSize' = 0
      BY <1>4 DEF ListsReset
    <2>2. groupRows' \in [1..0 -> [id : Groups, colour : Colours]] /\ DOMAIN groupRows' = {}
      BY <2>1
    <2> QED BY <2>1, <2>2 DEF GroupRowsInv
  <1>5. ASSUME ~ListsReset
        PROVE  /\ groupListSize \in Nat /\ groupListSize' \in Nat /\ groupListSize <= groupListSize'
               /\ \A i \in 1..groupListSize : i \in 1..groupListSize' /\ joined'[i] = joined[i]
               /\ 0 \notin Groups
    BY <1>5, GroupRowsKept
  \* New colours for the same rows.
  <1>6. ASSUME ~ListsReset, DOMAIN groupRows' = 1..n, groupRows' = [k \in 1..n |-> groupRows'[k]],
               lastfocus' \in 0..groupListSize, focusGroup' \in Groups \union {0},
               focusGroup' # 0 => lastfocus' \in 1..n /\ groupRows[lastfocus'].id = focusGroup',
               \A k \in 1..n :
                 /\ \E c \in Colours : groupRows'[k] = [groupRows[k] EXCEPT !.colour = c]
                 /\ groupRows'[k].colour = "choose" <=> k = lastfocus' /\ focusGroup' # 0
        PROVE  GroupRowsInv'
    <2>1. /\ groupListSize \in Nat /\ groupListSize' \in Nat /\ groupListSize <= groupListSize'
          /\ \A i \in 1..groupListSize : i \in 1..groupListSize' /\ joined'[i] = joined[i]
      BY <1>5, <1>6
    <2>2. ASSUME NEW k \in 1..n
          PROVE  /\ groupRows'[k] \in [id : Groups, colour : Colours]
                 /\ groupRows'[k].id = groupRows[k].id
                 /\ \E i \in 1..groupListSize' : joined'[i] = groupRows'[k].id
      <3>1. PICK c \in Colours : groupRows'[k] = [groupRows[k] EXCEPT !.colour = c]
        BY <1>6
      <3>2. groupRows[k] \in [id : Groups, colour : Colours]
        BY <1>2
      <3>3. groupRows'[k] = [id |-> groupRows[k].id, colour |-> c] /\ groupRows[k].id \in Groups
        BY <3>1, <3>2
      <3>4. groupRows'[k].id = groupRows[k].id /\ groupRows'[k] \in [id : Groups, colour : Colours]
        BY <3>3
      <3>5. PICK i \in 1..groupListSize : joined[i] = groupRows[k].id
        BY <1>2
      <3> QED BY <2>1, <3>4, <3>5
    <2>3. groupRows' \in [1..n -> [id : Groups, colour : Colours]] /\ n \in 0..groupListSize'
      BY <1>6, <2>1, <2>2
    <2>4. lastfocus' \in 0..groupListSize'
      BY <1>6, <2>1
    <2>5. focusGroup' # 0 => lastfocus' \in DOMAIN groupRows' /\ groupRows'[lastfocus'].id = focusGroup'
      BY <1>6, <2>2
    <2>6. \A k \in DOMAIN groupRows' :
            /\ \E i \in 1..groupListSize' : joined'[i] = groupRows'[k].id
            /\ groupRows'[k].colour = "choose" <=> k = lastfocus' /\ focusGroup' # 0
      BY <1>6, <2>2
    <2> QED BY <1>6, <2>3, <2>4, <2>5, <2>6 DEF GroupRowsInv
  <1>7. ASSUME NEW k \in 1..n PROVE /\ groupRows[k] = [groupRows[k] EXCEPT !.colour = groupRows[k].colour]
                                     /\ groupRows[k].colour \in Colours
    BY <1>2
  <1>8. CASE UNCHANGED groupTab /\ ~ListsReset
    <2>1. groupRows' = groupRows /\ lastfocus' = lastfocus /\ focusGroup' = focusGroup
      BY <1>8 DEF groupTab
    <2> QED BY <1>1, <1>2, <1>3, <1>6, <1>7, <1>8, <2>1
  <1>9. ASSUME ~ListsReset, NEW k \in DOMAIN groupRows, MovetoGroup(k) \/ LeaveGroup(k)
        PROVE  GroupRowsInv'
    <2>1. /\ k # lastfocus /\ UNCHANGED <<lastfocus, focusGroup>>
          /\ \E c \in Colours \ {"choose"} : groupRows' = [groupRows EXCEPT ![k].colour = c]
      BY <1>9 DEF MovetoGroup, LeaveGroup, Colours
    <2>2. PICK c \in Colours \ {"choose"} : groupRows' = [groupRows EXCEPT ![k].colour = c]
      BY <2>1
    <2>3. /\ k \in 1..n /\ DOMAIN groupRows' = 1..n
          /\ groupRows' = [j \in 1..n |-> groupRows'[j]]
          /\ groupRows'[k] = [groupRows[k] EXCEPT !.colour = c] /\ groupRows'[k].colour = c
          /\ \A j \in 1..n : j # k => groupRows'[j] = groupRows[j]
      BY <1>1, <1>2, <2>2
    <2> QED BY <1>2, <1>3, <1>6, <1>7, <1>9, <2>1, <2>2, <2>3
  <1>10. ASSUME ~ListsReset, NEW k \in DOMAIN groupRows, FocusinGroup(k)
         PROVE  GroupRowsInv'
    <2>1. /\ lastfocus' = k /\ focusGroup' = groupRows[k].id
          /\ groupRows' = [j \in DOMAIN groupRows |->
                IF j = k THEN [groupRows[j] EXCEPT !.colour = "choose"]
                ELSE IF j = lastfocus THEN [groupRows[j] EXCEPT !.colour = "blue"]
                ELSE groupRows[j]]
      BY <1>10 DEF FocusinGroup
    <2>2. k \in 1..n /\ k \in 0..groupListSize
      BY <1>1, <1>5, <1>10
    <2>3. groupRows[k].id \in Groups /\ focusGroup' # 0
      BY <1>2, <1>5, <1>10, <2>1, <2>2
    <2>4. ASSUME NEW j \in 1..n
          PROVE  /\ \E c \in Colours : groupRows'[j] = [groupRows[j] EXCEPT !.colour = c]
                 /\ groupRows'[j].colour = "choose" <=> j = k
      <3>1. groupRows[j] \in [id : Groups, colour : Colours]
        BY <1>2
      <3>2. CASE j = k
        BY <1>1, <2>1, <3>1, <3>2 DEF Colours
      <3>3. CASE j # k /\ j = lastfocus
        BY <1>1, <2>1, <3>1, <3>3 DEF Colours
      <3>4. CASE j # k /\ j # lastfocus
        BY <1>1, <1>2, <1>7, <2>1, <3>4
      <3> QED BY <3>2, <3>3, <3>4
    <2>5. DOMAIN groupRows' = 1..n /\ groupRows' = [j \in 1..n |-> groupRows'[j]]
      BY <1>1, <2>1
    <2> QED BY <1>6, <1>10, <2>1, <2>2, <2>3, <2>4, <2>5
  <1>11. ASSUME ~ListsReset, UpdateGrouplist
         PROVE  GroupRowsInv'
    <2> DEFINE m == groupListSize
               Row(g) == [id |-> g, colour |-> IF g = focusGroup THEN "choose" ELSE "blue"]
    <2>1. /\ SortedGroups \in [1..m -> Groups]
          /\ \A j, k \in 1..m : SortedGroups[j] = SortedGroups[k] => j = k
          /\ \A k \in 1..m : \E i \in 1..m : SortedGroups[k] = joined[i]
          /\ \A i \in 1..m : \E k \in 1..m : SortedGroups[k] = joined[i]
      BY GroupsSorted
    <2>2. /\ groupRows' = [k \in 1..m |-> Row(SortedGroups[k])]
          /\ lastfocus' = LastOf({k \in 1..m : SortedGroups[k] = focusGroup}, lastfocus)
          /\ UNCHANGED <<groupListSize, focusGroup>>
      BY <1>11 DEF UpdateGrouplist, lists
    <2>3. \A g \in Groups : /\ Row(g) \in [id : Groups, colour : Colours] /\ Row(g).id = g
                            /\ Row(g).colour = "choose" <=> g = focusGroup
      BY DEF Colours
    <2> HIDE DEF Row
    <2>4. \A k \in 1..m : groupRows'[k] = Row(SortedGroups[k]) /\ SortedGroups[k] \in Groups
      BY <2>1, <2>2
    <2>5. groupRows' \in [1..m -> [id : Groups, colour : Colours]] /\ DOMAIN groupRows' = 1..m
      BY <2>2, <2>3, <2>4
    <2>6. m \in Nat /\ m \in 0..groupListSize' /\ groupListSize' = m
      BY <1>5, <1>11, <2>2
    <2>7. \A k \in 1..m : \E i \in 1..m : joined'[i] = groupRows'[k].id
      <3> TAKE k \in 1..m
      <3>1. PICK i \in 1..m : SortedGroups[k] = joined[i]
        BY <2>1
      <3>2. groupRows'[k].id = joined[i] /\ joined'[i] = joined[i]
        BY <1>5, <1>11, <2>3, <2>4, <3>1
      <3> QED BY <3>2
    <2>8. focusGroup' \in Groups \union {0} /\ focusGroup' = focusGroup
      BY <1>3, <2>2
    <2>9. CASE focusGroup \in {joined[i] : i \in 1..m}
      <3>1. PICK k \in 1..m : SortedGroups[k] = focusGroup
        <4>1. PICK i \in 1..m : joined[i] = focusGroup
          BY <2>9
        <4> QED BY <2>1, <4>1
      <3>2. {j \in 1..m : SortedGroups[j] = focusGroup} = {k}
        BY <2>1, <3>1
      <3>3. lastfocus' = k /\ k \in Nat
        BY <2>2, <3>2, LastOfOne
      <3>4. focusGroup # 0
        BY <1>5, <1>11, <2>4, <3>1
      <3>5. \A j \in 1..m : groupRows'[j].colour = "choose" <=> j = k
        <4> TAKE j \in 1..m
        <4>1. groupRows'[j].colour = "choose" <=> SortedGroups[j] = focusGroup
          BY <2>3, <2>4
        <4>2. SortedGroups[j] = focusGroup <=> j = k
          BY <2>1, <3>1
        <4> QED BY <4>1, <4>2
      <3>6. groupRows'[k].id = focusGroup
        BY <2>3, <2>4, <3>1
      <3>7. lastfocus' \in 0..groupListSize' /\ lastfocus' \in DOMAIN groupRows'
        BY <2>5, <2>6, <3>3
      <3> QED BY <2>5, <2>6, <2>7, <2>8, <3>3, <3>4, <3>5, <3>6, <3>7 DEF GroupRowsInv
    <2>10. CASE focusGroup \notin {joined[i] : i \in 1..m}
      <3>1. \A j \in 1..m : SortedGroups[j] # focusGroup
        <4> TAKE j \in 1..m
        <4>1. PICK i \in 1..m : SortedGroups[j] = joined[i]
          BY <2>1
        <4> QED BY <2>10, <4>1
      <3>2. {j \in 1..m : SortedGroups[j] = focusGroup} = {}
        BY <3>1
      <3>3. lastfocus' = lastfocus
        BY <2>2, <3>2, LastOfOne, <2>6
      <3>4. focusGroup = 0
        BY <1>2, <1>3, <2>10
      <3>5. \A j \in 1..m : groupRows'[j].colour # "choose"
        BY <2>3, <2>4, <3>1
      <3> QED BY <2>5, <2>6, <2>7, <2>8, <3>3, <3>4, <3>5, <1>3 DEF GroupRowsInv
    <2> QED BY <2>9, <2>10
  <1> QED BY <1>4, <1>8, <1>9, <1>10, <1>11, GroupRowsFrame

-----------------------------------------------------------------------------
(* The conversation and the pane. *)

\* What a step does to them.
LEMMA TalkFrame ==
  ASSUME [Next]_vars
  PROVE  /\ \/ UNCHANGED <<talk, tab>> \/ ListsReset
            \/ \E k \in DOMAIN friendRows : FocusinFriend(k)
            \/ \E k \in DOMAIN groupRows : FocusinGroup(k)
            \/ \E aim \in {"friend", "group", "about"} : ClickTab(aim)
         /\ UNCHANGED members \/ members' = 0 \/ ReceiveProfile
  <1>1. \/ UNCHANGED <<talk, tab>> \/ ListsReset
        \/ \E k \in DOMAIN friendRows : FocusinFriend(k)
        \/ \E k \in DOMAIN groupRows : FocusinGroup(k)
        \/ \E aim \in {"friend", "group", "about"} : ClickTab(aim)
    BY ListFrame DEF listVars, pane, ReceiveFriends, UnpackEntry, ShowFriends, ReceiveAdded,
      ReceiveGroups, ShowGroups, ReceiveJoined, FriendListSize, FriendEntry, GroupList,
      UpdateFriendlist, UpdateGrouplist, MovetoFriend, LeaveFriend, MovetoGroup, LeaveGroup
  <1>2. UNCHANGED members \/ members' = 0 \/ ReceiveProfile
    <2>1. CASE ClientThread \/ Dispatch \/ Outside \/ Timer \/ UNCHANGED vars
      BY <2>1, AwayFrame
    <2>3. CASE ReceiveThread
      BY <2>3 DEF ReceiveThread, ReceiveRegistered, ReceiveLogin, ReceiveRefusal, ReceiveNotice,
        ReceiveChat, ReceiveFriends, UnpackEntry, ShowFriends, ReceiveAdded, ReceiveGroups,
        ShowGroups,
        ReceiveJoined, ShowMain, AskFriends, AskGroups, ReceiveEnd, Exit, Busy, Save, chatVars
    <2>4. CASE User
      BY <2>4 DEF User, Login, Regist, OtherWindow, ClickFriend, ClickGroup, ChangeTab, Hover,
        Compose,
        SendSingle, SendGroup, SendNowhere, OpenDialog, CloseDialog, ConfirmBadNumber, ConfirmGroup,
        ConfirmCreate, ConfirmFriend, Quit, Start, Exit, Save, chatVars
    <2> QED BY <2>1, <2>3, <2>4 DEF Next
  <1> QED BY <1>1, <1>2

\* At most one conversation is open, with somebody from the rows.
LEMMA TalkStep ==
  ASSUME TablesInv, SentInv, FriendDataInv, FriendRowsInv, GroupRowsInv, TalkInv, [Next]_vars
  PROVE  TalkInv'
  <1>1. members' \in Groups \union {0}
    <2>1. CASE ReceiveProfile
      <3>1. inbox # <<>> /\ Head(inbox).type = "profile" /\ members' = Head(inbox).about
        BY <2>1 DEF ReceiveProfile, Receive
      <3>2. WellFormed(Head(inbox))
        BY <3>1, SeqTail DEF SentInv
      <3> QED BY <3>1, <3>2 DEF WellFormed
    <2> QED BY <2>1, TalkFrame DEF TalkInv
  <1>2. CASE UNCHANGED <<talk, tab>>
    BY <1>1, <1>2 DEF TalkInv, talk
  <1>3. CASE ListsReset
    BY <1>1, <1>3 DEF TalkInv, ListsReset
  <1>4. ASSUME NEW k \in DOMAIN friendRows, FocusinFriend(k) PROVE TalkInv'
    <2>1. /\ talkUser' = userdata[friendRows[k].ptr].name /\ talkGroup' = 0 /\ tab' = tab
      BY <1>4 DEF FocusinFriend, ChangeChatMode
    <2>2. friendRows[k].ptr \in 1..friendListSize
      BY DEF FriendRowsInv, FriendRowUpTo
    <2>3. userdata[friendRows[k].ptr] \in [name : Friends \union {NoUser}, status : {0, 1}]
      <3>1. Len(contacts) \in Nat /\ Len(contacts) <= Cardinality(Friends)
        BY LenProperties, NoLonger, FriendsAssumption DEF TablesInv
      <3>2. friendListSize \in 0..Len(contacts)
        BY DEF FriendDataInv
      <3>3. friendRows[k].ptr \in 1..Cardinality(Friends)
        BY <2>2, <3>1, <3>2, GroupNumbers
      <3> QED BY <3>3 DEF FriendDataInv
    <2> QED BY <1>1, <2>1, <2>3 DEF TalkInv
  <1>5. ASSUME NEW k \in DOMAIN groupRows, FocusinGroup(k) PROVE TalkInv'
    <2>1. talkGroup' = groupRows[k].id /\ talkUser' = NoUser /\ tab' = tab
      BY <1>5 DEF FocusinGroup, ChangeChatMode
    <2>2. groupRows[k].id \in Groups
      BY DEF GroupRowsInv
    <2> QED BY <1>1, <2>1, <2>2 DEF TalkInv
  <1>6. ASSUME NEW aim \in {"friend", "group", "about"}, ClickTab(aim) PROVE TalkInv'
    BY <1>1, <1>6 DEF TalkInv, ClickTab, talk
  <1> QED BY <1>2, <1>3, <1>4, <1>5, <1>6, TalkFrame

-----------------------------------------------------------------------------
(* The invariant. *)

\* It holds at first.
LEMMA ListsAtFirst == Init => BudgetInv /\ ListsInv
  <1> SUFFICES ASSUME Init PROVE BudgetInv /\ ListsInv
    OBVIOUS
  <1>1. BudgetInv
    BY BudgetInit
  <1>2. IsSequence(<<>>) /\ ToSet(<<>>) = {} /\ Len(<<>>) = 0
    BY SeqOne
  <1>3. TablesInv
    <2>1. /\ budget.contacts \in Seq(Friends) /\ budget.joined \in Seq(Groups)
          /\ budget.groups \in Groups
          /\ IsInjective(budget.contacts) /\ IsInjective(budget.joined)
          /\ ToSet(budget.joined) \subseteq 1..budget.groups
      BY <1>1 DEF BudgetInv, Budget
    <2>2. contacts = budget.contacts /\ joined = budget.joined /\ groupCount = budget.groups
      BY DEF Init
    <2>3. /\ DOMAIN contacts = 1..Len(contacts) /\ DOMAIN joined = 1..Len(joined)
      BY <2>1, <2>2, LenProperties
    <2>4. /\ \A i, j \in 1..Len(contacts) : contacts[i] = contacts[j] => i = j
          /\ \A i, j \in 1..Len(joined) : joined[i] = joined[j] => i = j
      BY <2>1, <2>2, <2>3 DEF IsInjective
    <2>5. \A i \in 1..Len(joined) : joined[i] <= groupCount
      BY <2>1, <2>2, <2>3 DEF ToSet
    <2> QED BY <2>1, <2>2, <2>4, <2>5 DEF TablesInv
  <1>4. Len(contacts) \in Nat /\ Len(joined) \in Nat
    BY <1>3, LenProperties DEF TablesInv
  <1>5. AskedInv /\ SentInv
    BY <1>2 DEF Init, AskedInv, SentInv
  <1>6. GrowingInv
    BY <1>2 DEF Init, GrowingInv, InOrder, Rising, Under, AtLeast
  <1>7. FriendDataInv
    <2>1. /\ userdata = [i \in 1..Cardinality(Friends) |-> [name |-> NoUser, status |-> 0]]
          /\ friendListSize = 0 /\ recvPc = "recv" /\ inHand = [list |-> <<>>, next |-> 0]
      BY DEF Init, ListsInit, Nothing
    <2>2. /\ userdata \in [1..Cardinality(Friends) -> [name : Friends \union {NoUser}, status : {0, 1}]]
          /\ \A i \in 1..Cardinality(Friends) : userdata[i].name = NoUser
      BY <2>1
    <2>3. friendListSize \in 0..Len(contacts) /\ \A i \in 1..friendListSize : FALSE
      BY <1>4, <2>1
    <2>4. inHand = [list |-> inHand.list, next |-> inHand.next]
      BY <2>1
    <2> QED BY <2>1, <2>2, <2>3, <2>4 DEF FriendDataInv
  <1>8. GroupDataInv
    BY <1>4 DEF Init, ListsInit, GroupDataInv
  <1>9. FriendRowsInv
    <2>1. friendRows = <<>> /\ lastfocusFriend = 0 /\ focusUser = NoUser /\ friendListSize = 0
      BY DEF Init, ListsInit
    <2>2. friendRows \in [1..0 -> FriendRowUpTo(friendListSize)] /\ DOMAIN friendRows = {}
      BY <2>1
    <2> QED BY <2>1, <2>2 DEF FriendRowsInv
  <1>10. GroupRowsInv
    <2>1. groupRows = <<>> /\ lastfocus = 0 /\ focusGroup = 0 /\ groupListSize = 0
      BY DEF Init, ListsInit
    <2>2. groupRows \in [1..0 -> [id : Groups, colour : Colours]] /\ DOMAIN groupRows = {}
      BY <2>1
    <2> QED BY <2>1, <2>2 DEF GroupRowsInv
  <1>11. TalkInv
    BY DEF Init, ListsInit, TalkInv
  <1> QED BY <1>1, <1>3, <1>5, <1>6, <1>7, <1>8, <1>9, <1>10, <1>11 DEF ListsInv

\* Every step keeps it.
LEMMA ListsStep == BudgetInv /\ ListsInv /\ [Next]_vars => BudgetInv' /\ ListsInv'
  <1> SUFFICES ASSUME BudgetInv, ListsInv, [Next]_vars PROVE BudgetInv' /\ ListsInv'
    OBVIOUS
  <1>1. /\ TablesInv /\ AskedInv /\ SentInv /\ GrowingInv
        /\ FriendDataInv /\ GroupDataInv /\ FriendRowsInv /\ GroupRowsInv /\ TalkInv
    BY DEF ListsInv
  <1>2. BudgetInv'
    BY BudgetFrame
  <1>3. TablesInv' /\ AskedInv' /\ SentInv'
    BY <1>1, TablesStep, AskedStep, SentStep
  <1>4. GrowingInv'
    BY <1>1, GrowingStep
  <1>5. FriendDataInv' /\ GroupDataInv'
    BY <1>1, FriendDataStep, GroupDataStep
  <1>6. FriendRowsInv' /\ GroupRowsInv'
    BY <1>1, FriendRowsStep, GroupRowsStep
  <1>7. TalkInv'
    BY <1>1, TalkStep
  <1> QED BY <1>2, <1>3, <1>4, <1>5, <1>6, <1>7 DEF ListsInv

\* What the server sent of a list, what the client stored of it and what the rows
\* show belongs together at any moment.
THEOREM ListsTogether == Spec => [](BudgetInv /\ ListsInv)
  BY ListsAtFirst, ListsStep, PTL DEF Spec

\* A row of the friend list leads to the person on its label, also while the
\* receive thread rewrites the entries.
THEOREM LabelsLead == Spec => []LabelIsTarget
  <1>1. ListsInv => LabelIsTarget
    <2> SUFFICES ASSUME ListsInv, NEW k \in DOMAIN friendRows
                 PROVE  userdata[friendRows[k].ptr].name = friendRows[k].label
      BY DEF LabelIsTarget
    <2>1. /\ friendRows[k].ptr \in 1..friendListSize
          /\ friendRows[k].label = contacts[friendRows[k].ptr]
          /\ userdata[friendRows[k].ptr].name # NoUser
      BY DEF ListsInv, FriendRowsInv, FriendRowUpTo
    <2>2. friendRows[k].ptr \in 1..Cardinality(Friends)
      <3>1. Len(contacts) \in Nat /\ Len(contacts) <= Cardinality(Friends)
        BY LenProperties, NoLonger, FriendsAssumption DEF ListsInv, TablesInv
      <3>2. friendListSize \in 0..Len(contacts)
        BY DEF ListsInv, FriendDataInv
      <3> QED BY <2>1, <3>1, <3>2, GroupNumbers
    <2> QED BY <2>1, <2>2 DEF ListsInv, FriendDataInv
  <1> QED BY <1>1, ListsTogether, PTL

\* The number of the highlighted row is that of the person or group whose row was
\* clicked last, however the rows are sorted anew.
THEOREM RowOfFocus == Spec => []FocusFollowsRow
  <1>1. ListsInv => FocusFollowsRow
    BY DEF ListsInv, FriendRowsInv, GroupRowsInv, FocusFollowsRow
  <1> QED BY <1>1, ListsTogether, PTL

\* That row and no other is drawn as chosen.
THEOREM OneRowChosen == Spec => []OneHighlight
  <1>1. ListsInv => OneHighlight
    BY DEF ListsInv, FriendRowsInv, GroupRowsInv, OneHighlight
  <1> QED BY <1>1, ListsTogether, PTL

-----------------------------------------------------------------------------
(* Types. *)

\* The connection, the logins at the server, the send thread and the history.
ServerTypes ==
  /\ conn \in {"up", "refused", "down", "none"}
  /\ named \subseteq Sessions
  /\ stage \in [Sessions -> {"idle", "set", "select", "replay", "receipt"}]
  /\ route \in {"none", "us", "other", "nobody"}
  /\ stuck \in BOOLEAN
  /\ made \in Nat
  /\ mishaps \subseteq {"displaced", "shared", "wiped", "late", "undeleted"}
  /\ lost \subseteq Requests \union Records

\* What the lists do not say of the variables.
OtherTypes ==
  /\ InputTypeOK /\ ServerTypes
  /\ loggedIn \in BOOLEAN
  /\ loggedIn => window = "main" \/ recvPc = "show"

\* The windows.
LEMMA InputStep ==
  ASSUME InputTypeOK, [Next]_vars
  PROVE  InputTypeOK'
  <1> USE DEF InputTypeOK
  <1>a. ASSUME UNCHANGED <<dialogs, composer>>,
               window' \in {window, "login", "regist", "waiting", "main", "off"},
               popup' \in {popup, "none", "rejected", "registered", "failed"}
        PROVE  InputTypeOK'
    BY <1>a DEF dialogs, composer
  <1>b. UNCHANGED inputVars => InputTypeOK'
    BY DEF inputVars, dialogs, composer
  <1>c. ASSUME CloseAll PROVE InputTypeOK'
    <2>1. /\ window' = "off" /\ popup' = "none" /\ groupDialog' = "none"
          /\ printed' = [text |-> <<>>, pieces |-> <<>>]
      BY <1>c DEF CloseAll
    <2>2. friendDialog' = FALSE /\ warnings' = FALSE /\ stickers' = FALSE
      BY <1>c DEF CloseAll
    <2>3. {friendDialog', warnings', stickers'} \subseteq BOOLEAN
      BY <2>2
    <2>4. printed'.pieces = <<>>
      BY <2>1
    <2> QED BY <2>1, <2>3, <2>4
  <1>1. CASE ClientThread \/ Dispatch \/ Outside \/ Timer \/ UNCHANGED vars
    <2>1. UNCHANGED inputVars
      BY <1>1, AwayFrame
    <2> QED BY <1>b, <2>1
  <1>3. CASE ReceiveRefusal \/ ReceiveEnd \/ Quit
    BY <1>3, <1>c DEF ReceiveRefusal, ReceiveEnd, Quit, Exit
  <1>4. CASE ReceiveRegistered
    <2>1. \E text \in {"registered", "failed"} : PopUp(text)
      BY <1>4 DEF ReceiveRegistered
    <2> QED BY <1>a, <2>1 DEF PopUp
  <1>5. CASE ReceiveThread /\ ~(ReceiveRefusal \/ ReceiveEnd \/ ReceiveRegistered \/ ShowMain)
    BY <1>5, <1>b DEF ReceiveThread, ReceiveLogin, ReceiveNotice, ReceiveChat, ReceiveFriends,
      UnpackEntry, ShowFriends, ReceiveAdded, ReceiveGroups, ShowGroups, ReceiveJoined,
      ReceiveProfile, AskFriends, AskGroups
  <1>6. CASE ShowMain \/ Login \/ Regist \/ OtherWindow \/ Start
    BY <1>6, <1>a DEF ShowMain, ShowMainWindow, Login, LoginClicked, CheckFails, Regist, ToLogin,
      OtherWindow, ToRegist, HidePopUp, Start
  <1>7. CASE ClickFriend \/ ClickGroup \/ ChangeTab \/ Hover
    BY <1>7, <1>b DEF ClickFriend, ClickGroup, ChangeTab, Hover
  <1>8. CASE Compose
    BY <1>8 DEF Compose, TypeText, OpenStickers, LeaveStickers, InsertSticker, dialogs
  <1>9. CASE SendSingle \/ SendGroup \/ SendNowhere
    <2>1. \E shown : TakeEntry(shown)
      BY <1>9 DEF SendSingle, SendGroup, SendNowhere
    <2>2. /\ UNCHANGED <<window, popup, dialogs, stickers>>
          /\ printed' = printed \/ printed'.text # <<>>
      BY <2>1 DEF TakeEntry
    <2> QED BY <2>2 DEF dialogs
  <1>10. CASE OpenDialog \/ CloseDialog \/ ConfirmBadNumber \/ ConfirmGroup \/ ConfirmCreate
              \/ ConfirmFriend
    BY <1>10 DEF OpenDialog, CloseDialog, ConfirmBadNumber, ConfirmGroup, ConfirmCreate,
      ConfirmFriend,
      OpenGroupDialog, OpenFriendDialog, CloseGroupDialog, CloseFriendDialog, CloseWarning,
      RefuseNumber, composer
  <1> QED BY <1>1, <1>3, <1>4, <1>5, <1>6, <1>7, <1>8, <1>9, <1>10 DEF Next, User

\* What a step of a login does to them.
LEMMA LoginTypes ==
  ASSUME ServerTypes, NEW s \in Sessions, LoginStep(s)
  PROVE  ServerTypes'
  <1>1. UNCHANGED <<conn, route, stuck, made, lost>>
    BY DEF LoginStep, SetName, SelectStored, ReplayRow, EraseStored, LoginReceipt, InLogin
  <1>2. named' = named \/ named' = named \union {s}
    BY DEF LoginStep, SetName, SelectStored, ReplayRow, EraseStored, LoginReceipt
  <1>3. \/ stage' = stage
        \/ \E label \in {"select", "replay", "receipt", "idle"} : stage' = [stage EXCEPT ![s] = label]
    BY DEF LoginStep, SetName, SelectStored, ReplayRow, EraseStored, LoginReceipt
  <1>4. \/ mishaps' = mishaps
        \/ \E mishap \in {"shared", "undeleted"} : mishaps' = mishaps \union {mishap}
    BY DEF LoginStep, SetName, SelectStored, ReplayRow, EraseStored, LoginReceipt
  <1>5. stage' \in [Sessions -> {"idle", "set", "select", "replay", "receipt"}]
    BY <1>3 DEF ServerTypes
  <1> QED BY <1>1, <1>2, <1>4, <1>5 DEF ServerTypes

\* What the end of the server does to them.
LEMMA EndTypes == ServerTypes /\ ServerEnds => ServerTypes'
  <1> SUFFICES ASSUME ServerTypes, ServerEnds PROVE ServerTypes'
    OBVIOUS
  <1>1. /\ conn' = "none" /\ named' = {} /\ route' = "none" /\ stuck' = FALSE
        /\ stage' = [s \in Sessions |-> "idle"] /\ UNCHANGED <<made, mishaps, lost>>
    BY DEF ServerEnds, runHistory
  <1>2. stuck' \in BOOLEAN
    BY <1>1
  <1> QED BY <1>1, <1>2 DEF ServerTypes

\* What the thread of the connection and the send thread do to them.
LEMMA ThreadTypes ==
  ASSUME ServerTypes, ClientThread \/ Dispatch
  PROVE  ServerTypes'
  <1>1. CASE HandleRequest
    <2>1. UNCHANGED <<conn, route, stuck, made, lost>>
      BY <1>1 DEF HandleRequest, Handle, HandleRegister, HandleLogin, HandleFriends, HandleGroups,
        HandleAdd, HandleJoin, HandleCreate, HandleProfile, HandleGroupChat, HandleSingle,
        SendByName, sendVars, chatHistory, chatEnds
    <2>2. /\ \/ named' = named \/ \E p \in named : named' = named \ {p}
          /\ stage' = stage \/ stage' = [stage EXCEPT !["us"] = "set"]
          /\ mishaps' = mishaps \/ mishaps' = mishaps \union {"displaced"}
      BY <1>1 DEF HandleRequest, HandleRegister, HandleLogin, HandleFriends, HandleGroups,
        HandleAdd, HandleJoin, HandleCreate, HandleProfile, HandleGroupChat, HandleSingle,
        SendByName, TurnAway
    <2>3. stage' \in [Sessions -> {"idle", "set", "select", "replay", "receipt"}]
      BY <2>2 DEF ServerTypes
    <2> QED BY <2>1, <2>2, <2>3 DEF ServerTypes
  <1>2. CASE CreateFails
    BY <1>2, EndTypes DEF CreateFails
  <1>3. CASE LoginStep("us")
    BY <1>3, LoginTypes DEF Sessions
  <1>4. CASE DeleteClient
    BY <1>4 DEF DeleteClient, ServerTypes, sendVars, chatHistory, chatEnds, runHistory
  <1>5. CASE Dispatch
    <2>1. UNCHANGED <<conn, named, stage, stuck, made, lost>>
      BY <1>5 DEF Dispatch, SndLookup, SndSend, SndSave, SndTake, SndStep, loginVars
    <2>2. route' = "none" \/ route' \in {"nobody"} \/ route' \in {"us", "nobody"} \/ route' \in named
      BY <1>5 DEF Dispatch, SndLookup, SndSend, SndSave, SndTake
    <2>3. mishaps' = mishaps \/ mishaps' = mishaps \union {"late"}
      BY <1>5 DEF Dispatch, SndLookup, SndSend, SndSave
    <2>4. route' \in {"none", "us", "other", "nobody"}
      BY <2>2 DEF ServerTypes, Sessions
    <2> QED BY <2>1, <2>3, <2>4 DEF ServerTypes
  <1> QED BY <1>1, <1>2, <1>3, <1>4, <1>5 DEF ClientThread

\* What the others do to them, and what goes wrong.
LEMMA OutsideTypes ==
  ASSUME AskedInv, SentInv, ServerTypes, Outside
  PROVE  ServerTypes'
  <1>1. CASE OtherLogin
    <2>1. UNCHANGED <<conn, route, stuck, made, lost>>
      BY <1>1 DEF OtherLogin, sendVars, chatHistory, chatEnds
    <2>2. /\ \/ named' = named \/ \E p \in named : named' = named \ {p}
          /\ stage' = stage \/ stage' = [stage EXCEPT !["other"] = "set"]
          /\ mishaps' = mishaps \/ mishaps' = mishaps \union {"displaced"}
      BY <1>1 DEF OtherLogin, TurnAway
    <2>3. stage' \in [Sessions -> {"idle", "set", "select", "replay", "receipt"}]
      BY <2>2 DEF ServerTypes
    <2> QED BY <2>1, <2>2, <2>3 DEF ServerTypes
  <1>2. CASE LoginStep("other")
    BY <1>2, LoginTypes DEF Sessions
  <1>3. CASE OtherLeaves \/ WipeName
    BY <1>3 DEF OtherLeaves, WipeName, ServerTypes, netVars, sendVars, chatHistory, chatEnds,
      runHistory
  <1>4. CASE PeerSends
    <2>1. /\ UNCHANGED <<conn, named, stage, route, stuck, mishaps, lost>>
          /\ made' = made + 1
      BY <1>4 DEF PeerSends, netVars, loginVars, runHistory
    <2>2. made' \in Nat
      BY <2>1 DEF ServerTypes
    <2> QED BY <2>1, <2>2 DEF ServerTypes
  <1>5. CASE Wedge
    BY <1>5 DEF Wedge, ServerTypes, netVars, loginVars, runHistory
  <1>6. CASE ServerStops
    BY <1>6, EndTypes DEF ServerStops
  <1>7. CASE LoseMessage \/ OverwriteRequest
    <2>1. UNCHANGED <<conn, named, stage, route, stuck, made, mishaps>>
      BY <1>7 DEF LoseMessage, OverwriteRequest, serverVars, loginVars, sendVars
    <2>2. /\ \A i \in DOMAIN toServer : toServer[i].type \in Requests
          /\ \A i \in DOMAIN inbox : inbox[i].type \in Records
      <3>1. \A i \in DOMAIN toServer : toServer[i] \in ToSet(toServer)
        BY DEF ToSet
      <3>2. \A i \in DOMAIN inbox : inbox[i] \in ToSet(inbox)
        BY DEF ToSet
      <3> QED BY <3>1, <3>2 DEF AskedInv, SentInv, WellFormed
    <2>3. \/ \E i \in DOMAIN toServer : lost' = lost \union {toServer[i].type}
          \/ \E i \in DOMAIN inbox : lost' = lost \union {inbox[i].type}
      BY <1>7 DEF LoseMessage, OverwriteRequest
    <2>4. lost' \subseteq Requests \union Records
      BY <2>2, <2>3 DEF ServerTypes
    <2> QED BY <2>1, <2>4 DEF ServerTypes
  <1> QED BY <1>1, <1>2, <1>3, <1>4, <1>5, <1>6, <1>7 DEF Outside

\* What the client does to them.
LEMMA UserTypes ==
  ASSUME ServerTypes, ReceiveThread \/ Timer \/ User
  PROVE  ServerTypes'
  <1>1. CASE ReceiveRefusal \/ ReceiveEnd \/ Quit
    <2>1. conn' \in {conn, "down", "none"}
      BY <1>1 DEF ReceiveRefusal, ReceiveEnd, Quit, Exit
    <2>2. UNCHANGED <<named, stage, route, stuck, made, mishaps, lost>>
      BY <1>1 DEF ReceiveRefusal, ReceiveEnd, Quit, Exit, serverVars, loginVars, sendVars, runHistory
    <2> QED BY <2>1, <2>2 DEF ServerTypes
  <1>2. CASE Start
    <2>1. /\ conn' \in Opened /\ named' = {Other(s) : s \in named} /\ route' = Other(route)
          /\ mishaps' = {} /\ lost' = {}
          /\ UNCHANGED <<stage, stuck, made>>
      BY <1>2 DEF Start, chatHistory, chatEnds
    <2>2. conn' \in {"up", "refused", "down", "none"}
      BY <2>1 DEF Opened
    <2>3. \A s : Other(s) \in {s, "other"}
      BY DEF Other
    <2> QED BY <2>1, <2>2, <2>3 DEF ServerTypes, Sessions
  <1>3. CASE ReceiveThread /\ ~(ReceiveRefusal \/ ReceiveEnd)
    <2>1. UNCHANGED <<conn, named, stage, route, stuck, made, mishaps, lost>>
      BY <1>3 DEF ReceiveThread, ReceiveRegistered, ReceiveLogin, ReceiveNotice, ReceiveChat,
        ReceiveFriends, UnpackEntry, ShowFriends, ReceiveAdded, ReceiveGroups, ShowGroups,
        ReceiveJoined, ReceiveProfile, ShowMain, AskFriends, AskGroups, Take, Busy, serverEnd,
        serverVars, loginVars, sendVars, chatHistory, chatEnds, runHistory
    <2> QED BY <2>1 DEF ServerTypes
  <1>4. CASE Timer
    BY <1>4 DEF Timer, ServerTypes, serverEnd, serverVars, loginVars, sendVars, chatHistory, chatEnds,
      runHistory
  <1>5. CASE User /\ ~(Quit \/ Start)
    <2>1. UNCHANGED <<conn, named, stage, route, stuck, mishaps>>
      BY <1>5 DEF User, Login, Regist, OtherWindow, ClickFriend, ClickGroup, ChangeTab, Hover,
        Compose, SendSingle, SendGroup, SendNowhere, OpenDialog, CloseDialog, ConfirmBadNumber,
        ConfirmGroup, ConfirmCreate, ConfirmFriend, InMain, UserActs, serverEnd, serverVars,
        loginVars, sendVars, runHistory
    <2>2. lost' = lost \/ lost' = lost \ {"profile"}
      BY <1>5 DEF User, Login, Regist, OtherWindow, ClickFriend, ClickGroup, ChangeTab, Hover,
        Compose, SendSingle, SendGroup, SendNowhere, OpenDialog, CloseDialog, ConfirmBadNumber,
        ConfirmGroup, ConfirmCreate, ConfirmFriend, runHistory
    <2>3. made' = made \/ made' = made + 1
      BY <1>5 DEF User, Login, Regist, OtherWindow, ClickFriend, ClickGroup, ChangeTab, Hover,
        Compose, SendSingle, SendGroup, SendNowhere, OpenDialog, CloseDialog, ConfirmBadNumber,
        ConfirmGroup, ConfirmCreate, ConfirmFriend, chatEnds
    <2>4. made' \in Nat
      BY <2>3 DEF ServerTypes
    <2> QED BY <2>1, <2>2, <2>4 DEF ServerTypes
  <1> QED BY <1>1, <1>2, <1>3, <1>4, <1>5

\* The login and the windows.
LEMMA LoggedInFrame ==
  ASSUME [Next]_vars
  PROVE  \/ /\ loggedIn' = loggedIn
            /\ \/ window' = window \/ window' = "main"
               \/ window # "main" /\ recvPc' = recvPc
            /\ recvPc' = recvPc \/ recvPc # "show" \/ window' = "main"
         \/ loggedIn' = TRUE /\ recvPc' = "show"
         \/ loggedIn' = FALSE
  <1>1. CASE ClientThread \/ Dispatch \/ Outside \/ Timer \/ UNCHANGED vars
    BY <1>1, AwayFrame DEF inputVars
  <1>3. CASE ReceiveThread
    BY <1>3 DEF ReceiveThread, ReceiveRegistered, ReceiveLogin, ReceiveRefusal, ReceiveNotice,
      ReceiveChat, ReceiveFriends, UnpackEntry, ShowFriends, ReceiveAdded, ReceiveGroups, ShowGroups,
      ReceiveJoined, ReceiveProfile, ShowMain, ShowMainWindow, AskFriends, AskGroups, ReceiveEnd,
      Exit, Receive, Take, Busy, PopUp, sessionVars, inputVars
  <1>4. CASE User
    BY <1>4 DEF User, Login, Regist, OtherWindow, ClickFriend, ClickGroup, ChangeTab, Hover,
      Compose, SendSingle, SendGroup, SendNowhere, OpenDialog, CloseDialog, ConfirmBadNumber,
      ConfirmGroup, ConfirmCreate, ConfirmFriend, Quit, Start, Exit, InMain, UserActs,
      sessionVars, inputVars,
      LoginClicked, CheckFails, ToLogin, ToRegist, HidePopUp, TypeText, OpenStickers, LeaveStickers,
      InsertSticker, TakeEntry, OpenGroupDialog, OpenFriendDialog, CloseGroupDialog,
      CloseFriendDialog,
      CloseWarning, RefuseNumber
  <1> QED BY <1>1, <1>3, <1>4 DEF Next

\* Every step keeps these types.
LEMMA OtherStep == ListsInv /\ OtherTypes /\ [Next]_vars => OtherTypes'
  <1> SUFFICES ASSUME ListsInv, OtherTypes, [Next]_vars PROVE OtherTypes'
    OBVIOUS
  <1>1. InputTypeOK'
    BY InputStep DEF OtherTypes
  <1>2. ServerTypes'
    <2>1. AskedInv /\ SentInv /\ ServerTypes
      BY DEF ListsInv, OtherTypes
    <2>2. CASE UNCHANGED vars
      BY <2>1, <2>2 DEF ServerTypes, vars, netVars, serverVars, loginVars, sendVars, chatHistory,
        chatEnds, runHistory
    <2> QED BY <2>1, <2>2, ThreadTypes, OutsideTypes, UserTypes DEF Next
  <1>3. loggedIn' \in BOOLEAN
    BY LoggedInFrame, Zenon DEF OtherTypes
  <1>4. loggedIn' => window' = "main" \/ recvPc' = "show"
    BY LoggedInFrame, Zenon DEF OtherTypes
  <1> QED BY <1>1, <1>2, <1>3, <1>4, Zenon DEF OtherTypes

\* The types of the variables of ClientLists follow.
LEMMA ListTypes == ListsInv /\ PaneInv => ListsTypeOK
  <1> SUFFICES ASSUME ListsInv, PaneInv PROVE ListsTypeOK
    OBVIOUS
  <1>1. /\ Len(contacts) \in Nat /\ Len(contacts) <= Cardinality(Friends)
        /\ Len(joined) \in Nat /\ Len(joined) <= Cardinality(Groups)
        /\ Cardinality(Friends) \in Nat /\ Cardinality(Groups) \in Nat
    BY LenProperties, NoLonger, FriendsAssumption, GroupsAssumption, GroupNumbers
    DEF ListsInv, TablesInv
  <1>2. /\ userdata \in [1..Cardinality(Friends) -> [name : Friends \union {NoUser}, status : {0, 1}]]
        /\ friendListSize \in 0..Len(contacts)
        /\ groupdata \in [1..Cardinality(Groups) -> Groups \union {0}]
        /\ groupListSize \in 0..Len(joined)
    BY DEF ListsInv, FriendDataInv, GroupDataInv
  <1>3. friendListSize \in 0..Cardinality(Friends) /\ groupListSize \in 0..Cardinality(Groups)
    BY <1>1, <1>2
  <1>4. lastfocusFriend \in 0..Cardinality(Friends) /\ lastfocus \in 0..Cardinality(Groups)
    BY <1>1, <1>3 DEF ListsInv, FriendRowsInv, GroupRowsInv
  <1>5. friendRows \in Seq([ptr : DOMAIN userdata, status : {0, 1}, label : Friends, colour : Colours])
    <2> DEFINE Row == [ptr : DOMAIN userdata, status : {0, 1}, label : Friends, colour : Colours]
    <2>1. PICK n \in 0..friendListSize : friendRows \in [1..n -> FriendRowUpTo(friendListSize)]
      BY DEF ListsInv, FriendRowsInv
    <2>2. 1..friendListSize \subseteq DOMAIN userdata
      <3>1. DOMAIN userdata = 1..Cardinality(Friends)
        BY <1>2
      <3> QED BY <1>1, <1>3, <3>1
    <2>3. FriendRowUpTo(friendListSize) \subseteq Row
      BY <2>2 DEF FriendRowUpTo
    <2>4. n \in Nat
      BY <1>3
    <2> HIDE DEF Row
    <2>5. friendRows \in [1..n -> Row]
      BY <2>1, <2>3
    <2>6. friendRows \in Seq(Row)
      BY <2>4, <2>5
    <2> QED BY <2>6 DEF Row
  <1>6. groupRows \in Seq([id : Groups, colour : Colours])
    <2> DEFINE Row == [id : Groups, colour : Colours]
    <2>1. PICK n \in 0..groupListSize : groupRows \in [1..n -> Row]
      BY DEF ListsInv, GroupRowsInv
    <2>2. n \in Nat
      BY <1>3
    <2> HIDE DEF Row
    <2>3. groupRows \in Seq(Row)
      BY <2>1, <2>2
    <2> QED BY <2>3 DEF Row
  <1>7. focusUser \in Friends \union {NoUser} /\ focusGroup \in Groups \union {0}
    BY DEF ListsInv, FriendRowsInv, GroupRowsInv
  <1>8. /\ talkUser \in Friends \union {NoUser} /\ talkGroup \in Groups \union {0}
        /\ talkUser = NoUser \/ talkGroup = 0
        /\ tab \in {"friend", "group", "about"}
    BY DEF ListsInv, TalkInv
  <1>9. {membersShown, memberList, logoShown, switched} \subseteq BOOLEAN
    BY DEF PaneInv
  <1> QED BY <1>2, <1>3, <1>4, <1>5, <1>6, <1>7, <1>8, <1>9 DEF ListsTypeOK

\* Every variable of the client has its type, and nobody is logged in without the
\* main window but while login_action runs.
THEOREM ClientTypeCorrect == Spec => []TypeOK
  <1>1. Init => OtherTypes /\ PaneInv
    <2> SUFFICES ASSUME Init PROVE OtherTypes /\ PaneInv
      OBVIOUS
    <2>1. PaneInv
      BY DEF Init, ListsInit, PaneInv, MembersFollowConversation
    <2>2. /\ window = "login" /\ popup = "none" /\ groupDialog = "none"
          /\ printed = [text |-> <<>>, pieces |-> <<>>]
      BY DEF Init, InputInit
    <2>3. /\ friendDialog = FALSE /\ warnings = FALSE /\ stickers = FALSE /\ loggedIn = FALSE
      BY DEF Init, InputInit
    <2>4. printed.pieces = <<>>
      BY <2>2
    <2>5. {friendDialog, warnings, stickers} \subseteq BOOLEAN /\ loggedIn \in BOOLEAN /\ ~loggedIn
      BY <2>3
    <2>6. /\ conn \in Opened /\ named = {} /\ stage = [s \in Sessions |-> "idle"]
          /\ route = "none" /\ stuck = FALSE /\ made = 0 /\ mishaps = {} /\ lost = {}
      BY DEF Init
    <2>7. conn \in {"up", "refused", "down", "none"} /\ stuck \in BOOLEAN /\ made \in Nat
      BY <2>6 DEF Opened
    <2>8. ServerTypes
      BY <2>6, <2>7 DEF ServerTypes
    <2> QED BY <2>1, <2>2, <2>4, <2>5, <2>8 DEF OtherTypes, InputTypeOK
  <1>2. ListsInv /\ PaneInv /\ OtherTypes => TypeOK
    <2> SUFFICES ASSUME ListsInv, PaneInv, OtherTypes PROVE TypeOK
      OBVIOUS
    <2>1. ListsTypeOK /\ InputTypeOK
      BY ListTypes DEF OtherTypes
    <2>2. /\ IsSequence(toServer) /\ IsSequence(inbox) /\ IsSequence(queue) /\ IsSequence(stored)
          /\ \A m \in ToSet(toServer) : m.type \in Requests
          /\ \A m \in ToSet(inbox) : m.type \in Records
          /\ \A m \in ToSet(queue) : m.type \in Records \union {"stray"}
          /\ \A m \in ToSet(stored) : m.type = "chat"
      BY DEF ListsInv, AskedInv, SentInv, WellFormed, StoredChat
    <2>3. ASSUME NEW s, IsSequence(s), NEW S, \A m \in ToSet(s) : m.type \in S
          PROVE  Types(s) \subseteq S
      BY <2>3, TypesFacts, SeqFacts
    <2>4. /\ Types(toServer) \subseteq Requests
          /\ Types(inbox) \subseteq Records /\ Types(queue) \subseteq Records \union {"stray"}
      BY <2>2, <2>3
    <2>5. Types(stored) \subseteq {"chat"}
      BY <2>2, <2>3
    <2>6. {stuck, loggedIn} \subseteq BOOLEAN
      BY DEF OtherTypes, ServerTypes
    <2>7. recvPc \in {"recv", "show", "ask friends", "ask groups", "entries", "groups"}
      BY DEF ListsInv, FriendDataInv
    <2>8. members \in Groups \union {0} /\ groupCount \in Groups
      BY DEF ListsInv, TalkInv, TablesInv
    <2>9. ToSet(contacts) \subseteq Friends /\ ToSet(joined) \subseteq Groups
      BY DEF ListsInv, TablesInv, ToSet
    <2> QED BY <2>1, <2>4, <2>5, <2>6, <2>7, <2>8, <2>9 DEF TypeOK, OtherTypes, ServerTypes
  <1>3. Spec => [](ListsInv /\ PaneInv /\ OtherTypes)
    BY <1>1, BudgetInit, ListsAtFirst, ListsStep, PaneStep, OtherStep, PTL DEF Spec
  <1> QED BY <1>2, <1>3, PTL

-----------------------------------------------------------------------------
(* The chats that are shown. *)

\* Where the chats of a conversation are, and which of them go before each.
PlacesOf(chats, conv) == {i \in DOMAIN chats : chats[i].conv = conv}

Sooner(chats, conv) ==
  [i \in PlacesOf(chats, conv) |-> {j \in PlacesOf(chats, conv) : Before(chats, j, i)}]

\* A record: each chat has a time and is of a conversation.
Proper(chats) ==
  /\ IsSequence(chats)
  /\ \A i \in 1..Len(chats) : chats[i].at \in Nat /\ chats[i].conv.kind # "none"

\* The chats of a conversation are ordered, and the k-th shown is the one of rank
\* k - 1.
LEMMA ShownFacts ==
  ASSUME NEW chats, Proper(chats), NEW conv
  PROVE  LET mine == PlacesOf(chats, conv)
             before == Sooner(chats, conv)
             n == Cardinality(mine)
             m == IF n < ShowLimit THEN n ELSE ShowLimit
         IN  /\ IsFiniteSet(mine) /\ Ordered(before, mine) /\ Ranked(before, mine, n)
             /\ n \in Nat /\ m \in 0..n
             /\ Shown(chats, conv) = [k \in 1..m |-> CHOOSE i \in mine : Cardinality(before[i]) = k - 1]
             /\ \A k \in 1..m : /\ Shown(chats, conv)[k] \in mine
                                /\ Cardinality(before[Shown(chats, conv)[k]]) = k - 1
  <1> DEFINE mine == PlacesOf(chats, conv)
             before == Sooner(chats, conv)
             n == Cardinality(mine)
             m == IF n < ShowLimit THEN n ELSE ShowLimit
             first(k) == CHOOSE i \in mine : Cardinality(before[i]) = k - 1
  <1>1. mine \in SUBSET (1..Len(chats)) /\ Len(chats) \in Nat
    BY SeqFacts DEF PlacesOf, Proper
  <1>2. IsFiniteSet(1..Len(chats))
    BY <1>1, FS_Interval
  <1>3. IsFiniteSet(mine)
    BY <1>1, <1>2, FS_Subset
  <1>4. n \in Nat /\ m \in 0..n
    <2>1. n \in Nat
      BY <1>3, FS_CardinalityType
    <2> HIDE DEF n
    <2> QED BY <2>1, ShowLimitAssumption
  <1>5. Ordered(before, mine)
    <2>1. before = [i \in mine |-> {j \in mine : Before(chats, j, i)}]
      BY DEF Sooner
    <2>2. \A i \in mine : i \in Nat /\ chats[i].at \in Nat
      BY <1>1 DEF Proper
    <2> HIDE DEF mine, before
    <2>3. before \in [mine -> SUBSET mine]
      BY <2>1
    <2>4. \A p, q \in mine : p \in before[q] <=> \/ chats[p].at < chats[q].at
                                                 \/ chats[p].at = chats[q].at /\ p < q
      BY <2>1 DEF Before
    <2>5. \A p \in mine : p \notin before[p]
      BY <2>2, <2>4
    <2>6. \A p, q \in mine : p # q => p \in before[q] \/ q \in before[p]
      BY <2>2, <2>4
    <2>7. ASSUME NEW p \in mine, NEW q \in mine, p \in before[q] PROVE before[p] \subseteq before[q]
      <3>1. ASSUME NEW o \in before[p] PROVE o \in before[q]
        <4>1. o \in mine
          BY <2>3, <3>1
        <4> QED BY <2>2, <2>4, <2>7, <3>1, <4>1
      <3> QED BY <3>1
    <2> QED BY <2>3, <2>5, <2>6, <2>7 DEF Ordered
  <1>6. Ranked(before, mine, n)
    BY <1>3, <1>5, OnePerRank
  <1>7. Shown(chats, conv) = [k \in 1..m |-> first(k)]
    BY DEF Shown, Listed, PlacesOf, Sooner
  <1>8. ASSUME NEW k \in 1..m
        PROVE  /\ Shown(chats, conv)[k] \in mine
               /\ Cardinality(before[Shown(chats, conv)[k]]) = k - 1
    <2>1. k \in 1..n
      <3> HIDE DEF n, m
      <3> QED BY <1>4
    <2>2. \E i \in mine : Cardinality(before[i]) = k - 1
      BY <1>6, <2>1 DEF Ranked
    <2>3. first(k) \in mine /\ Cardinality(before[first(k)]) = k - 1
      BY <2>2
    <2>4. Shown(chats, conv)[k] = first(k)
      <3> HIDE DEF first, m
      <3> QED BY <1>7
    <2> HIDE DEF first, mine, before
    <2> QED BY <2>3, <2>4
  <1> HIDE DEF n
  <1> QED BY <1>3, <1>4, <1>5, <1>6, <1>7, <1>8 DEF n

\* A chat of another conversation changes nothing of what is shown.
LEMMA ShownKept ==
  ASSUME NEW chats, Proper(chats), NEW c, NEW conv, c.conv # conv
  PROVE  Shown(Append(chats, c), conv) = Shown(chats, conv)
  <1> DEFINE more == Append(chats, c)
             mine == PlacesOf(chats, conv)
             before == Sooner(chats, conv)
  <1>1. /\ Len(chats) \in Nat /\ DOMAIN chats = 1..Len(chats)
        /\ DOMAIN more = 1..(Len(chats) + 1)
        /\ \A i \in 1..Len(chats) : more[i] = chats[i]
        /\ more[Len(chats) + 1] = c
    BY SeqFacts, SeqAppend DEF Proper
  <1> HIDE DEF more
  <1>2. PlacesOf(more, conv) = mine
    BY <1>1 DEF PlacesOf
  <1>3. \A i \in mine : more[i] = chats[i]
    BY <1>1 DEF PlacesOf
  <1>4. Sooner(more, conv) = before
    <2>1. Sooner(more, conv) = [i \in mine |-> {j \in mine : Before(more, j, i)}]
      BY <1>2 DEF Sooner
    <2>2. before = [i \in mine |-> {j \in mine : Before(chats, j, i)}]
      BY DEF Sooner
    <2>3. \A i, j \in mine : Before(more, j, i) <=> Before(chats, j, i)
      BY <1>3 DEF Before
    <2> HIDE DEF mine, before
    <2> QED BY <2>1, <2>2, <2>3
  <1>5. Shown(more, conv) = Listed(PlacesOf(more, conv), Sooner(more, conv))
    BY DEF Shown, PlacesOf, Sooner
  <1>6. Shown(chats, conv) = Listed(mine, before)
    BY DEF Shown, PlacesOf, Sooner
  <1> HIDE DEF mine, before
  <1> QED BY <1>2, <1>4, <1>5, <1>6 DEF more

\* Nothing is shown when no conversation is open.
LEMMA ShownNone ==
  ASSUME NEW chats, Proper(chats)
  PROVE  Shown(chats, NoConv) = <<>>
  <1> DEFINE mine == {i \in DOMAIN chats : chats[i].conv = NoConv}
  <1>1. NoConv.kind = "none"
    BY DEF NoConv
  <1>2. mine = {}
    BY <1>1, SeqFacts DEF Proper
  <1>3. Cardinality(mine) = 0
    BY <1>2, FS_EmptySet
  <1>4. \A f : Listed(mine, f) = <<>>
    <2> TAKE f
    <2>1. (IF Cardinality(mine) < ShowLimit THEN Cardinality(mine) ELSE ShowLimit) = 0
      BY <1>3, ShowLimitAssumption
    <2>2. \A g : [k \in 1..0 |-> g[k]] = <<>>
      OBVIOUS
    <2>3. 1..0 = {}
      OBVIOUS
    <2> HIDE DEF mine
    <2>4. Listed(mine, f) = [k \in 1..0 |-> CHOOSE i \in mine : Cardinality(f[i]) = k - 1]
      BY <2>1, Zenon DEF Listed
    <2> QED BY <2>2, <2>3, <2>4
  <1> QED BY <1>4 DEF Shown

\* What is shown of a record is the beginning of the conversation, in order.
Oldest(shown, chats, conv) ==
  LET mine == PlacesOf(chats, conv)
  IN  /\ ToSet(shown) \subseteq mine
      /\ \A k, l \in DOMAIN shown : k < l => Before(chats, shown[k], shown[l])
      /\ Len(shown) < ShowLimit => ToSet(shown) = mine
      /\ \A i \in mine \ ToSet(shown), j \in ToSet(shown) : Before(chats, j, i)

\* The oldest chats are shown, in their order.
LEMMA OldestFirst ==
  ASSUME NEW chats, Proper(chats), NEW conv
  PROVE  Oldest(Shown(chats, conv), chats, conv)
  <1> DEFINE shown == Shown(chats, conv)
             mine == PlacesOf(chats, conv)
             before == Sooner(chats, conv)
             n == Cardinality(mine)
             m == IF n < ShowLimit THEN n ELSE ShowLimit
             rank(i) == Cardinality(before[i])
  <1>1. /\ IsFiniteSet(mine) /\ Ordered(before, mine) /\ Ranked(before, mine, n)
        /\ n \in Nat /\ m \in 0..n
        /\ \A k \in 1..m : shown[k] \in mine /\ rank(shown[k]) = k - 1
    BY ShownFacts
  <1>2. Len(shown) = m /\ DOMAIN shown = 1..m
    <2>1. \A r : LET s == [k \in 1..m |-> r[k]] IN Len(s) = m /\ DOMAIN s = 1..m
      <3> HIDE DEF m
      <3>1. m \in Nat
        BY <1>1
      <3> QED BY <3>1
    <2> DEFINE r == [k \in 1..m |-> CHOOSE i \in mine : rank(i) = k - 1]
    <2>2. shown = [k \in 1..m |-> r[k]]
      <3>1. shown = r
        BY DEF Shown, Listed, PlacesOf, Sooner
      <3> HIDE DEF shown, m, rank, mine
      <3> QED BY <3>1
    <2> HIDE DEF shown, r, m
    <2> QED BY <2>1, <2>2
  <1>3. \A i, j \in mine : i \in before[j] <=> Before(chats, i, j)
    <2>1. before = [i \in mine |-> {j \in mine : Before(chats, j, i)}]
      BY DEF Sooner
    <2> HIDE DEF before, mine
    <2> QED BY <2>1
  <1>4. ASSUME NEW i \in mine, NEW j \in mine, rank(i) < rank(j) PROVE Before(chats, i, j)
    <2>1. rank(i) \in Nat /\ rank(j) \in Nat
      BY <1>1 DEF Ranked
    <2>2. i # j /\ j \notin before[i]
      <3>1. j \in before[i] => rank(j) < rank(i)
        BY <1>1, SmallerRank
      <3> HIDE DEF rank
      <3> QED BY <1>4, <2>1, <3>1
    <2>3. i \in before[j]
      BY <1>1, <2>2 DEF Ordered
    <2> QED BY <1>3, <2>3
  <1>5. ASSUME NEW i \in mine PROVE rank(i) \in 0..(n - 1)
    BY <1>1 DEF Ranked
  <1>6. ASSUME NEW i \in mine, rank(i) + 1 \in 1..m PROVE shown[rank(i) + 1] = i
    <2>1. shown[rank(i) + 1] \in mine /\ rank(shown[rank(i) + 1]) = (rank(i) + 1) - 1
      BY <1>1, <1>6
    <2>2. rank(shown[rank(i) + 1]) = rank(i)
      <3>1. rank(i) \in Nat
        BY <1>1 DEF Ranked
      <3> HIDE DEF rank
      <3> QED BY <2>1, <3>1
    <2> QED BY <1>1, <2>1, <2>2 DEF Ranked
  <1> HIDE DEF shown, mine, n, rank, before
  <1>7. ToSet(shown) \subseteq mine
    BY <1>1, <1>2 DEF ToSet
  <1>8. \A k, l \in 1..m : k < l => Before(chats, shown[k], shown[l])
    <2> SUFFICES ASSUME NEW k \in 1..m, NEW l \in 1..m, k < l
                 PROVE  Before(chats, shown[k], shown[l])
      OBVIOUS
    <2>1. rank(shown[k]) < rank(shown[l]) /\ shown[k] \in mine /\ shown[l] \in mine
      BY <1>1
    <2> QED BY <1>4, <2>1
  <1>9. ASSUME m < ShowLimit, NEW i \in mine PROVE i \in ToSet(shown)
    <2>1. m = n
      BY <1>1, <1>9, ShowLimitAssumption
    <2>2. rank(i) + 1 \in 1..m
      BY <1>1, <1>5, <2>1
    <2> QED BY <1>2, <1>6, <2>2 DEF ToSet
  <1>10. ASSUME NEW i \in mine, i \notin ToSet(shown), NEW k \in 1..m
         PROVE  Before(chats, shown[k], i)
    <2>1. rank(i) + 1 \notin 1..m
      <3> HIDE DEF m
      <3> QED BY <1>2, <1>6, <1>10 DEF ToSet
    <2>2. shown[k] \in mine /\ rank(shown[k]) = k - 1
      BY <1>1
    <2>3. rank(i) \in Nat /\ m \in Nat
      BY <1>1, <1>5
    <2>4. rank(shown[k]) < rank(i)
      <3> HIDE DEF m
      <3> QED BY <2>1, <2>2, <2>3
    <2> QED BY <1>4, <2>2, <2>4
  <1> HIDE DEF m
  <1>11. \A i \in mine \ ToSet(shown), j \in ToSet(shown) : Before(chats, j, i)
    BY <1>2, <1>10 DEF ToSet
  <1>12. Len(shown) < ShowLimit => ToSet(shown) = mine
    BY <1>2, <1>7, <1>9
  <1> QED BY <1>2, <1>7, <1>8, <1>11, <1>12 DEF Oldest, shown, mine

-----------------------------------------------------------------------------
(* The view. *)

\* The view is what would be read from the record now.
ViewInv ==
  /\ Proper(record)
  /\ view = Shown(record, OpenConv)

\* What a step does to the record, the view and the conversation.
LEMMA ViewFrame ==
  ASSUME [Next]_vars
  PROVE  \/ UNCHANGED <<record, view, talk>>
         \/ record' = record /\ view' = Shown(record, OpenConv')
         \/ UNCHANGED record /\ view' = <<>> /\ ListsReset
         \/ UNCHANGED talk /\ \E f, at : at \in budget.times /\ Save(Chat(made', Single(f), at))
         \/ UNCHANGED talk /\ inbox # <<>> /\ Head(inbox).type = "chat" /\ Save(Head(inbox).about)
  <1>1. CASE ClientThread \/ Dispatch \/ Outside \/ Timer \/ UNCHANGED vars
    BY <1>1, AwayFrame
  <1> USE DEF listVars, chatVars
  <1>2. CASE ReceiveRefusal \/ ReceiveEnd \/ Quit
    BY <1>2 DEF ReceiveRefusal, ReceiveEnd, Quit, Exit
  <1>3. CASE ReceiveChat
    BY <1>3 DEF ReceiveChat, Receive
  <1>4. CASE ReceiveThread /\ ~(ReceiveRefusal \/ ReceiveEnd \/ ReceiveChat)
    BY <1>4 DEF ReceiveThread, ReceiveRegistered, ReceiveLogin, ReceiveNotice, ReceiveFriends,
      UnpackEntry, ShowFriends, ReceiveAdded, ReceiveGroups, ShowGroups, ReceiveJoined,
      ReceiveProfile, ShowMain, AskFriends, AskGroups, Busy, FriendListSize, FriendEntry, GroupList,
      UpdateFriendlist, UpdateGrouplist
  <1>5. CASE ClickFriend \/ ClickGroup
    BY <1>5 DEF ClickFriend, ClickGroup
  <1>6. CASE SendSingle
    BY <1>6 DEF SendSingle
  <1>7. CASE Login \/ Regist \/ OtherWindow \/ ChangeTab \/ Hover \/ Compose \/ SendGroup \/ SendNowhere
             \/ OpenDialog \/ CloseDialog \/ ConfirmBadNumber \/ ConfirmGroup \/ ConfirmCreate
             \/ ConfirmFriend \/ Start
    BY <1>7 DEF Login, Regist, OtherWindow, ChangeTab, Hover, Compose, SendGroup, SendNowhere,
      OpenDialog, CloseDialog, ConfirmBadNumber, ConfirmGroup, ConfirmCreate, ConfirmFriend, Start,
      ClickTab, MovetoFriend, LeaveFriend, MovetoGroup, LeaveGroup
  <1> QED BY <1>1, <1>2, <1>3, <1>4, <1>5, <1>6, <1>7 DEF Next, User

\* A chat that is saved is shown if its conversation is open.
LEMMA ViewSave ==
  ASSUME ViewInv, NEW c, c.conv.kind # "none", c.at \in Nat, Save(c), UNCHANGED talk
  PROVE  ViewInv'
  <1>1. OpenConv' = OpenConv
    BY DEF OpenConv, talk
  <1>2. record' = record \/ record' = Append(record, c)
    BY DEF Save
  <1>3. Proper(record')
    <2>1. /\ IsSequence(Append(record, c)) /\ Len(record) \in Nat
          /\ Len(Append(record, c)) = Len(record) + 1
          /\ \A i \in 1..Len(record) : Append(record, c)[i] = record[i]
          /\ Append(record, c)[Len(record) + 1] = c
      BY SeqAppend, SeqFacts DEF ViewInv, Proper
    <2>2. ASSUME NEW i \in 1..(Len(record) + 1)
          PROVE  /\ Append(record, c)[i].at \in Nat
                 /\ Append(record, c)[i].conv.kind # "none"
      <3>1. CASE i \in 1..Len(record)
        BY <2>1, <3>1 DEF ViewInv, Proper
      <3>2. CASE i = Len(record) + 1
        BY <2>1, <3>2
      <3> QED BY <2>1, <3>1, <3>2
    <2> QED BY <1>2, <2>1, <2>2 DEF ViewInv, Proper
  <1>4. view' = Shown(record', OpenConv)
    <2>1. CASE c.conv = OpenConv
      BY <2>1 DEF Save
    <2>2. CASE c.conv # OpenConv
      <3>1. Shown(Append(record, c), OpenConv) = Shown(record, OpenConv)
        BY <2>2, ShownKept DEF ViewInv
      <3> QED BY <1>2, <2>2, <3>1 DEF Save, ViewInv
    <2> QED BY <2>1, <2>2
  <1>5. Shown(record, OpenConv)' = Shown(record', OpenConv)
    BY <1>1 DEF Shown, Listed, Before
  <1> QED BY <1>3, <1>4, <1>5 DEF ViewInv, Proper

\* Every step keeps the view.
LEMMA ViewStep == BudgetInv /\ ListsInv /\ ViewInv /\ [Next]_vars => ViewInv'
  <1> SUFFICES ASSUME BudgetInv, ListsInv, ViewInv, [Next]_vars PROVE ViewInv'
    OBVIOUS
  <1>1. CASE UNCHANGED <<record, view, talk>>
    BY <1>1 DEF ViewInv, Proper, Shown, Listed, Before, OpenConv, talk
  <1>2. CASE record' = record /\ view' = Shown(record, OpenConv')
    BY <1>2 DEF ViewInv, Proper, Shown, Listed, Before
  <1>3. CASE record' = record /\ view' = <<>> /\ ListsReset
    <2>1. OpenConv' = NoConv
      BY <1>3 DEF ListsReset, OpenConv
    <2>2. Shown(record, NoConv) = <<>>
      BY ShownNone DEF ViewInv
    <2>3. Shown(record, OpenConv)' = Shown(record', OpenConv')
      BY DEF Shown, Listed, Before
    <2>4. Shown(record', OpenConv') = <<>>
      BY <1>3, <2>1, <2>2
    <2> QED BY <1>3, <2>3, <2>4 DEF ViewInv, Proper
  <1>4. ASSUME NEW f, NEW at \in budget.times, Save(Chat(made', Single(f), at)), UNCHANGED talk
        PROVE  ViewInv'
    <2>1. budget.times \subseteq Nat
      BY DEF BudgetInv, Budget
    <2>2. /\ Chat(made', Single(f), at).conv.kind # "none"
          /\ Chat(made', Single(f), at).at \in Nat
      BY <2>1 DEF Chat, Single
    <2> QED BY <1>4, <2>2, ViewSave
  <1>5. CASE UNCHANGED talk /\ inbox # <<>> /\ Head(inbox).type = "chat" /\ Save(Head(inbox).about)
    <2>1. IsSequence(inbox) /\ \A m \in ToSet(inbox) : WellFormed(m)
      BY DEF ListsInv, SentInv
    <2>2. Head(inbox).about.conv.kind # "none" /\ Head(inbox).about.at \in Nat
      BY <1>5, <2>1, SeqTail DEF WellFormed
    <2> QED BY <1>5, <2>2, ViewSave
  <1> QED BY <1>1, <1>2, <1>3, <1>4, <1>5, ViewFrame

\* At first there is nothing to show.
LEMMA ViewInit == Init => ViewInv
  <1> SUFFICES ASSUME Init PROVE ViewInv
    OBVIOUS
  <1>1. record = <<>> /\ view = <<>> /\ OpenConv = NoConv
    BY DEF Init, ListsInit, OpenConv
  <1>2. IsSequence(record) /\ Len(record) = 0
    BY <1>1, SeqOne
  <1>3. Proper(record)
    BY <1>2 DEF Proper
  <1>4. Shown(record, NoConv) = <<>>
    BY <1>3, ShownNone
  <1> QED BY <1>1, <1>3, <1>4 DEF ViewInv

\* The chat window shows the oldest chats of the open conversation, in their
\* order and no others, whichever thread wrote them and in whichever order.
THEOREM ViewIsRecord == Spec => []ViewIsOpenConversation
  <1>1. Spec => [](BudgetInv /\ ListsInv /\ ViewInv)
    BY BudgetInit, ListsAtFirst, ListsStep, ViewInit, ViewStep, PTL DEF Spec
  <1>2. ViewInv => ViewIsOpenConversation
    BY OldestFirst DEF ViewInv, Oldest, PlacesOf, ViewIsOpenConversation
  <1> QED BY <1>1, <1>2, PTL

-----------------------------------------------------------------------------
(* Numbers as they are printed and read. *)

DigitSet == ToSet(Digits)

\* Each digit has its value.
LEMMA DigitValues ==
  /\ \A k \in 0..9 : Digits[k + 1] \in DigitSet /\ DigitValue(Digits[k + 1]) = k
  /\ \A d \in DigitSet : DigitValue(d) \in 0..9
  <1>1. DOMAIN Digits = 1..10 /\ Len(Digits) = 10
    BY DEF Digits
  <1>2. \A i, j \in 1..10 : Digits[i] = Digits[j] => i = j
    <2>1. \A i \in 1..10 : i = 1 \/ i = 2 \/ i = 3 \/ i = 4 \/ i = 5 \/ i = 6 \/ i = 7 \/ i = 8 \/ i = 9 \/ i = 10
      OBVIOUS
    <2> QED BY <2>1 DEF Digits
  <1>3. \A i \in 1..10 : DigitValue(Digits[i]) = i - 1
    BY <1>1, <1>2 DEF DigitValue
  <1>4. DigitSet = {Digits[i] : i \in 1..10}
    BY <1>1 DEF DigitSet, ToSet
  <1> QED BY <1>3, <1>4

\* There are digits.
LEMMA SomeDigit == \E c \in DigitSet : TRUE
  BY DEF DigitSet, Digits, ToSet

\* Reading a text digit by digit.
LEMMA Reading ==
  ASSUME NEW t \in Seq(DigitSet)
  PROVE  \E v \in [0..Len(t) -> Nat] :
           /\ v[0] = 0 /\ v[Len(t)] = ReadNumber(t)
           /\ \A k \in 1..Len(t) : v[k] = 10 * v[k - 1] + DigitValue(t[k])
  <1> DEFINE n == Len(t)
             Step(g, s) == 10 * g[s \ {Max(s)}] + DigitValue(t[Max(s)])
             Folds(g) == g = [s \in SUBSET (1..n) |-> IF s = {} THEN 0 ELSE Step(g, s)]
             F == [p \in (1..n) \X Nat |-> 10 * p[2] + DigitValue(t[p[1]])]
             it == CHOOSE g : Folds(g)
             v == [k \in 0..n |-> it[1..k]]
  <1>1. n \in Nat /\ DOMAIN t = 1..n /\ \A k \in 1..n : t[k] \in DigitSet
    BY LenProperties
  <1>2. \A k \in 1..n : DigitValue(t[k]) \in Nat
    BY <1>1, DigitValues
  <1>3. ReadNumber(t) = it[1..n]
    BY <1>1 DEF ReadNumber, FoldLeft, MapThenFoldSet
  <1> HIDE DEF n
  <1>4. Folds(it)
    <2>1. F \in [(1..n) \X Nat -> Nat]
      BY <1>2
    <2>2. /\ \A k \in 1..n : \A m \in Nat : F[<<k, m>>] = 10 * m + DigitValue(t[k])
      OBVIOUS
    <2> HIDE DEF F
    <2>3. PICK g \in [SUBSET (1..n) -> Nat] : \A s \in SUBSET (1..n) :
            /\ g[s] = IF s = {} THEN 0 ELSE F[<<Max(s), g[s \ {Max(s)}]>>]
            /\ s # {} => Max(s) \in s
      <3>1. 0 \in Nat
        OBVIOUS
      <3> QED BY <1>1, <2>1, <3>1, FoldExists, Zenon
    <2>4. ASSUME NEW s \in SUBSET (1..n) PROVE g[s] = IF s = {} THEN 0 ELSE Step(g, s)
      <3>1. s \ {Max(s)} \in SUBSET (1..n) /\ g[s \ {Max(s)}] \in Nat
        OBVIOUS
      <3> QED BY <2>2, <2>3, <3>1
    <2>5. Folds(g)
      <3> HIDE DEF Step
      <3> QED BY <2>3, <2>4
    <2> QED BY <2>5
  <1> HIDE DEF it
  <1>5. v[0] = 0 /\ v[n] = ReadNumber(t)
    <2>1. 1..0 = {} /\ {} \in SUBSET (1..n)
      OBVIOUS
    <2>2. it[{}] = 0
      <3> HIDE DEF Step
      <3> QED BY <1>4, <2>1
    <2> QED BY <1>1, <1>3, <2>1, <2>2
  <1>6. ASSUME NEW k \in 1..n PROVE v[k] = 10 * v[k - 1] + DigitValue(t[k])
    <2>1. k \in Nat /\ 1..k \in SUBSET (1..n) /\ k \in 1..k /\ 1..k # {}
      BY <1>1
    <2>2. Max(1..k) = k
      BY <2>1, LargestIsLast
    <2>3. (1..k) \ {k} = 1..(k - 1)
      OBVIOUS
    <2>4. it[1..k] = Step(it, 1..k)
      <3> HIDE DEF Step
      <3> QED BY <1>4, <2>1
    <2>5. v[k] = it[1..k] /\ v[k - 1] = it[1..(k - 1)]
      BY <1>1
    <2> QED BY <2>2, <2>3, <2>4, <2>5
  <1> HIDE DEF v
  <1>7. \A k \in 0..n : v[k] \in Nat
    <2> DEFINE S == {k \in Nat : k <= n => v[k] \in Nat}
    <2>1. 0 \in S
      BY <1>5
    <2>2. \A k \in Nat : k \in S => k + 1 \in S
      <3> SUFFICES ASSUME NEW k \in Nat, k \in S, k + 1 <= n PROVE v[k + 1] \in Nat
        OBVIOUS
      <3>1. k + 1 \in 1..n /\ (k + 1) - 1 = k /\ v[k] \in Nat
        BY <1>1
      <3> QED BY <1>2, <1>6, <3>1
    <2> HIDE DEF S
    <2>3. Nat \subseteq S
      BY <2>1, <2>2, SetInduction
    <2> QED BY <2>3 DEF S
  <1>8. v \in [0..n -> Nat]
    BY <1>7 DEF v
  <1> QED BY <1>5, <1>6, <1>8 DEF n

\* One more digit.
LEMMA ReadAppend ==
  ASSUME NEW t \in Seq(DigitSet), NEW d \in DigitSet
  PROVE  /\ ReadNumber(t) \in Nat
         /\ ReadNumber(Append(t, d)) = 10 * ReadNumber(t) + DigitValue(d)
  <1> DEFINE n == Len(t)
             u == Append(t, d)
  <1>1. n \in Nat /\ u \in Seq(DigitSet) /\ Len(u) = n + 1 /\ u[n + 1] = d
        /\ \A k \in 1..n : u[k] = t[k]
    BY LenProperties, AppendProperties
  <1> HIDE DEF u
  <1>2. PICK v \in [0..n -> Nat] :
          /\ v[0] = 0 /\ v[n] = ReadNumber(t)
          /\ \A k \in 1..n : v[k] = 10 * v[k - 1] + DigitValue(t[k])
    BY Reading
  <1>3. PICK w \in [0..(n + 1) -> Nat] :
          /\ w[0] = 0 /\ w[n + 1] = ReadNumber(u)
          /\ \A k \in 1..(n + 1) : w[k] = 10 * w[k - 1] + DigitValue(u[k])
    BY <1>1, Reading
  <1> HIDE DEF n
  <1>4. w[n] = v[n]
    <2> DEFINE S == {k \in Nat : k <= n => w[k] = v[k]}
    <2>1. 0 \in S
      BY <1>2, <1>3
    <2>2. \A k \in Nat : k \in S => k + 1 \in S
      <3> SUFFICES ASSUME NEW k \in Nat, k \in S, k + 1 <= n PROVE w[k + 1] = v[k + 1]
        OBVIOUS
      <3>1. k + 1 \in 1..n /\ k + 1 \in 1..(n + 1) /\ (k + 1) - 1 = k /\ w[k] = v[k]
        BY <1>1
      <3> QED BY <1>1, <1>2, <1>3, <3>1
    <2> HIDE DEF S
    <2>3. Nat \subseteq S
      BY <2>1, <2>2, SetInduction
    <2> QED BY <1>1, <2>3 DEF S
  <1>5. n + 1 \in 1..(n + 1) /\ (n + 1) - 1 = n /\ v[n] \in Nat
    BY <1>1, <1>2
  <1>6. w[n + 1] = 10 * w[n] + DigitValue(d)
    BY <1>1, <1>3, <1>5
  <1> QED BY <1>2, <1>3, <1>4, <1>5, <1>6 DEF u

\* At most eight digits are accepted.
LEMMA NumberAccepted ==
  ASSUME NEW t \in Seq(DigitSet), Len(t) < 9
  PROVE  Str2Int(t) # -1
  <1> DEFINE n == Len(t)
             Step(g, s) == (g[s \ {Max(s)}] + DigitValue(t[Max(s)])) * 10
             Folds(g) == g = [s \in SUBSET (1..n) |-> IF s = {} THEN 0 ELSE Step(g, s)]
             F == [p \in (1..n) \X Nat |-> (p[2] + DigitValue(t[p[1]])) * 10]
             it == CHOOSE g : Folds(g)
  <1>1. n \in Nat /\ DOMAIN t = 1..n /\ \A k \in 1..n : t[k] \in DigitSet
    BY LenProperties
  <1>2. \A k \in 1..n : DigitValue(t[k]) \in Nat
    BY <1>1, DigitValues
  <1>3. Str2Int(t) = it[1..n]
    <2>1. ~(Len(t) >= 9) /\ ToSet(t) \subseteq ToSet(Digits)
      BY <1>1 DEF ToSet, DigitSet
    <2> QED BY <1>1, <2>1 DEF Str2Int, FoldLeft, MapThenFoldSet
  <1> HIDE DEF n
  <1>4. Folds(it)
    <2>1. F \in [(1..n) \X Nat -> Nat]
      BY <1>2
    <2>2. /\ \A k \in 1..n : \A m \in Nat : F[<<k, m>>] = (m + DigitValue(t[k])) * 10
      OBVIOUS
    <2> HIDE DEF F
    <2>3. PICK g \in [SUBSET (1..n) -> Nat] : \A s \in SUBSET (1..n) :
            /\ g[s] = IF s = {} THEN 0 ELSE F[<<Max(s), g[s \ {Max(s)}]>>]
            /\ s # {} => Max(s) \in s
      <3>1. 0 \in Nat
        OBVIOUS
      <3> QED BY <1>1, <2>1, <3>1, FoldExists, Zenon
    <2>4. ASSUME NEW s \in SUBSET (1..n) PROVE g[s] = IF s = {} THEN 0 ELSE Step(g, s)
      <3>1. s \ {Max(s)} \in SUBSET (1..n) /\ g[s \ {Max(s)}] \in Nat
        OBVIOUS
      <3> QED BY <2>2, <2>3, <3>1
    <2>5. Folds(g)
      <3> HIDE DEF Step
      <3> QED BY <2>3, <2>4
    <2> QED BY <2>5
  <1> HIDE DEF it
  <1> DEFINE S == {k \in Nat : k <= n => it[1..k] \in Nat}
  <1>5. 0 \in S
    <2>1. 1..0 = {} /\ {} \in SUBSET (1..n)
      OBVIOUS
    <2>2. it[{}] = 0
      <3> HIDE DEF Step
      <3> QED BY <1>4, <2>1
    <2> QED BY <2>1, <2>2
  <1>6. \A k \in Nat : k \in S => k + 1 \in S
    <2> SUFFICES ASSUME NEW k \in Nat, k \in S, k + 1 <= n PROVE it[1..(k + 1)] \in Nat
      OBVIOUS
    <2>1. k + 1 \in 1..n /\ 1..(k + 1) \in SUBSET (1..n) /\ k + 1 \in 1..(k + 1) /\ it[1..k] \in Nat
      BY <1>1
    <2>2. Max(1..(k + 1)) = k + 1
      BY <2>1, LargestIsLast
    <2>3. (1..(k + 1)) \ {k + 1} = 1..k
      OBVIOUS
    <2>4. it[1..(k + 1)] = Step(it, 1..(k + 1))
      <3> HIDE DEF Step
      <3> QED BY <1>4, <2>1
    <2>5. it[1..(k + 1)] = (it[1..k] + DigitValue(t[k + 1])) * 10
      BY <2>2, <2>3, <2>4
    <2>6. DigitValue(t[k + 1]) \in Nat
      BY <1>2, <2>1
    <2> QED BY <2>1, <2>5, <2>6
  <1> HIDE DEF S
  <1>7. Nat \subseteq S
    BY <1>5, <1>6, SetInduction
  <1> QED BY <1>1, <1>3, <1>7 DEF S

\* The last digit comes first until the text is reversed.
LEMMA ReverseAppend ==
  ASSUME NEW s \in Seq(DigitSet), NEW d \in DigitSet
  PROVE  /\ Reverse(s) \in Seq(DigitSet) /\ Len(Reverse(s)) = Len(s)
         /\ <<d>> \o s \in Seq(DigitSet) /\ Len(<<d>> \o s) = Len(s) + 1
         /\ Reverse(<<d>> \o s) = Append(Reverse(s), d)
  <1> DEFINE n == Len(s)
             u == <<d>> \o s
  <1>1. n \in Nat /\ \A i \in 1..n : s[i] \in DigitSet
    BY LenProperties
  <1>2. u \in Seq(DigitSet) /\ Len(u) = n + 1 /\ u[1] = d /\ \A i \in 1..n : u[i + 1] = s[i]
    <2>1. <<d>> \in Seq(DigitSet) /\ Len(<<d>>) = 1 /\ <<d>>[1] = d
      OBVIOUS
    <2>2. /\ u \in Seq(DigitSet) /\ Len(u) = n + 1
          /\ \A i \in 1..Len(u) : u[i] = IF i <= 1 THEN <<d>>[i] ELSE s[i - 1]
      BY <1>1, <2>1, ConcatProperties
    <2> HIDE DEF n, u
    <2> QED BY <1>1, <2>1, <2>2
  <1>3. Reverse(s) = [i \in 1..n |-> s[(n - i) + 1]] /\ Reverse(u) = [i \in 1..(n + 1) |-> u[((n + 1) - i) + 1]]
    BY <1>2 DEF Reverse
  <1> HIDE DEF n, u
  <1>4. Reverse(s) \in Seq(DigitSet) /\ Len(Reverse(s)) = n
    <2>1. \A i \in 1..n : (n - i) + 1 \in 1..n
      BY <1>1
    <2>2. Reverse(s) \in [1..n -> DigitSet]
      BY <1>1, <1>3, <2>1
    <2> QED BY <1>1, <2>2
  <1>5. Reverse(u) = Append(Reverse(s), d)
    <2> DEFINE r == Append(Reverse(s), d)
    <2>1. /\ r \in Seq(DigitSet) /\ Len(r) = n + 1 /\ r[n + 1] = d
          /\ \A i \in 1..n : r[i] = Reverse(s)[i]
      BY <1>4, AppendProperties
    <2> HIDE DEF r
    <2>2. r = [i \in 1..(n + 1) |-> r[i]]
      BY <1>1, <2>1
    <2>3. \A i \in 1..(n + 1) : r[i] = u[((n + 1) - i) + 1]
      <3>1. ASSUME NEW i \in 1..n PROVE r[i] = u[((n + 1) - i) + 1]
        <4>1. (n - i) + 1 \in 1..n /\ ((n + 1) - i) + 1 = ((n - i) + 1) + 1
          BY <1>1
        <4> QED BY <1>2, <1>3, <2>1, <4>1
      <3>2. ((n + 1) - (n + 1)) + 1 = 1 /\ \A i \in 1..(n + 1) : i \in 1..n \/ i = n + 1
        BY <1>1
      <3> QED BY <1>2, <2>1, <3>1, <3>2
    <2> QED BY <1>3, <2>2, <2>3 DEF r
  <1> QED BY <1>1, <1>2, <1>4, <1>5 DEF n, u

\* A number without its last digit, and that digit.
TensOf(n) == n \div 10
UnitsOf(n) == n % 10

\* The two make up the number.
LEMMA TensAndUnits ==
  ASSUME NEW n \in Nat
  PROVE  /\ UnitsOf(n) \in 0..9 /\ n = 10 * TensOf(n) + UnitsOf(n)
         /\ TensOf(n) \in 0..n
         /\ \A m \in Nat : n = m + 1 => TensOf(n) \in 0..m
         /\ \A b \in Nat : n < 10 * b => TensOf(n) < b
  <1>1. n % 10 \in 0..9 /\ n \div 10 \in 0..n
    OBVIOUS
  <1>2. n = 10 * (n \div 10) + (n % 10)
    OBVIOUS
  <1>3. \A m \in Nat : n = m + 1 => n \div 10 \in 0..m
    OBVIOUS
  <1>4. \A b \in Nat : n < 10 * b => n \div 10 < b
    OBVIOUS
  <1>5. TensOf(n) = n \div 10 /\ UnitsOf(n) = n % 10
    BY DEF TensOf, UnitsOf
  <1> QED BY <1>1, <1>2, <1>3, <1>4, <1>5

\* d has the digits of the numbers up to a, the last one first.
DigitsUpTo(a, d) ==
  /\ d[0] = <<>> /\ Reverse(d[a]) = Int2Str(a)
  /\ \A n \in 1..a : d[n] = <<Digits[UnitsOf(n) + 1]>> \o d[TensOf(n)]

\* Such a d is what Int2Str builds.
LEMMA WrittenDigits ==
  ASSUME NEW a \in Nat, a # 0
  PROVE  \E d : DigitsUpTo(a, d)
  <1> DEFINE Step(g, n) == <<Digits[UnitsOf(n) + 1]>> \o g[TensOf(n)]
             Written(m, g) == g = [n \in 0..m |-> IF n = 0 THEN <<>> ELSE Step(g, n)]
             S == {m \in Nat : \E g : Written(m, g)}
             d == CHOOSE g : Written(a, g)
  <1>1. Int2Str(a) = Reverse(d[a])
    BY DEF Int2Str, UnitsOf, TensOf
  <1>3. 0 \in S
    <2> DEFINE g == [n \in 0..0 |-> <<>>]
    <2>1. \A n \in 0..0 : n = 0
      OBVIOUS
    <2>2. Written(0, g)
      <3> HIDE DEF Step
      <3> QED BY <2>1
    <2> QED BY <2>2
  <1>4. ASSUME NEW m \in Nat, m \in S PROVE m + 1 \in S
    <2>1. PICK g : Written(m, g)
      <3> HIDE DEF Written
      <3> QED BY <1>4
    <2> DEFINE h == [n \in 0..(m + 1) |-> IF n = m + 1 THEN Step(g, n) ELSE g[n]]
    <2>2. \A n \in 0..m : h[n] = g[n]
      <3> HIDE DEF Step
      <3> QED OBVIOUS
    <2>3. \A n \in 1..(m + 1) : Step(h, n) = Step(g, n)
      <3>1. ASSUME NEW n \in 1..(m + 1) PROVE TensOf(n) \in 0..m
        <4>1. n \in Nat /\ (n <= m \/ n = m + 1)
          OBVIOUS
        <4> QED BY <4>1, TensAndUnits
      <3> HIDE DEF h
      <3> QED BY <2>2, <3>1
    <2>4. \A n \in 0..m : g[n] = IF n = 0 THEN <<>> ELSE Step(g, n)
      <3> HIDE DEF Step
      <3> QED BY <2>1
    <2>5. Written(m + 1, h)
      <3>1. \A n \in 0..(m + 1) : (IF n = m + 1 THEN Step(g, n) ELSE g[n])
                                  = IF n = 0 THEN <<>> ELSE Step(h, n)
        <4> HIDE DEF Step, h
        <4> QED BY <2>3, <2>4
      <3> HIDE DEF Step
      <3> QED BY <3>1
    <2> HIDE DEF Written
    <2> QED BY <2>5
  <1>5. a \in S
    <2> HIDE DEF S
    <2> QED BY <1>3, <1>4, SetInduction
  <1>6. Written(a, d)
    <2> HIDE DEF Written
    <2> QED BY <1>5
  <1> HIDE DEF d
  <1>7. d[0] = <<>> /\ \A n \in 1..a : d[n] = Step(d, n)
    <2> HIDE DEF Step
    <2> QED BY <1>6
  <1>8. DigitsUpTo(a, d)
    BY <1>1, <1>7 DEF DigitsUpTo
  <1> QED BY <1>8

\* The first number of nine digits.
NineDigits == 100000000

\* A number of at most eight digits is read back as it was written.
LEMMA ReadsBack ==
  ASSUME NEW a \in Nat, a # 0, a < NineDigits
  PROVE  Str2Int(Int2Str(a)) # -1 /\ ReadNumber(Int2Str(a)) = a
  <1>0. PICK d : DigitsUpTo(a, d)
    BY WrittenDigits
  <1>1. /\ d[0] = <<>> /\ Reverse(d[a]) = Int2Str(a)
        /\ \A n \in 1..a : d[n] = <<Digits[UnitsOf(n) + 1]>> \o d[TensOf(n)]
    BY <1>0 DEF DigitsUpTo
  <1> DEFINE Good(n) == d[n] \in Seq(DigitSet) /\ ReadNumber(Reverse(d[n])) = n
             S == {m \in Nat : \A n \in 0..m : n <= a => Good(n)}
  <1>2. ASSUME NEW n \in 1..a PROVE n \in Nat /\ n \in 0..a /\ TensOf(n) \in 0..a
    <2>1. n \in Nat /\ n <= a
      OBVIOUS
    <2>2. TensOf(n) \in 0..n
      BY <2>1, TensAndUnits
    <2> QED BY <2>1, <2>2
  <1>3. Good(0)
    <2>1. <<>> \in Seq(DigitSet) /\ Len(<<>>) = 0
      OBVIOUS
    <2>2. Reverse(<<>>) = <<>>
      <3>1. PICK c \in DigitSet : TRUE
        BY SomeDigit
      <3>2. Reverse(<<>>) \in Seq(DigitSet) /\ Len(Reverse(<<>>)) = 0
        BY <2>1, <3>1, ReverseAppend
      <3> QED BY <3>2, EmptySeq
    <2>3. ReadNumber(<<>>) = 0
      BY <2>1, Reading
    <2> QED BY <1>1, <2>1, <2>2, <2>3
  <1>4. ASSUME NEW n \in 1..a, Good(TensOf(n)) PROVE Good(n)
    <2> DEFINE s == d[TensOf(n)]
               c == Digits[UnitsOf(n) + 1]
    <2>1. c \in DigitSet /\ DigitValue(c) = UnitsOf(n)
      BY <1>2, TensAndUnits, DigitValues
    <2>2. s \in Seq(DigitSet) /\ ReadNumber(Reverse(s)) = TensOf(n) /\ d[n] = <<c>> \o s
      BY <1>1, <1>4
    <2> HIDE DEF s, c
    <2>3. /\ Reverse(s) \in Seq(DigitSet) /\ <<c>> \o s \in Seq(DigitSet)
          /\ Reverse(<<c>> \o s) = Append(Reverse(s), c)
      BY <2>1, <2>2, ReverseAppend
    <2>4. ReadNumber(Append(Reverse(s), c)) = 10 * (TensOf(n)) + UnitsOf(n)
      BY <2>1, <2>2, <2>3, ReadAppend
    <2>5. n = 10 * (TensOf(n)) + UnitsOf(n)
      BY <1>2, TensAndUnits
    <2> QED BY <2>2, <2>3, <2>4, <2>5
  <1>5. \A n \in 0..a : Good(n)
    <2> HIDE DEF Good
    <2>1. 0 \in S
      BY <1>3
    <2>2. ASSUME NEW m \in Nat, m \in S PROVE m + 1 \in S
      <3> SUFFICES ASSUME m + 1 <= a PROVE Good(m + 1)
        BY <2>2
      <3>1. TensOf(m + 1) \in 0..m /\ m + 1 \in 1..a
        BY TensAndUnits
      <3> QED BY <1>4, <2>2, <3>1
    <2> HIDE DEF S
    <2>3. Nat \subseteq S
      BY <2>1, <2>2, SetInduction
    <2> QED BY <2>3 DEF S
  <1> DEFINE Short(b, k) == \A n \in 0..a : n < b => Len(d[n]) <= k
  <1>6. ASSUME NEW b \in Nat, NEW k \in Nat, Short(b, k) PROVE Short(10 * b, k + 1)
    <2> SUFFICES ASSUME NEW n \in 0..a, n < 10 * b PROVE Len(d[n]) <= k + 1
      OBVIOUS
    <2>1. CASE n = 0
      BY <1>1, <2>1
    <2>2. CASE n \in 1..a
      <3> DEFINE s == d[TensOf(n)]
                 c == Digits[UnitsOf(n) + 1]
      <3>1. TensOf(n) \in 0..a /\ TensOf(n) < b
        BY <1>2, <2>2, TensAndUnits
      <3>2. c \in DigitSet /\ s \in Seq(DigitSet) /\ d[n] = <<c>> \o s /\ Len(s) <= k
        BY <1>1, <1>2, <1>5, <1>6, <2>2, <3>1, TensAndUnits, DigitValues
      <3> HIDE DEF s, c
      <3>3. Len(d[n]) = Len(s) + 1 /\ Len(s) \in Nat
        BY <3>2, ReverseAppend, LenProperties
      <3> QED BY <3>2, <3>3
    <2> QED BY <2>1, <2>2
  <1>7. Short(1, 0)
    <2>1. \A n \in 0..a : n < 1 => n = 0
      OBVIOUS
    <2>2. Len(<<>>) = 0
      OBVIOUS
    <2> QED BY <1>1, <2>1, <2>2
  <1>8. Short(NineDigits, 8)
    <2> HIDE DEF Short
    <2>1. Short(10, 1)
      BY <1>6, <1>7
    <2>2. Short(100, 2)
      BY <1>6, <2>1
    <2>3. Short(1000, 3)
      BY <1>6, <2>2
    <2>4. Short(10000, 4)
      BY <1>6, <2>3
    <2>5. Short(100000, 5)
      BY <1>6, <2>4
    <2>6. Short(1000000, 6)
      BY <1>6, <2>5
    <2>7. Short(10000000, 7)
      BY <1>6, <2>6
    <2>8. Short(10 * 10000000, 7 + 1)
      BY <1>6, <2>7
    <2>9. 10 * 10000000 = NineDigits /\ 7 + 1 = 8
      BY SMT DEF NineDigits
    <2> QED BY <2>8, <2>9
  <1>9. d[a] \in Seq(DigitSet) /\ ReadNumber(Int2Str(a)) = a /\ Len(d[a]) <= 8
    BY <1>1, <1>5, <1>8
  <1>10. Int2Str(a) \in Seq(DigitSet) /\ Len(Int2Str(a)) = Len(d[a])
    <2>1. PICK c \in DigitSet : TRUE
      BY SomeDigit
    <2> QED BY <1>1, <1>9, <2>1, ReverseAppend
  <1>11. Len(Int2Str(a)) < 9
    BY <1>9, <1>10, LenProperties
  <1> QED BY <1>9, <1>10, <1>11, NumberAccepted

\* A number of a row of the group list that is typed into the dialog to join a
\* group is accepted by confirm_group and read as the number of that row, as long
\* as no group has a number of nine digits, which str2int refuses.
THEOREM NumbersAreRead == Cardinality(Groups) < NineDigits => (Spec => []NumbersReadBack)
  <1> SUFFICES ASSUME Cardinality(Groups) < NineDigits PROVE Spec => []NumbersReadBack
    OBVIOUS
  <1>1. ListsInv => NumbersReadBack
    <2> SUFFICES ASSUME ListsInv, NEW k \in DOMAIN groupRows
                 PROVE  /\ Str2Int(Int2Str(groupRows[k].id)) # -1
                        /\ ReadNumber(Int2Str(groupRows[k].id)) = groupRows[k].id
      BY DEF NumbersReadBack
    <2>1. groupRows[k].id \in Groups
      BY DEF ListsInv, GroupRowsInv
    <2> DEFINE a == groupRows[k].id
    <2>2. a \in Nat /\ a # 0 /\ a < NineDigits
      <3>1. Cardinality(Groups) \in Nat /\ a \in 1..Cardinality(Groups)
        BY <2>1, GroupsAssumption, FS_CardinalityType
      <3>2. NineDigits \in Nat
        BY DEF NineDigits
      <3> HIDE DEF a
      <3> QED BY <3>1, <3>2
    <2> HIDE DEF a
    <2>3. Str2Int(Int2Str(a)) # -1 /\ ReadNumber(Int2Str(a)) = a
      BY <2>2, ReadsBack
    <2> QED BY <2>3 DEF a
  <1> QED BY <1>1, ListsTogether, PTL

-----------------------------------------------------------------------------
(* Texts as they are printed. *)

\* Texts consist of these.  They are STRING; the provers have to be told that the
\* letters of the stickers are in it.
Bytes == STRING \union {"/", "a", "d", "f", "j", "k", "m", "s", "w", "x", "z"}

\* What PrintContent inserts from position i on; g has it for later positions.
ContentFrom(t, g, i) ==
  IF SlashesFrom(t, i) = {} THEN Insert(SubSeq(t, i, Len(t)))
  ELSE LET s == FirstSlash(t, i)
       IN  Insert(SubSeq(t, i, s - 1)) \o
           IF s + 2 <= Len(t)
           THEN PrintSticker(SubSeq(t, s, s + 2)) \o g[s + 3]
           ELSE Insert(<<"/">>) \o g[s + 1]

\* The first slash from i on.
LEMMA FirstSlashFrom ==
  ASSUME NEW t \in Seq(Bytes), NEW i \in 1..(Len(t) + 1), SlashesFrom(t, i) # {}
  PROVE  /\ FirstSlash(t, i) \in i..Len(t)
         /\ t[FirstSlash(t, i)] = "/"
         /\ \A k \in i..Len(t) : k < FirstSlash(t, i) => t[k] # "/"
  <1>1. Len(t) \in Nat /\ i \in Nat
    BY LenProperties
  <1>2. SlashesFrom(t, i) \in SUBSET Nat
    BY <1>1 DEF SlashesFrom
  <1>3. PICK s \in SlashesFrom(t, i) : \A r \in SlashesFrom(t, i) : s <= r
    BY <1>2, Smallest
  <1>4. /\ FirstSlash(t, i) \in SlashesFrom(t, i)
        /\ \A r \in SlashesFrom(t, i) : FirstSlash(t, i) <= r
    BY <1>3 DEF FirstSlash
  <1>5. \A k : k \in SlashesFrom(t, i) <=> k \in i..Len(t) /\ t[k] = "/"
    BY DEF SlashesFrom
  <1> HIDE DEF FirstSlash
  <1> QED BY <1>1, <1>4, <1>5

\* Only later positions matter.
LEMMA ContentLater ==
  ASSUME NEW t \in Seq(Bytes), NEW i \in 1..(Len(t) + 1), NEW g, NEW h,
         \A k \in (i + 1)..(Len(t) + 1) : g[k] = h[k]
  PROVE  ContentFrom(t, g, i) = ContentFrom(t, h, i)
  <1>1. CASE SlashesFrom(t, i) = {}
    BY <1>1 DEF ContentFrom
  <1>2. CASE SlashesFrom(t, i) # {}
    <2> DEFINE s == FirstSlash(t, i)
    <2>1. s \in i..Len(t) /\ Len(t) \in Nat /\ i \in Nat
      BY <1>2, FirstSlashFrom, LenProperties
    <2> HIDE DEF s
    <2>2. g[s + 1] = h[s + 1] /\ (s + 2 <= Len(t) => g[s + 3] = h[s + 3])
      BY <2>1
    <2> QED BY <1>2, <2>2, Zenon DEF ContentFrom, s
  <1> QED BY <1>1, <1>2

\* There is what the recursion defines.
LEMMA ContentDefined ==
  ASSUME NEW t \in Seq(Bytes)
  PROVE  \E g : /\ PrintContent(t) = g[1]
                /\ \A i \in 1..(Len(t) + 1) : g[i] = ContentFrom(t, g, i)
  <1> DEFINE n == Len(t)
             From(k, g) == g = [i \in ((n + 1) - k)..(n + 1) |-> ContentFrom(t, g, i)]
             S == {k \in Nat : k <= n => \E g : From(k, g)}
             it == CHOOSE g : g = [i \in 1..(n + 1) |-> ContentFrom(t, g, i)]
  <1>1. PrintContent(t) = it[1]
    BY DEF PrintContent, ContentFrom
  <1>2. n \in Nat
    BY LenProperties
  <1>3. 0 \in S
    <2> DEFINE h == [i \in (n + 1)..(n + 1) |-> ContentFrom(t, <<>>, i)]
    <2>1. \A i \in (n + 1)..(n + 1) : ContentFrom(t, <<>>, i) = ContentFrom(t, h, i)
      <3> SUFFICES ASSUME NEW i \in (n + 1)..(n + 1) PROVE ContentFrom(t, <<>>, i) = ContentFrom(t, h, i)
        OBVIOUS
      <3>1. i \in 1..(Len(t) + 1) /\ (i + 1)..(Len(t) + 1) = {}
        BY <1>2
      <3> HIDE DEF h
      <3> QED BY <3>1, ContentLater
    <2>2. (n + 1) - 0 = n + 1
      BY <1>2
    <2>3. From(0, h)
      BY <2>1, <2>2
    <2> HIDE DEF From
    <2> QED BY <2>3
  <1>4. ASSUME NEW k \in Nat, k \in S PROVE k + 1 \in S
    <2> SUFFICES ASSUME k + 1 <= n PROVE \E h : From(k + 1, h)
      OBVIOUS
    <2> DEFINE a == (n + 1) - (k + 1)
    <2>1. PICK g : From(k, g)
      <3> HIDE DEF From
      <3> QED BY <1>2, <1>4
    <2>2. a \in 1..(n + 1) /\ (n + 1) - k = a + 1 /\ a \in Nat
      BY <1>2
    <2> HIDE DEF a
    <2>3. \A i \in (a + 1)..(n + 1) : g[i] = ContentFrom(t, g, i)
      BY <2>1, <2>2
    <2> DEFINE h == [i \in a..(n + 1) |-> IF i = a THEN ContentFrom(t, g, a) ELSE g[i]]
    <2>4. \A i \in (a + 1)..(n + 1) : h[i] = g[i]
      BY <1>2, <2>2
    <2>5. ASSUME NEW i \in a..(n + 1)
          PROVE  (IF i = a THEN ContentFrom(t, g, a) ELSE g[i]) = ContentFrom(t, h, i)
      <3>1. i \in 1..(Len(t) + 1) /\ (i = a \/ i \in (a + 1)..(n + 1))
            /\ \A j \in (i + 1)..(Len(t) + 1) : j \in (a + 1)..(n + 1)
        BY <1>2, <2>2
      <3>2. ContentFrom(t, g, i) = ContentFrom(t, h, i)
        <4> HIDE DEF h, n
        <4> QED BY <2>4, <3>1, ContentLater
      <3> HIDE DEF h
      <3> QED BY <2>3, <3>1, <3>2
    <2>6. h = [i \in a..(n + 1) |-> ContentFrom(t, h, i)]
      <3> DEFINE u(i) == IF i = a THEN ContentFrom(t, g, a) ELSE g[i]
      <3>1. h = [i \in a..(n + 1) |-> u(i)]
        OBVIOUS
      <3>2. \A i \in a..(n + 1) : u(i) = ContentFrom(t, h, i)
        BY <2>5
      <3> HIDE DEF h, u
      <3> QED BY <3>1, <3>2
    <2>7. From(k + 1, h)
      <3> HIDE DEF h
      <3> QED BY <2>6 DEF a
    <2> HIDE DEF From
    <2> QED BY <2>7
  <1>5. \E g : From(n, g)
    <2> HIDE DEF From, S
    <2>1. Nat \subseteq S
      BY <1>3, <1>4, SetInduction
    <2> QED BY <1>2, <2>1 DEF S
  <1>6. (n + 1) - n = 1
    BY <1>2
  <1>7. it = [i \in 1..(n + 1) |-> ContentFrom(t, it, i)]
    BY <1>5, <1>6
  <1> HIDE DEF it
  <1>8. \A i \in 1..(n + 1) : it[i] = ContentFrom(t, it, i)
    BY <1>7
  <1> QED BY <1>1, <1>8

\* Where a text can be cut: before position i.
Boundary(t, i) == i \in DOMAIN t => t[i] # "c"

\* Whole letters, and no slash has part of one among the two bytes after it.
Uncut(t) ==
  /\ WholeLetters(t)
  /\ \A s \in DOMAIN t : t[s] = "/" =>
       ~\E i \in {s + 1, s + 2} \intersect DOMAIN t : t[i] \in {"L", "c"}

\* Part of a text.
LEMMA PartOf ==
  ASSUME NEW t \in Seq(Bytes), NEW i \in 1..(Len(t) + 1), NEW e \in i..(Len(t) + 1)
  PROVE  LET b == SubSeq(t, i, e - 1)
         IN  /\ b \in Seq(Bytes) /\ Len(b) = e - i /\ DOMAIN b = 1..(e - i)
             /\ \A k \in 1..(e - i) : b[k] = t[(i + k) - 1]
             /\ b = <<>> <=> e = i
  <1> DEFINE b == SubSeq(t, i, e - 1)
  <1>1. Len(t) \in Nat /\ i \in Nat /\ e \in Nat /\ i <= e
    BY LenProperties
  <1>2. \A k \in i..(e - 1) : t[k] \in Bytes
    BY <1>1, ElementOfSeq
  <1>3. /\ b \in Seq(Bytes) /\ Len(b) = (IF i <= e - 1 THEN ((e - 1) - i) + 1 ELSE 0)
        /\ \A k \in 1..(((e - 1) - i) + 1) : b[k] = t[(i + k) - 1]
    <2>1. i \in Int /\ e - 1 \in Int
      BY <1>1
    <2> QED BY <1>2, <2>1, SubSeqProperties
  <1> HIDE DEF b
  <1>4. ((e - 1) - i) + 1 = e - i /\ Len(b) = e - i
    BY <1>1, <1>3
  <1>5. DOMAIN b = 1..(e - i)
    BY <1>3, <1>4, LenProperties
  <1>6. b = <<>> <=> e = i
    <2>1. b = <<>> <=> Len(b) = 0
      BY <1>3, EmptySeq
    <2> QED BY <1>1, <1>4, <2>1
  <1> QED BY <1>3, <1>4, <1>5, <1>6 DEF b

\* What stands between two places where a text can be cut is whole.
LEMMA WholePart ==
  ASSUME NEW t \in Seq(Bytes), NEW i \in 1..(Len(t) + 1), NEW e \in i..(Len(t) + 1),
         WholeLetters(t), Boundary(t, i), Boundary(t, e)
  PROVE  WholeLetters(SubSeq(t, i, e - 1))
  <1> DEFINE b == SubSeq(t, i, e - 1)
  <1>1. /\ Len(t) \in Nat /\ i \in Nat /\ e \in Nat /\ DOMAIN t = 1..Len(t)
        /\ 1 <= i /\ i <= e /\ e <= Len(t) + 1
    BY LenProperties
  <1>2. /\ Len(b) = e - i /\ DOMAIN b = 1..(e - i)
        /\ \A k \in 1..(e - i) : b[k] = t[(i + k) - 1]
    BY PartOf
  <1> HIDE DEF b
  <1> SUFFICES ASSUME NEW k \in 1..(e - i)
               PROVE  /\ b[k] = "L" => k + 2 <= Len(b) /\ b[k + 1] = "c" /\ b[k + 2] = "c"
                      /\ b[k] = "c" => \/ k > 1 /\ b[k - 1] = "L"
                                       \/ k > 2 /\ b[k - 2] = "L"
    BY <1>2 DEF WholeLetters, b
  <1> DEFINE m == (i + k) - 1
  <1>3. m \in 1..Len(t) /\ b[k] = t[m] /\ k \in Nat /\ 1 <= k /\ k <= e - i
    BY <1>1, <1>2
  <1>4. /\ t[m] = "L" => m + 2 <= Len(t) /\ t[m + 1] = "c" /\ t[m + 2] = "c"
        /\ t[m] = "c" => \/ m > 1 /\ t[m - 1] = "L"
                         \/ m > 2 /\ t[m - 2] = "L"
    BY <1>1, <1>3 DEF WholeLetters
  <1>5. ASSUME b[k] = "L" PROVE k + 2 <= Len(b) /\ b[k + 1] = "c" /\ b[k + 2] = "c"
    <2>1. m + 2 <= Len(t) /\ t[m + 1] = "c" /\ t[m + 2] = "c"
      BY <1>3, <1>4, <1>5
    <2>2. e # m + 1 /\ e # m + 2
      BY <1>1, <1>3, <2>1 DEF Boundary
    <2>3. k + 2 <= e - i /\ k + 1 \in 1..(e - i) /\ k + 2 \in 1..(e - i)
          /\ (i + (k + 1)) - 1 = m + 1 /\ (i + (k + 2)) - 1 = m + 2
      BY <1>1, <1>3, <2>2
    <2> QED BY <1>2, <2>1, <2>3
  <1>6. ASSUME b[k] = "c" PROVE \/ k > 1 /\ b[k - 1] = "L"
                                \/ k > 2 /\ b[k - 2] = "L"
    <2>1. m # i
      BY <1>1, <1>3, <1>6 DEF Boundary
    <2>2. k > 1 /\ k - 1 \in 1..(e - i) /\ (i + (k - 1)) - 1 = m - 1
      BY <1>1, <1>3, <2>1
    <2>3. CASE t[m - 1] = "L"
      BY <1>2, <2>2, <2>3
    <2>4. CASE m > 2 /\ t[m - 2] = "L"
      <3>1. t[m - 2] = "L" => t[m - 1] = "c"
        <4>1. m - 2 \in 1..Len(t) /\ (m - 2) + 1 = m - 1
          BY <1>3, <2>4
        <4> QED BY <1>1, <4>1 DEF WholeLetters
      <3>2. m - 1 # i
        BY <1>1, <1>3, <2>2, <2>4, <3>1 DEF Boundary
      <3>3. k > 2 /\ k - 2 \in 1..(e - i) /\ (i + (k - 2)) - 1 = m - 2
        <4>1. k # 2
          BY <1>1, <3>2
        <4>2. k \in Nat /\ k > 1 /\ k <= e - i /\ e - i \in Nat
          BY <1>1, <1>3, <2>2
        <4>3. k > 2 /\ k - 2 \in 1..(e - i)
          BY <4>1, <4>2
        <4> QED BY <1>1, <4>2, <4>3
      <3> QED BY <1>2, <2>4, <3>3
    <2> QED BY <1>3, <1>4, <1>6, <2>3, <2>4
  <1> QED BY <1>5, <1>6

\* What is inserted is nothing or the bytes, and whole letters are inserted.
LEMMA Inserted ==
  ASSUME NEW b \in Seq(Bytes)
  PROVE  /\ Insert(b) \in {<<>>, <<[sticker |-> FALSE, bytes |-> b]>>}
         /\ PrintSticker(b) \in {<<>>, <<[sticker |-> TRUE, bytes |-> b]>>, <<[sticker |-> FALSE, bytes |-> b]>>}
         /\ Insert(<<>>) = <<>>
         /\ b \in StickerCodes => PrintSticker(b) = <<[sticker |-> TRUE, bytes |-> b]>>
         /\ b # <<>> /\ WholeLetters(b) =>
              Insert(b) = <<[sticker |-> FALSE, bytes |-> b]>> /\ PrintSticker(b) # <<>>
  BY Zenon DEF Insert, PrintSticker

\* Where the codes are that PrintedAsWritten speaks of.
CodesOf(t) == {s \in 1..(Len(t) - 2) :
                 /\ SubSeq(t, s, s + 2) \in StickerCodes
                 /\ \A r \in {s - 1, s - 2} \intersect DOMAIN t : t[r] # "/"}

\* A code is a slash and two bytes.
LEMMA CodesAreSlashes ==
  ASSUME NEW t \in Seq(Bytes), NEW s \in CodesOf(t)
  PROVE  /\ s \in 1..(Len(t) - 2) /\ t[s] = "/"
         /\ SubSeq(t, s, s + 2) \in StickerCodes
         /\ s - 1 \in 1..Len(t) => t[s - 1] # "/"
         /\ s - 2 \in 1..Len(t) => t[s - 2] # "/"
  <1>1. s \in 1..(Len(t) - 2) /\ Len(t) \in Nat /\ DOMAIN t = 1..Len(t)
    BY LenProperties DEF CodesOf
  <1>2. s \in 1..(Len(t) + 1) /\ s + 3 \in s..(Len(t) + 1) /\ (s + 3) - 1 = s + 2 /\ 1 \in 1..((s + 3) - s)
        /\ (s + 1) - 1 = s
    BY <1>1
  <1>3. SubSeq(t, s, s + 2)[1] = t[s]
    BY <1>2, PartOf
  <1>4. \A b \in StickerCodes : b[1] = "/"
    BY DEF StickerCodes
  <1> QED BY <1>1, <1>3, <1>4 DEF CodesOf

Pieces == Seq([sticker : BOOLEAN, bytes : Seq(Bytes)])

\* The pieces p show bytes of t from position i on, in their order: piece j the
\* bytes from at[j] on.  Every code is shown as a sticker.
Shows(t, p, i, at) ==
  /\ p \in Pieces
  /\ at \in [1..(Len(p) + 1) -> i..(Len(t) + 1)]
  /\ \A j \in 1..Len(p) :
       /\ at[j] + Len(p[j].bytes) <= at[j + 1]
       /\ p[j].bytes = SubSeq(t, at[j], (at[j] + Len(p[j].bytes)) - 1)
  /\ \A s \in CodesOf(t) : s >= i =>
       \E j \in 1..Len(p) : p[j].sticker /\ p[j].bytes = SubSeq(t, s, s + 2) /\ at[j] = s

\* Every byte is shown.
Keeps(t, p, i, at) ==
  /\ at[1] = i /\ at[Len(p) + 1] = Len(t) + 1
  /\ \A j \in 1..Len(p) : at[j] + Len(p[j].bytes) = at[j + 1]

\* A piece before the others.
LEMMA PieceFirst ==
  ASSUME NEW t \in Seq(Bytes), NEW i \in 1..(Len(t) + 1), NEW e \in i..(Len(t) + 1),
         NEW q, NEW aq, Shows(t, q, e, aq),
         NEW x \in BOOLEAN,
         \A s \in CodesOf(t) : s >= i /\ s < e => x /\ s = i /\ e = s + 3
  PROVE  LET p == <<[sticker |-> x, bytes |-> SubSeq(t, i, e - 1)]>> \o q
         IN  \E at : Shows(t, p, i, at) /\ (Keeps(t, q, e, aq) => Keeps(t, p, i, at))
  <1> DEFINE b == SubSeq(t, i, e - 1)
             z == [sticker |-> x, bytes |-> b]
             p == <<z>> \o q
             n == Len(q)
             at == [j \in 1..((n + 1) + 1) |-> IF j = 1 THEN i ELSE aq[j - 1]]
  <1>1. /\ Len(t) \in Nat /\ i \in Nat /\ e \in Nat /\ i <= e /\ e <= Len(t) + 1
        /\ q \in Pieces /\ n \in Nat
        /\ aq \in [1..(n + 1) -> e..(Len(t) + 1)]
    BY LenProperties DEF Shows, Pieces
  <1>2. b \in Seq(Bytes) /\ Len(b) = e - i
    BY PartOf
  <1>3. /\ p \in Pieces /\ Len(p) = n + 1 /\ p[1] = z
        /\ \A j \in 1..n : p[j + 1] = q[j]
    <2>1. z \in [sticker : BOOLEAN, bytes : Seq(Bytes)]
      BY <1>2
    <2> HIDE DEF z, p
    <2>2. /\ <<z>> \in Pieces /\ Len(<<z>>) = 1 /\ <<z>>[1] = z
      BY <2>1 DEF Pieces
    <2>3. /\ p \in Pieces /\ Len(p) = 1 + n
          /\ \A j \in 1..(1 + n) : p[j] = IF j <= 1 THEN <<z>>[j] ELSE q[j - 1]
      BY <1>1, <2>2, ConcatProperties DEF Pieces, p
    <2>4. \A j \in 1..n : j + 1 \in 1..(1 + n) /\ ~(j + 1 <= 1) /\ (j + 1) - 1 = j
      BY <1>1
    <2> HIDE DEF n
    <2> QED BY <1>1, <2>2, <2>3, <2>4
  <1>4. z.sticker = x /\ z.bytes = b
    OBVIOUS
  <1> HIDE DEF z, p, n
  <1>5. /\ at \in [1..((n + 1) + 1) -> i..(Len(t) + 1)]
        /\ at[1] = i /\ \A j \in 1..(n + 1) : at[j + 1] = aq[j]
    BY <1>1
  <1> HIDE DEF at, b
  <1>6. ASSUME NEW j \in 1..(n + 1)
        PROVE  /\ at[j] + Len(p[j].bytes) <= at[j + 1]
               /\ p[j].bytes = SubSeq(t, at[j], (at[j] + Len(p[j].bytes)) - 1)
               /\ Keeps(t, q, e, aq) => at[j] + Len(p[j].bytes) = at[j + 1]
    <2>1. CASE j = 1
      <3>1. at[1] = i /\ at[1 + 1] = aq[1] /\ aq[1] \in e..(Len(t) + 1) /\ p[1].bytes = b /\ i + Len(b) = e
        <4>1. 1 \in 1..(n + 1) /\ i + (e - i) = e
          BY <1>1
        <4> QED BY <1>1, <1>2, <1>3, <1>4, <1>5, <4>1
      <3>2. Keeps(t, q, e, aq) => aq[1] = e
        BY DEF Keeps
      <3>3. e <= aq[1]
        BY <1>1, <3>1
      <3> QED BY <2>1, <3>1, <3>2, <3>3 DEF b
    <2>2. CASE j # 1
      <3> DEFINE k == j - 1
      <3>1. k \in 1..n /\ k + 1 = j /\ k \in 1..(n + 1) /\ k + 1 \in 1..(n + 1)
        BY <1>1, <2>2
      <3> HIDE DEF k
      <3>2. p[j] = q[k] /\ at[j] = aq[k] /\ at[j + 1] = aq[k + 1]
        BY <1>3, <1>5, <3>1
      <3>3. /\ aq[k] + Len(q[k].bytes) <= aq[k + 1]
            /\ q[k].bytes = SubSeq(t, aq[k], (aq[k] + Len(q[k].bytes)) - 1)
            /\ Keeps(t, q, e, aq) => aq[k] + Len(q[k].bytes) = aq[k + 1]
        BY <3>1 DEF Shows, Keeps, n
      <3> QED BY <3>2, <3>3
    <2> QED BY <2>1, <2>2
  <1>7. ASSUME NEW s \in CodesOf(t), s >= i
        PROVE  \E j \in 1..(n + 1) : p[j].sticker /\ p[j].bytes = SubSeq(t, s, s + 2) /\ at[j] = s
    <2>0. s \in Nat
      BY CodesAreSlashes
    <2>1. CASE s < e
      <3>1. 1 \in 1..(n + 1) /\ x /\ s = i /\ e = s + 3 /\ (s + 3) - 1 = s + 2
        BY <1>1, <1>7, <2>0, <2>1
      <3>2. p[1].sticker /\ p[1].bytes = SubSeq(t, s, s + 2) /\ at[1] = s
        BY <1>3, <1>4, <1>5, <3>1 DEF b
      <3> QED BY <3>1, <3>2
    <2>2. CASE s >= e
      <3>1. PICK j \in 1..n : q[j].sticker /\ q[j].bytes = SubSeq(t, s, s + 2) /\ aq[j] = s
        BY <2>2 DEF Shows, n
      <3>2. j + 1 \in 1..(n + 1) /\ j \in 1..(n + 1)
        BY <1>1
      <3> QED BY <1>3, <1>5, <3>1, <3>2
    <2>3. s < e \/ s >= e
      BY <1>1, <2>0
    <2> QED BY <2>1, <2>2, <2>3
  <1>8. Shows(t, p, i, at)
    BY <1>3, <1>5, <1>6, <1>7 DEF Shows
  <1>9. ASSUME Keeps(t, q, e, aq) PROVE Keeps(t, p, i, at)
    <2>1. at[(n + 1) + 1] = Len(t) + 1
      <3>1. n + 1 \in 1..(n + 1)
        BY <1>1
      <3> QED BY <1>5, <1>9, <3>1 DEF Keeps, n
    <2> QED BY <1>3, <1>5, <1>6, <1>9, <2>1 DEF Keeps
  <1> QED BY <1>8, <1>9 DEF p, z, b

\* Nothing before the others.
LEMMA NoPieceFirst ==
  ASSUME NEW t \in Seq(Bytes), NEW i \in 1..(Len(t) + 1), NEW e \in i..(Len(t) + 1),
         NEW q, NEW aq, Shows(t, q, e, aq),
         \A s \in CodesOf(t) : ~(s >= i /\ s < e)
  PROVE  Shows(t, q, i, aq)
  <1>1. Len(t) \in Nat /\ i \in Nat /\ e \in Nat /\ i <= e /\ e..(Len(t) + 1) \subseteq i..(Len(t) + 1)
    BY LenProperties
  <1>2. \A s \in CodesOf(t) : s >= i => s >= e
    <2>1. \A s \in CodesOf(t) : s \in Nat
      BY CodesAreSlashes
    <2> QED BY <1>1, <2>1
  <1>3. aq \in [1..(Len(q) + 1) -> i..(Len(t) + 1)]
    BY <1>1 DEF Shows
  <1> QED BY <1>2, <1>3 DEF Shows

\* What is inserted from i on, once it is known for the later positions.
Inserts(t, g, i) ==
  \E at : Shows(t, g[i], i, at) /\ (Uncut(t) /\ Boundary(t, i) => Keeps(t, g[i], i, at))

\* The part of the text up to e, which has no slash, and then q.
LEMMA PartFirst ==
  ASSUME NEW t \in Seq(Bytes), NEW i \in 1..(Len(t) + 1), NEW e \in i..(Len(t) + 1),
         \A k \in i..(e - 1) : t[k] # "/",
         NEW q, NEW aq, Shows(t, q, e, aq)
  PROVE  \E at : /\ Shows(t, Insert(SubSeq(t, i, e - 1)) \o q, i, at)
                 /\ WholeLetters(t) /\ Boundary(t, i) /\ Boundary(t, e) /\ Keeps(t, q, e, aq)
                    => Keeps(t, Insert(SubSeq(t, i, e - 1)) \o q, i, at)
  <1> DEFINE b == SubSeq(t, i, e - 1)
             p == <<[sticker |-> FALSE, bytes |-> b]>> \o q
  <1>1. b \in Seq(Bytes) /\ (b = <<>> <=> e = i)
    BY PartOf
  <1>2. \A s \in CodesOf(t) : ~(s >= i /\ s < e)
    <2> SUFFICES ASSUME NEW s \in CodesOf(t), s >= i, s < e PROVE FALSE
      OBVIOUS
    <2>1. s \in Nat /\ t[s] = "/"
      BY CodesAreSlashes
    <2>2. s \in i..(e - 1)
      BY <2>1, LenProperties
    <2> QED BY <2>1, <2>2
  <1>3. Insert(b) = <<>> \/ Insert(b) = <<[sticker |-> FALSE, bytes |-> b]>>
    BY <1>1, Inserted
  <1>4. CASE Insert(b) = <<>>
    <2>1. Insert(b) \o q = q
      BY <1>4, ConcatEmptySeq DEF Shows, Pieces
    <2>2. Shows(t, q, i, aq)
      BY <1>2, NoPieceFirst
    <2>3. ASSUME WholeLetters(t), Boundary(t, i), Boundary(t, e), Keeps(t, q, e, aq)
          PROVE  Keeps(t, q, i, aq)
      <3>1. WholeLetters(b)
        BY <2>3, WholePart
      <3> HIDE DEF b
      <3>2. b = <<>>
        <4>1. <<[sticker |-> FALSE, bytes |-> b]>> # <<>>
          OBVIOUS
        <4> QED BY <1>1, <1>4, <3>1, <4>1, Inserted
      <3> QED BY <1>1, <2>3, <3>2
    <2> HIDE DEF b
    <2> QED BY <2>1, <2>2, <2>3 DEF b
  <1>5. CASE Insert(b) = <<[sticker |-> FALSE, bytes |-> b]>>
    <2>1. \A s \in CodesOf(t) : s >= i /\ s < e => FALSE /\ s = i /\ e = s + 3
      BY <1>2
    <2>2. \E at : Shows(t, p, i, at) /\ (Keeps(t, q, e, aq) => Keeps(t, p, i, at))
      <3>1. FALSE \in BOOLEAN
        OBVIOUS
      <3> QED BY <2>1, <3>1, PieceFirst
    <2> QED BY <1>5, <2>2
  <1> QED BY <1>3, <1>4, <1>5

\* After a slash, and after the two bytes that follow it, a text can be cut.
LEMMA SlashCuts ==
  ASSUME NEW t \in Seq(Bytes), NEW s \in 1..Len(t), t[s] = "/", Uncut(t),
         NEW e, e = s + 1 \/ e = s + 3
  PROVE  Boundary(t, e)
  <1> SUFFICES ASSUME e \in DOMAIN t, t[e] = "c" PROVE FALSE
    BY DEF Boundary
  <1>1. Len(t) \in Nat /\ s \in Nat /\ DOMAIN t = 1..Len(t) /\ e \in Nat
    BY LenProperties
  <1>2. \A i \in {s + 1, s + 2} \intersect DOMAIN t : t[i] \notin {"L", "c"}
    BY <1>1 DEF Uncut
  <1>3. e # s + 1
    BY <1>2
  <1>4. /\ e = s + 3 /\ s + 1 \in DOMAIN t /\ s + 2 \in DOMAIN t
        /\ e - 1 = s + 2 /\ e - 2 = s + 1
    BY <1>1, <1>3
  <1>5. t[e - 1] = "L" \/ t[e - 2] = "L"
    BY DEF Uncut, WholeLetters
  <1> QED BY <1>2, <1>4, <1>5

\* One or three bytes that begin with a slash, and then q.
LEMMA SlashFirst ==
  ASSUME NEW t \in Seq(Bytes), NEW s \in 1..Len(t), t[s] = "/",
         NEW e, NEW c, NEW q, NEW aq, Shows(t, q, e, aq),
         \/ s + 2 <= Len(t) /\ e = s + 3 /\ c = PrintSticker(SubSeq(t, s, s + 2))
         \/ ~(s + 2 <= Len(t)) /\ e = s + 1 /\ c = Insert(<<"/">>)
  PROVE  \E at : /\ Shows(t, c \o q, s, at)
                 /\ Uncut(t) /\ Keeps(t, q, e, aq) => Keeps(t, c \o q, s, at)
  <1> DEFINE b == SubSeq(t, s, e - 1)
             p(x) == <<[sticker |-> x, bytes |-> b]>> \o q
  <1>1. /\ Len(t) \in Nat /\ s \in Nat /\ DOMAIN t = 1..Len(t) /\ s \in 1..(Len(t) + 1)
        /\ e \in s..(Len(t) + 1) /\ e # s
    BY LenProperties
  <1>2. b \in Seq(Bytes) /\ b # <<>>
    BY <1>1, PartOf
  <1>3. \/ s + 2 <= Len(t) /\ e = s + 3 /\ c = PrintSticker(b)
        \/ ~(s + 2 <= Len(t)) /\ e = s + 1 /\ c = Insert(b)
    <2>1. CASE s + 2 <= Len(t) /\ e = s + 3 /\ c = PrintSticker(SubSeq(t, s, s + 2))
      <3>1. (s + 3) - 1 = s + 2
        BY <1>1
      <3> QED BY <2>1, <3>1
    <2>2. CASE ~(s + 2 <= Len(t)) /\ e = s + 1 /\ c = Insert(<<"/">>)
      <3>1. Len(b) = 1 /\ b[1] = "/"
        <4>1. e - s = 1 /\ 1 \in 1..(e - s) /\ (s + 1) - 1 = s
          BY <1>1, <2>2
        <4> QED BY <1>1, <4>1, PartOf
      <3>2. b = <<"/">>
        <4> HIDE DEF b
        <4> QED BY <1>2, <3>1
      <3> HIDE DEF b
      <3> QED BY <2>2, <3>2
    <2> QED BY <2>1, <2>2
  <1>4. ASSUME NEW k \in CodesOf(t), k >= s, k < e
        PROVE  k = s /\ e = s + 3 /\ c = <<[sticker |-> TRUE, bytes |-> b]>>
    <2>1. /\ k \in 1..(Len(t) - 2) /\ SubSeq(t, k, k + 2) \in StickerCodes
          /\ k - 1 \in 1..Len(t) => t[k - 1] # "/"
          /\ k - 2 \in 1..Len(t) => t[k - 2] # "/"
      BY CodesAreSlashes
    <2>2. k = s
      BY <1>1, <1>3, <1>4, <2>1
    <2>3. s + 2 <= Len(t) /\ (s + 3) - 1 = s + 2
      BY <1>1, <2>1, <2>2
    <2>4. e = s + 3 /\ c = PrintSticker(b)
      BY <1>3, <2>3
    <2>5. b \in StickerCodes
      BY <2>1, <2>2, <2>3, <2>4
    <2> HIDE DEF b
    <2> QED BY <1>2, <2>2, <2>4, <2>5, Inserted
  <1>5. \/ c = <<>> \/ \E x \in BOOLEAN : c = <<[sticker |-> x, bytes |-> b]>>
    <2> HIDE DEF b
    <2>1. PrintSticker(b) \in {<<>>, <<[sticker |-> TRUE, bytes |-> b]>>, <<[sticker |-> FALSE, bytes |-> b]>>}
          /\ Insert(b) \in {<<>>, <<[sticker |-> FALSE, bytes |-> b]>>}
      BY <1>2, Inserted
    <2>2. c \in {<<>>, <<[sticker |-> TRUE, bytes |-> b]>>, <<[sticker |-> FALSE, bytes |-> b]>>}
      BY <1>3, <2>1
    <2> QED BY <2>2
  <1>6. CASE c = <<>>
    <2>1. c \o q = q
      BY <1>6, ConcatEmptySeq DEF Shows, Pieces
    <2>2. \A k \in CodesOf(t) : ~(k >= s /\ k < e)
      <3> HIDE DEF b
      <3>1. c # <<[sticker |-> TRUE, bytes |-> b]>>
        BY <1>6
      <3> QED BY <1>4, <3>1
    <2>3. Shows(t, q, s, aq)
      BY <1>1, <2>2, NoPieceFirst
    <2>4. ~Uncut(t)
      <3> SUFFICES ASSUME Uncut(t) PROVE FALSE
        OBVIOUS
      <3>1. WholeLetters(b)
        <4>1. Boundary(t, s)
          BY DEF Boundary
        <4>2. Boundary(t, e)
          BY SlashCuts
        <4> QED BY <1>1, <4>1, <4>2, WholePart DEF Uncut
      <3> HIDE DEF b
      <3> QED BY <1>2, <1>3, <1>6, <3>1, Inserted
    <2> QED BY <2>1, <2>3, <2>4
  <1>7. ASSUME NEW x \in BOOLEAN, c = <<[sticker |-> x, bytes |-> b]>>
        PROVE  \E at : Shows(t, c \o q, s, at) /\ (Keeps(t, q, e, aq) => Keeps(t, c \o q, s, at))
    <2>1. \A k \in CodesOf(t) : k >= s /\ k < e => x /\ k = s /\ e = k + 3
      <3> HIDE DEF b
      <3>1. c = <<[sticker |-> TRUE, bytes |-> b]>> => x
        BY <1>7
      <3> QED BY <1>4, <3>1
    <2>2. \E at : Shows(t, p(x), s, at) /\ (Keeps(t, q, e, aq) => Keeps(t, p(x), s, at))
      BY <1>1, <2>1, PieceFirst
    <2> QED BY <1>7, <2>2
  <1> QED BY <1>5, <1>6, <1>7

\* One step of the recursion.
LEMMA ContentStep ==
  ASSUME NEW t \in Seq(Bytes), NEW i \in 1..(Len(t) + 1), NEW g,
         g[i] = ContentFrom(t, g, i),
         \A k \in (i + 1)..(Len(t) + 1) : Inserts(t, g, k)
  PROVE  Inserts(t, g, i)
  <1>1. Len(t) \in Nat /\ i \in Nat /\ i <= Len(t) + 1 /\ DOMAIN t = 1..Len(t)
    BY LenProperties
  <1>2. \A k \in i..Len(t) : k \in SlashesFrom(t, i) <=> t[k] = "/"
    BY DEF SlashesFrom
  <1>3. CASE SlashesFrom(t, i) = {}
    <2> DEFINE e == Len(t) + 1
               aq == [j \in {1} |-> e]
    <2>1. e \in i..(Len(t) + 1) /\ e - 1 = Len(t)
      BY <1>1
    <2>2. Shows(t, <<>>, e, aq) /\ Keeps(t, <<>>, e, aq)
      <3>1. <<>> \in Pieces /\ Len(<<>>) = 0 /\ 1..0 = {} /\ 1..(0 + 1) = {1}
        BY DEF Pieces
      <3>2. \A s \in CodesOf(t) : ~(s >= e)
        <4>1. \A s \in CodesOf(t) : s \in 1..(Len(t) - 2)
          BY CodesAreSlashes
        <4> QED BY <1>1, <4>1
      <3>3. aq \in [{1} -> e..(Len(t) + 1)] /\ aq[1] = e
        BY <1>1
      <3> HIDE DEF aq
      <3> QED BY <3>1, <3>2, <3>3 DEF Shows, Keeps
    <2>3. Boundary(t, e)
      BY <1>1 DEF Boundary
    <2> HIDE DEF aq
    <2>4. \A k \in i..(e - 1) : t[k] # "/"
      BY <1>2, <1>3, <2>1
    <2> HIDE DEF e
    <2>5. PICK at : /\ Shows(t, Insert(SubSeq(t, i, e - 1)) \o <<>>, i, at)
                    /\ WholeLetters(t) /\ Boundary(t, i) /\ Boundary(t, e) /\ Keeps(t, <<>>, e, aq)
                       => Keeps(t, Insert(SubSeq(t, i, e - 1)) \o <<>>, i, at)
      BY <2>1, <2>2, <2>4, PartFirst
    <2>6. Insert(SubSeq(t, i, e - 1)) \o <<>> = g[i]
      <3>1. Insert(SubSeq(t, i, e - 1)) = g[i]
        BY <1>3, <2>1, Zenon DEF ContentFrom
      <3>2. SubSeq(t, i, e - 1) \in Seq(Bytes)
        BY <2>1, PartOf
      <3>3. Insert(SubSeq(t, i, e - 1)) \in Pieces
        <4> DEFINE b == SubSeq(t, i, e - 1)
        <4>1. b \in Seq(Bytes)
          BY <3>2
        <4> HIDE DEF b
        <4>2. <<>> \in Pieces /\ <<[sticker |-> FALSE, bytes |-> b]>> \in Pieces
          BY <4>1 DEF Pieces
        <4>3. Insert(b) \in Pieces
          BY <4>1, <4>2, Inserted
        <4> QED BY <4>3 DEF b
      <3> QED BY <3>1, <3>3, ConcatEmptySeq DEF Pieces
    <2> QED BY <2>2, <2>3, <2>5, <2>6 DEF Inserts, Uncut
  <1>4. CASE SlashesFrom(t, i) # {}
    <2> DEFINE s == FirstSlash(t, i)
               e == IF s + 2 <= Len(t) THEN s + 3 ELSE s + 1
               c == IF s + 2 <= Len(t) THEN PrintSticker(SubSeq(t, s, s + 2)) ELSE Insert(<<"/">>)
    <2>1. /\ s \in i..Len(t) /\ t[s] = "/"
          /\ \A k \in i..Len(t) : k < s => t[k] # "/"
      BY <1>4, FirstSlashFrom
    <2>2. g[i] = Insert(SubSeq(t, i, s - 1)) \o (c \o g[e])
      BY <1>4, Zenon DEF ContentFrom
    <2>3. \/ s + 2 <= Len(t) /\ e = s + 3 /\ c = PrintSticker(SubSeq(t, s, s + 2))
          \/ ~(s + 2 <= Len(t)) /\ e = s + 1 /\ c = Insert(<<"/">>)
      BY Zenon
    <2> HIDE DEF c, e, s
    <2>4. /\ s \in 1..Len(t) /\ s \in i..(Len(t) + 1) /\ e \in (i + 1)..(Len(t) + 1)
          /\ \A k \in i..(s - 1) : t[k] # "/"
      BY <1>1, <2>1, <2>3
    <2>5. PICK aq : Shows(t, g[e], e, aq) /\ (Uncut(t) /\ Boundary(t, e) => Keeps(t, g[e], e, aq))
      BY <2>4 DEF Inserts
    <2>6. PICK as : /\ Shows(t, c \o g[e], s, as)
                    /\ Uncut(t) /\ Keeps(t, g[e], e, aq) => Keeps(t, c \o g[e], s, as)
      BY <2>1, <2>3, <2>4, <2>5, SlashFirst
    <2>7. Uncut(t) => Boundary(t, e)
      BY <2>1, <2>3, <2>4, SlashCuts
    <2>8. Boundary(t, s)
      BY <2>1 DEF Boundary
    <2>9. PICK at : /\ Shows(t, Insert(SubSeq(t, i, s - 1)) \o (c \o g[e]), i, at)
                    /\ WholeLetters(t) /\ Boundary(t, i) /\ Boundary(t, s) /\ Keeps(t, c \o g[e], s, as)
                       => Keeps(t, Insert(SubSeq(t, i, s - 1)) \o (c \o g[e]), i, at)
      BY <2>4, <2>6, PartFirst
    <2> QED BY <2>2, <2>5, <2>6, <2>7, <2>8, <2>9 DEF Inserts, Uncut
  <1> QED BY <1>3, <1>4

\* What PrintContent inserts of a text.
LEMMA ContentShown ==
  ASSUME NEW t \in Seq(Bytes)
  PROVE  \E at : /\ Shows(t, PrintContent(t), 1, at)
                 /\ Uncut(t) => Keeps(t, PrintContent(t), 1, at)
  <1> DEFINE n == Len(t)
  <1>1. PICK g : /\ PrintContent(t) = g[1]
                 /\ \A i \in 1..(n + 1) : g[i] = ContentFrom(t, g, i)
    BY ContentDefined
  <1>2. n \in Nat /\ DOMAIN t = 1..n
    BY LenProperties
  <1> DEFINE S == {k \in Nat : \A i \in 1..(n + 1) : i + k >= n + 1 => Inserts(t, g, i)}
  <1>3. 0 \in S
    <2> SUFFICES ASSUME NEW i \in 1..(n + 1), i + 0 >= n + 1 PROVE Inserts(t, g, i)
      OBVIOUS
    <2>1. (i + 1)..(n + 1) = {}
      BY <1>2
    <2> QED BY <1>1, <2>1, ContentStep
  <1>4. ASSUME NEW k \in Nat, k \in S PROVE k + 1 \in S
    <2> SUFFICES ASSUME NEW i \in 1..(n + 1), i + (k + 1) >= n + 1 PROVE Inserts(t, g, i)
      OBVIOUS
    <2>1. \A j \in (i + 1)..(n + 1) : j \in 1..(n + 1) /\ j + k >= n + 1
      BY <1>2
    <2>2. \A j \in (i + 1)..(n + 1) : Inserts(t, g, j)
      BY <1>4, <2>1
    <2> QED BY <1>1, <2>2, ContentStep
  <1>5. Inserts(t, g, 1)
    <2> HIDE DEF S
    <2>1. Nat \subseteq S
      BY <1>3, <1>4, SetInduction
    <2>2. 1 \in 1..(n + 1) /\ 1 + n >= n + 1
      BY <1>2
    <2> QED BY <1>2, <2>1, <2>2 DEF S
  <1>6. Uncut(t) => Boundary(t, 1)
    <2> SUFFICES ASSUME WholeLetters(t), 1 \in DOMAIN t, t[1] = "c" PROVE FALSE
      BY DEF Boundary, Uncut
    <2> QED BY DEF WholeLetters
  <1> QED BY <1>1, <1>5, <1>6 DEF Inserts

\* The bytes of the first n pieces.
BytesOf(p, n) == FlattenSeq([j \in 1..n |-> p[j].bytes])

\* What stands before a piece on the screen.
LEMMA ShownBefore ==
  ASSUME NEW t \in Seq(Bytes), NEW p, NEW at, Shows(t, p, 1, at),
         NEW n \in 0..Len(p)
  PROVE  /\ Len(BytesOf(p, n)) \in Nat /\ Len(BytesOf(p, n)) < at[n + 1]
         /\ Keeps(t, p, 1, at) => BytesOf(p, n) = SubSeq(t, 1, at[n + 1] - 1)
  <1> DEFINE ss == [j \in 1..n |-> p[j].bytes]
  <1>1. /\ Len(t) \in Nat /\ Len(p) \in Nat /\ n \in Nat
        /\ at \in [1..(Len(p) + 1) -> 1..(Len(t) + 1)]
        /\ \A j \in 1..n : j \in 1..Len(p) /\ j + 1 \in 1..(Len(p) + 1) /\ j \in 1..(Len(p) + 1)
    BY LenProperties DEF Shows, Pieces
  <1>2. \A j \in 1..Len(p) : p[j].bytes \in Seq(Bytes) /\ Len(p[j].bytes) \in Nat
    <2>1. \A j \in 1..Len(p) : p[j].bytes \in Seq(Bytes)
      <3>1. \A j \in 1..Len(p) : p[j] \in [sticker : BOOLEAN, bytes : Seq(Bytes)]
        BY ElementOfSeq DEF Shows, Pieces
      <3> QED BY <3>1
    <2> QED BY <2>1, LenProperties
  <1>3. ss \in [1..n -> Seq(Bytes)]
    BY <1>1, <1>2
  <1>4. \A j \in 1..n : ss[j] = p[j].bytes
    OBVIOUS
  <1> HIDE DEF ss
  <1>5. CASE n = 0
    <2>1. FlattenSeq(ss) = <<>>
      <3>1. ss \in Seq(Seq(Bytes)) /\ Len(ss) = 0
        BY <1>3, <1>5
      <3>2. ss = <<>>
        BY <3>1, EmptySeq
      <3> QED BY <3>1, <3>2 DEF FlattenSeq
    <2>2. Len(<<>>) = 0 /\ at[1] \in 1..(Len(t) + 1) /\ 0 + 1 = 1
      BY <1>1
    <2>3. Keeps(t, p, 1, at) => SubSeq(t, 1, at[1] - 1) = <<>>
      BY SubSeqEmpty DEF Keeps
    <2>4. Len(FlattenSeq(ss)) \in Nat /\ Len(FlattenSeq(ss)) < at[n + 1]
      BY <1>1, <1>5, <2>1, <2>2
    <2>5. Keeps(t, p, 1, at) => FlattenSeq(ss) = SubSeq(t, 1, at[n + 1] - 1)
      BY <1>5, <2>1, <2>2, <2>3
    <2> QED BY <2>4, <2>5 DEF ss, BytesOf
  <1>6. CASE n # 0
    <2>1. PICK w : /\ FlattenSeq(ss) = w[n] /\ w[1] = ss[1]
                   /\ \A k \in 2..n : w[k] = w[k - 1] \o ss[k]
      BY <1>1, <1>3, <1>6, Flattened
    <2> DEFINE Good(k) == /\ w[k] \in Seq(Bytes)
                          /\ Len(w[k]) < at[k + 1]
                          /\ Keeps(t, p, 1, at) => w[k] = SubSeq(t, 1, at[k + 1] - 1)
               S == {k \in Nat : k \in 1..n => Good(k)}
    <2>2. 0 \in S
      OBVIOUS
    <2>3. ASSUME NEW k \in Nat, k \in S, k + 1 \in 1..n PROVE Good(k + 1)
      <3> DEFINE m == k + 1
      <3>1. /\ m \in 1..n /\ m \in 1..Len(p) /\ at[m] \in 1..(Len(t) + 1) /\ at[m + 1] \in 1..(Len(t) + 1)
            /\ ss[m] = p[m].bytes /\ ss[m] \in Seq(Bytes) /\ Len(ss[m]) \in Nat
            /\ m - 1 = k /\ at[m] + Len(ss[m]) <= at[m + 1]
            /\ ss[m] = SubSeq(t, at[m], (at[m] + Len(ss[m])) - 1)
            /\ Keeps(t, p, 1, at) => at[m] + Len(ss[m]) = at[m + 1]
        <4>1. m \in 1..n /\ m - 1 = k /\ m \in 1..Len(p) /\ m \in 1..(Len(p) + 1) /\ m + 1 \in 1..(Len(p) + 1)
          BY <1>1, <2>3
        <4> HIDE DEF m
        <4>2. ss[m] = p[m].bytes /\ ss[m] \in Seq(Bytes) /\ Len(ss[m]) \in Nat
          BY <1>2, <1>4, <4>1
        <4>3. at[m] \in 1..(Len(t) + 1) /\ at[m + 1] \in 1..(Len(t) + 1)
          BY <1>1, <4>1
        <4>4. /\ at[m] + Len(p[m].bytes) <= at[m + 1]
              /\ p[m].bytes = SubSeq(t, at[m], (at[m] + Len(p[m].bytes)) - 1)
              /\ Keeps(t, p, 1, at) => at[m] + Len(p[m].bytes) = at[m + 1]
          BY <4>1 DEF Shows, Keeps
        <4> QED BY <4>1, <4>2, <4>3, <4>4
      <3> HIDE DEF m
      <3>2. CASE k = 0
        <4>1. m = 1 /\ w[m] = ss[m]
          BY <2>1, <3>1, <3>2
        <4>2. Keeps(t, p, 1, at) => at[m] = 1
          BY <4>1 DEF Keeps
        <4>3. Keeps(t, p, 1, at) => w[m] = SubSeq(t, 1, at[m + 1] - 1)
          BY <3>1, <4>1, <4>2
        <4>4. Len(w[m]) < at[m + 1]
          BY <1>1, <3>1, <4>1
        <4> QED BY <3>1, <4>1, <4>3, <4>4 DEF m
      <3>3. CASE k # 0
        <4>1. k \in 1..n /\ m \in 2..n
          BY <1>1, <2>3, <3>1, <3>3
        <4>2. w[m] = w[k] \o ss[m] /\ Good(k)
          BY <2>1, <2>3, <3>1, <4>1
        <4>3. /\ w[m] \in Seq(Bytes) /\ Len(w[m]) = Len(w[k]) + Len(ss[m])
              /\ Len(w[k]) \in Nat
          BY <3>1, <4>2, ConcatProperties, LenProperties
        <4>4. Len(w[m]) < at[m + 1]
          <5>1. Len(w[k]) < at[m]
            BY <4>2 DEF m
          <5>2. /\ at[m] \in Nat /\ at[m + 1] \in Nat /\ Len(w[k]) \in Nat /\ Len(ss[m]) \in Nat
                /\ at[m] + Len(ss[m]) <= at[m + 1] /\ Len(w[m]) = Len(w[k]) + Len(ss[m])
            BY <1>1, <3>1, <4>3
          <5>3. \A x, y, u, v \in Nat : u < x /\ x + v <= y => u + v < y
            OBVIOUS
          <5> QED BY <5>1, <5>2, <5>3
        <4>5. ASSUME Keeps(t, p, 1, at) PROVE w[m] = SubSeq(t, 1, at[m + 1] - 1)
          <5> DEFINE a == at[m] - 1
                     e == at[m + 1] - 1
          <5>1. w[k] = SubSeq(t, 1, a)
            BY <4>2, <4>5 DEF m
          <5>2. a + 1 = at[m] /\ (at[m] + Len(ss[m])) - 1 = e /\ a \in 0..Len(t) /\ e \in a..Len(t)
            <6>1. at[m] \in 1..(Len(t) + 1) /\ at[m + 1] \in 1..(Len(t) + 1) /\ Len(ss[m]) \in Nat
                  /\ at[m] + Len(ss[m]) = at[m + 1]
              BY <3>1, <4>5
            <6>2. PICK x \in Nat, y \in Nat, l \in Nat, q \in Nat :
                         x = at[m] /\ y = at[m + 1] /\ l = Len(ss[m]) /\ q = Len(t)
              BY <1>1, <6>1
            <6>3. x \in 1..(q + 1) /\ y \in 1..(q + 1) /\ x + l = y
              BY <6>1, <6>2
            <6>4. /\ (x - 1) + 1 = x /\ (x + l) - 1 = y - 1
                  /\ x - 1 \in 0..q /\ y - 1 \in (x - 1)..q
              BY <6>3
            <6>5. a = x - 1 /\ e = y - 1
              BY <6>2
            <6> HIDE DEF a, e
            <6> QED BY <6>2, <6>4, <6>5
          <5>3. ss[m] = SubSeq(t, a + 1, e)
            BY <3>1, <5>2
          <5> HIDE DEF a, e
          <5>4. SubSeq(t, 1, a) \o SubSeq(t, a + 1, e) = SubSeq(t, 1, e)
            <6>1. 1 \in 1..(Len(t) + 1) /\ a \in (1 - 1)..Len(t)
              BY <1>1, <5>2
            <6> QED BY <5>2, <6>1, ConcatAdjacentSubSeq
          <5>5. w[m] = SubSeq(t, 1, e)
            BY <4>2, <5>1, <5>3, <5>4
          <5> QED BY <5>5 DEF e
        <4> QED BY <4>3, <4>4, <4>5 DEF m
      <3> QED BY <3>2, <3>3
    <2>4. Good(n)
      <3> HIDE DEF Good
      <3>1. \A k \in Nat : k \in S => k + 1 \in S
        BY <2>3
      <3> HIDE DEF S
      <3>2. Nat \subseteq S
        BY <2>2, <3>1, SetInduction
      <3> QED BY <1>1, <1>6, <3>2 DEF S
    <2>5. Len(w[n]) \in Nat
      BY <2>4, LenProperties
    <2> QED BY <2>1, <2>4, <2>5 DEF ss, BytesOf
  <1> QED BY <1>5, <1>6

\* The text and the pieces that print_msg inserted for it, if nothing in it was
\* taken for a format.
PrintInv ==
  /\ printed.text \in Seq(Bytes) /\ WholeLetters(printed.text)
  /\ "%" \notin ToSet(printed.text) => printed.pieces = PrintContent(printed.text)

\* So everything is on the screen that should be.
LEMMA PrintedWell == PrintInv => PrintedAsWritten
  <1>0. "%" \in ToSet(printed.text) => PrintedAsWritten
    BY DEF PrintedAsWritten
  <1> SUFFICES ASSUME PrintInv, "%" \notin ToSet(printed.text) PROVE PrintedAsWritten
    BY <1>0
  <1> DEFINE t == printed.text
             p == printed.pieces
             before(i) == FlattenSeq([j \in 1..(i - 1) |-> p[j].bytes])
  <1>1. t \in Seq(Bytes) /\ WholeLetters(t) /\ p = PrintContent(t)
    BY DEF PrintInv
  <1>2. PICK at : Shows(t, p, 1, at) /\ (Uncut(t) => Keeps(t, p, 1, at))
    BY <1>1, ContentShown
  <1>3. Len(p) \in Nat /\ DOMAIN p = 1..Len(p) /\ Len(t) \in Nat
    BY <1>1, <1>2, LenProperties DEF Shows, Pieces
  <1> HIDE DEF t, p
  <1>4. ASSUME NEW i \in 1..(Len(p) + 1)
        PROVE  /\ Len(before(i)) \in Nat /\ Len(before(i)) < at[i]
               /\ Keeps(t, p, 1, at) => before(i) = SubSeq(t, 1, at[i] - 1)
    <2> DEFINE n == i - 1
    <2>1. n \in 0..Len(p) /\ n + 1 = i
      BY <1>3
    <2> HIDE DEF n
    <2>2. /\ Len(BytesOf(p, n)) \in Nat /\ Len(BytesOf(p, n)) < at[n + 1]
          /\ Keeps(t, p, 1, at) => BytesOf(p, n) = SubSeq(t, 1, at[n + 1] - 1)
      BY <1>1, <1>2, <2>1, ShownBefore
    <2>3. before(i) = BytesOf(p, n)
      BY DEF BytesOf, n
    <2> QED BY <2>1, <2>2, <2>3
  <1>5. ASSUME \A s \in DOMAIN t : t[s] = "/" =>
                 ~\E i \in {s + 1, s + 2} \intersect DOMAIN t : t[i] \in {"L", "c"}
        PROVE  before(Len(p) + 1) = t
    <2>1. Keeps(t, p, 1, at)
      BY <1>1, <1>2, <1>5 DEF Uncut
    <2>2. Len(p) + 1 \in 1..(Len(p) + 1) /\ at[Len(p) + 1] - 1 = Len(t)
      BY <1>3, <2>1 DEF Keeps
    <2>3. before(Len(p) + 1) = SubSeq(t, 1, Len(t))
      BY <1>4, <2>1, <2>2
    <2> QED BY <1>1, <2>3, SubSeqFull
  <1>6. ASSUME NEW s \in CodesOf(t)
        PROVE  \E i \in DOMAIN p : /\ p[i].sticker
                                   /\ p[i].bytes = SubSeq(t, s, s + 2)
                                   /\ Len(before(i)) <= s - 1
    <2>1. s \in 1..(Len(t) - 2) /\ s >= 1
      BY <1>1, CodesAreSlashes
    <2>2. PICK i \in 1..Len(p) : p[i].sticker /\ p[i].bytes = SubSeq(t, s, s + 2) /\ at[i] = s
      BY <1>2, <2>1 DEF Shows
    <2>3. i \in 1..(Len(p) + 1)
      BY <1>3
    <2>4. Len(before(i)) < s
      BY <1>4, <2>2, <2>3
    <2>5. Len(before(i)) <= s - 1
      <3>2. Len(before(i)) \in Nat
        BY <1>4, <2>3
      <3> HIDE DEF before
      <3> QED BY <2>1, <2>4, <3>2
    <2> HIDE DEF before
    <2> QED BY <1>3, <2>2, <2>5
  <1> QED BY <1>5, <1>6 DEF PrintedAsWritten, CodesOf, t, p

\* A text that goes on is whole when both parts are.
LEMMA WholeTogether ==
  ASSUME NEW a \in Seq(Bytes), NEW b \in Seq(Bytes), WholeLetters(a), WholeLetters(b)
  PROVE  a \o b \in Seq(Bytes) /\ WholeLetters(a \o b)
  <1> DEFINE c == a \o b
             n == Len(a)
             m == Len(b)
  <1>1. /\ c \in Seq(Bytes) /\ Len(c) = n + m
        /\ \A i \in 1..(n + m) : c[i] = IF i <= n THEN a[i] ELSE b[i - n]
    BY ConcatProperties
  <1>2. n \in Nat /\ m \in Nat /\ DOMAIN a = 1..n /\ DOMAIN b = 1..m /\ DOMAIN c = 1..(n + m)
    BY <1>1, LenProperties
  <1>3. /\ \A i \in 1..n :
             /\ a[i] = "L" => i + 2 <= n /\ a[i + 1] = "c" /\ a[i + 2] = "c"
             /\ a[i] = "c" => \/ i > 1 /\ a[i - 1] = "L"
                              \/ i > 2 /\ a[i - 2] = "L"
        /\ \A i \in 1..m :
             /\ b[i] = "L" => i + 2 <= m /\ b[i + 1] = "c" /\ b[i + 2] = "c"
             /\ b[i] = "c" => \/ i > 1 /\ b[i - 1] = "L"
                              \/ i > 2 /\ b[i - 2] = "L"
    BY <1>2 DEF WholeLetters
  <1> HIDE DEF c, n, m
  <1>4. /\ \A i \in 1..n : c[i] = a[i]
        /\ \A i \in 1..m : c[n + i] = b[i]
    <2>1. \A i \in 1..m : n + i \in 1..(n + m) /\ ~(n + i <= n) /\ (n + i) - n = i
      BY <1>2
    <2>2. \A i \in 1..n : i \in 1..(n + m) /\ i <= n
      BY <1>2
    <2> QED BY <1>1, <2>1, <2>2
  <1>5. ASSUME NEW i \in 1..(n + m)
        PROVE  /\ c[i] = "L" => i + 2 <= Len(c) /\ c[i + 1] = "c" /\ c[i + 2] = "c"
               /\ c[i] = "c" => \/ i > 1 /\ c[i - 1] = "L"
                                \/ i > 2 /\ c[i - 2] = "L"
    <2>1. CASE i \in 1..n
      <3>1. c[i] = "L" => i + 2 <= n /\ c[i + 1] = "c" /\ c[i + 2] = "c"
        <4>1. i + 2 <= n => i + 1 \in 1..n /\ i + 2 \in 1..n
          BY <1>2, <2>1
        <4> QED BY <1>3, <1>4, <2>1, <4>1
      <3>2. c[i] = "c" => \/ i > 1 /\ c[i - 1] = "L"
                          \/ i > 2 /\ c[i - 2] = "L"
        <4>1. (i > 1 => i - 1 \in 1..n) /\ (i > 2 => i - 2 \in 1..n)
          BY <1>2, <2>1
        <4> QED BY <1>3, <1>4, <2>1, <4>1
      <3>3. i + 2 <= n => i + 2 <= Len(c)
        BY <1>1, <1>2
      <3> QED BY <3>1, <3>2, <3>3
    <2>2. CASE i \notin 1..n
      <3> DEFINE j == i - n
      <3>1. j \in 1..m /\ i = n + j
        BY <1>2, <2>2
      <3> HIDE DEF j
      <3>2. c[i] = b[j]
        BY <1>4, <3>1
      <3>3. c[i] = "L" => i + 2 <= Len(c) /\ c[i + 1] = "c" /\ c[i + 2] = "c"
        <4>1. j + 2 <= m => /\ j + 1 \in 1..m /\ j + 2 \in 1..m /\ n + (j + 1) = i + 1 /\ n + (j + 2) = i + 2
                            /\ i + 2 <= n + m
          BY <1>2, <3>1
        <4>2. c[i] = "L" => j + 2 <= m /\ b[j + 1] = "c" /\ b[j + 2] = "c"
          BY <1>3, <3>1, <3>2
        <4>3. j + 2 <= m => c[i + 1] = b[j + 1] /\ c[i + 2] = b[j + 2]
          BY <1>4, <4>1
        <4> QED BY <1>1, <4>1, <4>2, <4>3
      <3>4. c[i] = "c" => \/ i > 1 /\ c[i - 1] = "L"
                          \/ i > 2 /\ c[i - 2] = "L"
        <4>1. /\ j > 1 => j - 1 \in 1..m /\ n + (j - 1) = i - 1 /\ i > 1
              /\ j > 2 => j - 2 \in 1..m /\ n + (j - 2) = i - 2 /\ i > 2
          BY <1>2, <3>1
        <4> QED BY <1>3, <1>4, <3>1, <3>2, <4>1
      <3> QED BY <3>3, <3>4
    <2> QED BY <2>1, <2>2
  <1>6. WholeLetters(c)
    BY <1>2, <1>5 DEF WholeLetters
  <1> QED BY <1>1, <1>6 DEF c

\* A sticker is whole.
LEMMA CodesAreWhole == \A b \in StickerCodes : b \in Seq(Bytes) /\ WholeLetters(b)
  <1> SUFFICES ASSUME NEW b \in StickerCodes PROVE b \in Seq(Bytes) /\ WholeLetters(b)
    OBVIOUS
  <1>1. \/ b = <<"/", "a", "m">> \/ b = <<"/", "d", "k">> \/ b = <<"/", "f", "d">>
        \/ b = <<"/", "s", "k">> \/ b = <<"/", "w", "x">> \/ b = <<"/", "z", "j">>
    BY DEF StickerCodes
  <1>3. b \in Seq(Bytes) /\ Len(b) = 3 /\ \A i \in 1..3 : b[i] # "L" /\ b[i] # "c"
    <2> DEFINE Fits(c) == c \in Seq(Bytes) /\ Len(c) = 3 /\ \A i \in 1..3 : c[i] # "L" /\ c[i] # "c"
    <2>1. \A i \in 1..3 : i = 1 \/ i = 2 \/ i = 3
      OBVIOUS
    <2>2. ASSUME NEW x \in Bytes \ {"L", "c"}, NEW y \in Bytes \ {"L", "c"}
          PROVE  Fits(<<"/", x, y>>)
      <3>1. <<"/", x, y>> \in Seq(Bytes) /\ Len(<<"/", x, y>>) = 3
        <4>1. "/" \in Bytes
          BY DEF Bytes
        <4> QED BY <4>1
      <3>2. <<"/", x, y>>[1] = "/" /\ <<"/", x, y>>[2] = x /\ <<"/", x, y>>[3] = y
        OBVIOUS
      <3> QED BY <2>1, <3>1, <3>2
    <2>4. {"a", "d", "f", "j", "k", "m", "s", "w", "x", "z"} \subseteq Bytes \ {"L", "c"}
      BY DEF Bytes
    <2> HIDE DEF Fits
    <2>3. Fits(b)
      BY <1>1, <2>2, <2>4
    <2> QED BY <2>3 DEF Fits
  <1>2. DOMAIN b = 1..3
    BY <1>3, LenProperties
  <1> QED BY <1>2, <1>3 DEF WholeLetters

\* The message that is being written consists of whole letters.
EntryInv == entry \in Seq(Bytes) /\ WholeLetters(entry)

\* Nothing is printed of nothing.
LEMMA NothingPrinted ==
  <<>> \in Seq(Bytes) /\ WholeLetters(<<>>) /\ PrintContent(<<>>) = <<>>
  <1>1. <<>> \in Seq(Bytes) /\ Len(<<>>) = 0 /\ DOMAIN <<>> = {}
    OBVIOUS
  <1>2. WholeLetters(<<>>)
    BY <1>1 DEF WholeLetters
  <1>3. PICK g : /\ PrintContent(<<>>) = g[1]
                 /\ \A i \in 1..(Len(<<>>) + 1) : g[i] = ContentFrom(<<>>, g, i)
    BY <1>1, ContentDefined, Zenon
  <1>4. g[1] = ContentFrom(<<>>, g, 1)
    <2>1. 1 \in 1..(Len(<<>>) + 1)
      BY <1>1
    <2> QED BY <1>3, <2>1, Zenon
  <1>5. SlashesFrom(<<>>, 1) = {}
    BY <1>1 DEF SlashesFrom
  <1>6. SubSeq(<<>>, 1, 0) = <<>>
    BY SubSeqEmpty
  <1>7. g[1] = Insert(<<>>)
    BY <1>1, <1>4, <1>5, <1>6, Zenon DEF ContentFrom
  <1>8. Insert(<<>>) = <<>>
    BY <1>1, Inserted
  <1> QED BY <1>1, <1>2, <1>3, <1>7, <1>8, Zenon

\* A step of the user at the message, or none.
ComposerStep ==
  \/ UNCHANGED <<entry, printed>>
  \/ UNCHANGED printed /\ \E txt \in budget.texts \union StickerCodes : entry' = entry \o txt
  \/ entry' = <<>> /\ \/ UNCHANGED printed
                      \/ \E content \in Copies(entry) :
                           printed' = [text |-> entry, pieces |-> PrintContent(content)]
                      \/ printed' = [text |-> <<>>, pieces |-> <<>>]

LEMMA ComposerFrame == [Next]_vars => ComposerStep
  <1> SUFFICES ASSUME [Next]_vars PROVE ComposerStep
    OBVIOUS
  <1>a. UNCHANGED inputVars => ComposerStep
    BY DEF inputVars, composer, ComposerStep
  <1>c. UNCHANGED composer => ComposerStep
    BY DEF composer, ComposerStep
  <1>b. CloseAll => ComposerStep
    BY DEF CloseAll, ComposerStep
  <1>1. CASE ClientThread \/ Dispatch \/ Outside \/ Timer \/ UNCHANGED vars
    BY <1>1, <1>a, AwayFrame
  <1>3. CASE ReceiveRefusal \/ ReceiveEnd \/ Quit
    BY <1>3, <1>b DEF ReceiveRefusal, ReceiveEnd, Quit, Exit
  <1>4. CASE ReceiveThread /\ ~(ReceiveRefusal \/ ReceiveEnd)
    BY <1>4, <1>a, <1>c DEF ReceiveThread, ReceiveRegistered, ReceiveLogin, ReceiveNotice,
      ReceiveChat,
      ReceiveFriends, UnpackEntry, ShowFriends, ReceiveAdded, ReceiveGroups, ShowGroups,
      ReceiveJoined,
      ReceiveProfile, AskFriends, AskGroups, ShowMain, ShowMainWindow, PopUp
  <1>5. CASE Login \/ Regist \/ OtherWindow \/ Start
    BY <1>5, <1>c DEF Login, LoginClicked, CheckFails, Regist, ToLogin, OtherWindow, ToRegist,
      HidePopUp,
      Start
  <1>6. CASE ClickFriend \/ ClickGroup \/ ChangeTab \/ Hover
    BY <1>6, <1>a DEF ClickFriend, ClickGroup, ChangeTab, Hover
  <1>7. CASE Compose
    BY <1>7 DEF Compose, TypeText, OpenStickers, LeaveStickers, InsertSticker, ComposerStep
  <1>8. CASE SendSingle \/ SendGroup \/ SendNowhere
    <2>1. PICK shown : TakeEntry(shown)
      BY <1>8 DEF SendSingle, SendGroup, SendNowhere
    <2> QED BY <2>1 DEF TakeEntry, ComposerStep
  <1>9. CASE OpenDialog \/ CloseDialog \/ ConfirmBadNumber \/ ConfirmGroup \/ ConfirmCreate
              \/ ConfirmFriend
    BY <1>9, <1>c DEF OpenDialog, CloseDialog, ConfirmBadNumber, ConfirmGroup, ConfirmCreate,
      ConfirmFriend,
      OpenGroupDialog, OpenFriendDialog, CloseGroupDialog, CloseFriendDialog, CloseWarning,
      RefuseNumber
  <1> QED BY <1>1, <1>3, <1>4, <1>5, <1>6, <1>7, <1>8, <1>9 DEF Next, User

\* What is written stays whole, and what is printed is what was written.
LEMMA PrintStep == BudgetInv /\ EntryInv /\ PrintInv /\ [Next]_vars => EntryInv' /\ PrintInv'
  <1> SUFFICES ASSUME BudgetInv, EntryInv, PrintInv, [Next]_vars PROVE EntryInv' /\ PrintInv'
    OBVIOUS
  <1>1. \A txt \in budget.texts \union StickerCodes : txt \in Seq(Bytes) /\ WholeLetters(txt)
    <2>1. \A txt \in budget.texts : txt \in Seq(STRING) /\ WholeLetters(txt)
      BY DEF BudgetInv, Budget
    <2>2. \A txt \in budget.texts : txt \in Seq(Bytes)
      <3>1. STRING \subseteq Bytes
        BY DEF Bytes
      <3> QED BY <2>1, <3>1, SeqMonotonic
    <2> QED BY <2>1, <2>2, CodesAreWhole
  <1>2. CASE UNCHANGED <<entry, printed>>
    BY <1>2 DEF EntryInv, PrintInv
  <1>3. CASE UNCHANGED printed /\ \E txt \in budget.texts \union StickerCodes : entry' = entry \o txt
    <2>1. PICK txt \in Seq(Bytes) : WholeLetters(txt) /\ entry' = entry \o txt
      BY <1>1, <1>3
    <2>2. EntryInv'
      BY <2>1, WholeTogether DEF EntryInv
    <2> QED BY <1>3, <2>2 DEF PrintInv
  <1>4. ASSUME entry' = <<>>,
               \/ UNCHANGED printed
               \/ \E content \in Copies(entry) :
                    printed' = [text |-> entry, pieces |-> PrintContent(content)]
               \/ printed' = [text |-> <<>>, pieces |-> <<>>]
        PROVE  EntryInv' /\ PrintInv'
    <2>1. EntryInv'
      BY <1>4, NothingPrinted DEF EntryInv
    <2>2. CASE UNCHANGED printed
      BY <2>1, <2>2 DEF PrintInv
    <2>3. ASSUME NEW content \in Copies(entry),
                 printed' = [text |-> entry, pieces |-> PrintContent(content)]
          PROVE  PrintInv'
      <3>1. "%" \notin ToSet(entry) => content = entry
        BY DEF Copies
      <3>2. printed'.text = entry /\ printed'.pieces = PrintContent(content)
        BY <2>3
      <3> QED BY <3>1, <3>2 DEF PrintInv, EntryInv
    <2>4. CASE printed' = [text |-> <<>>, pieces |-> <<>>]
      <3>1. printed'.text = <<>> /\ printed'.pieces = <<>>
        BY <2>4
      <3>2. printed'.text \in Seq(Bytes)
        BY <3>1, NothingPrinted
      <3>3. WholeLetters(printed'.text)
        BY <3>1, NothingPrinted, Zenon
      <3>4. printed'.pieces = PrintContent(printed'.text)
        BY <3>1, NothingPrinted, Zenon
      <3> QED BY <2>1, <3>2, <3>3, <3>4 DEF PrintInv
    <2> DEFINE Copied == \E content \in Copies(entry) :
                           printed' = [text |-> entry, pieces |-> PrintContent(content)]
    <2>5. Copied => PrintInv'
      BY <2>3
    <2> HIDE DEF Copied
    <2>6. UNCHANGED printed \/ Copied \/ printed' = [text |-> <<>>, pieces |-> <<>>] => PrintInv'
      BY <2>2, <2>4, <2>5
    <2> QED BY <1>4, <2>1, <2>6 DEF Copied
  <1> QED BY <1>2, <1>3, <1>4, ComposerFrame DEF ComposerStep

\* Nothing of a message without a percent sign is lost between the entry and the
\* screen, and each code is shown as a sticker, but for the two exceptions that
\* print_content has: letters outside ASCII and other slashes right after a slash.
THEOREM PrintedRight == Spec => []PrintedAsWritten
  <1>1. Init => EntryInv /\ PrintInv
    <2> SUFFICES ASSUME Init PROVE EntryInv /\ PrintInv
      OBVIOUS
    <2>1. entry = <<>> /\ printed.text = <<>> /\ printed.pieces = <<>>
      BY DEF Init, InputInit
    <2> QED BY <2>1, NothingPrinted DEF EntryInv, PrintInv
  <1>2. Spec => [](EntryInv /\ PrintInv)
    BY <1>1, BudgetInit, BudgetFrame, PrintStep, PTL DEF Spec
  <1> QED BY <1>2, PrintedWell, PTL
=============================================================================
