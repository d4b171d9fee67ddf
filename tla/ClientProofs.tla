----------------------------- MODULE ClientProofs -----------------------------
(* Proofs about Client for any names, groups and budgets. *)
EXTENDS Client, SequenceTheorems, FiniteSetTheorems, TLAPS

-----------------------------------------------------------------------------
(* The server and the client. *)

\* What the server, the others and the wire do leaves the client alone.
LEMMA ServerFrame ==
  ASSUME ClientThread \/ Dispatch \/ Outside
  PROVE  UNCHANGED clientVars
  <1>1. CASE ClientThread
    BY <1>1 DEF ClientThread, HandleRequest, CreateFails, ServerEnds, DeleteClient, LoginStep,
      SetName, SelectStored, ReplayRow, EraseStored, LoginReceipt, InLogin, Handle, HandleRegister,
      HandleLogin, HandleFriends, HandleGroups, HandleAdd, HandleJoin, HandleCreate, HandleProfile,
      HandleGroupChat, HandleSingle
  <1>2. CASE Dispatch
    BY <1>2 DEF Dispatch, SndLookup, SndSend, SndSave, SndTake, SndStep
  <1>3. CASE Outside
    BY <1>3 DEF Outside, OtherLogin, LoginStep, SetName, SelectStored, ReplayRow, EraseStored,
      LoginReceipt, InLogin, OtherLeaves, WipeName, PeerSends, Wedge, ServerStops, ServerEnds,
      LoseMessage, OverwriteRequest
  <1> QED BY <1>1, <1>2, <1>3

-----------------------------------------------------------------------------
(* The pane of the main window. *)

\* On the tab of the groups the list of members is not hidden.
PaneInv ==
  /\ {membersShown, memberList, logoShown, switched} \subseteq BOOLEAN
  /\ tab = "group" => memberList
  /\ MembersFollowConversation

\* A step of the client leaves the conversation and the pane alone, or is one
\* of four things.
LEMMA PaneFrame ==
  ASSUME [Next]_vars
  PROVE  \/ UNCHANGED <<talk, pane>>
         \/ \E k \in DOMAIN friendRows : FocusinFriend(k)
         \/ \E k \in DOMAIN groupRows : FocusinGroup(k)
         \/ \E aim \in {"friend", "group", "about"} : ClickTab(aim)
         \/ ListsReset
  <1> DEFINE Goal == \/ UNCHANGED <<talk, pane>>
                     \/ \E k \in DOMAIN friendRows : FocusinFriend(k)
                     \/ \E k \in DOMAIN groupRows : FocusinGroup(k)
                     \/ \E aim \in {"friend", "group", "about"} : ClickTab(aim)
                     \/ ListsReset
  <1>1. CASE ClientThread \/ Dispatch \/ Outside
    BY <1>1, ServerFrame DEF clientVars, listVars
  <1>2. CASE Timer
    BY <1>2 DEF Timer, clientVars, listVars
  <1>3. CASE ReceiveThread
    BY <1>3 DEF ReceiveThread, ReceiveRegistered, ReceiveLogin, ReceiveRefusal, ReceiveNotice,
      ReceiveChat, ReceiveFriends, UnpackEntry, ShowFriends, ReceiveAdded, ReceiveGroups, ShowGroups,
      ReceiveJoined, ReceiveProfile, ShowMain, AskFriends, AskGroups, ReceiveEnd, Exit,
      FriendListSize, FriendEntry, UpdateFriendlist, GroupList, UpdateGrouplist, listVars
  <1>4. CASE User
    BY <1>4 DEF User, Login, Regist, OtherWindow, ClickFriend, ClickGroup, ChangeTab, Hover, Compose,
      SendSingle, SendGroup, SendNowhere, OpenDialog, CloseDialog, ConfirmBadNumber, ConfirmGroup,
      ConfirmCreate, ConfirmFriend, Quit, Start, Exit, MovetoFriend, LeaveFriend, MovetoGroup,
      LeaveGroup, listVars
  <1>5. CASE UNCHANGED vars
    BY <1>5 DEF vars, clientVars, listVars
  <1> QED BY <1>1, <1>2, <1>3, <1>4, <1>5 DEF Next

\* change_chat_mode
LEMMA ChatMode ==
  ASSUME NEW mode \in {1, 2}, ChangeChatMode(mode)
  PROVE  /\ tab' = tab /\ memberList' = memberList
         /\ membersShown' \in BOOLEAN /\ logoShown' \in BOOLEAN /\ switched' \in BOOLEAN
         /\ ~switched' /\ (membersShown' <=> mode = 2)
  <1>1. membersShown' = (mode = 2) /\ logoShown' = (mode = 1) /\ switched' = FALSE
    BY Zenon DEF ChangeChatMode
  <1>2. (mode = 2) \in BOOLEAN /\ (mode = 1) \in BOOLEAN
    OBVIOUS
  <1>3. membersShown' \in BOOLEAN /\ logoShown' \in BOOLEAN /\ switched' \in BOOLEAN
    BY <1>1, <1>2, Zenon
  <1>4. ~switched' /\ (membersShown' <=> mode = 2)
    BY <1>1, Zenon
  <1>5. tab' = tab /\ memberList' = memberList
    BY DEF ChangeChatMode
  <1> QED BY <1>3, <1>4, <1>5

\* A step of the client keeps what is said of the pane.
LEMMA PaneStep == PaneInv /\ [Next]_vars => PaneInv'
  <1> SUFFICES ASSUME PaneInv, [Next]_vars PROVE PaneInv'
    OBVIOUS
  <1> USE DEF PaneInv, MembersFollowConversation
  <1>1. CASE UNCHANGED <<talk, pane>>
    BY <1>1 DEF talk, pane
  <1>2. ASSUME NEW k \in DOMAIN friendRows, FocusinFriend(k) PROVE PaneInv'
    <2>1. ChangeChatMode(1) /\ tab = "friend" /\ talkGroup' = 0
      BY <1>2, Zenon DEF FocusinFriend
    <2> QED BY <2>1, ChatMode
  <1>3. ASSUME NEW k \in DOMAIN groupRows, FocusinGroup(k) PROVE PaneInv'
    <2>1. ChangeChatMode(2) /\ tab = "group" /\ talkUser' = NoUser
      BY <1>3, Zenon DEF FocusinGroup
    <2> QED BY <2>1, ChatMode
  <1>4. ASSUME NEW aim \in {"friend", "group", "about"}, ClickTab(aim) PROVE PaneInv'
    BY <1>4 DEF ClickTab, talk
  <1>5. CASE ListsReset
    BY <1>5 DEF ListsReset
  <1> QED BY <1>1, <1>2, <1>3, <1>4, <1>5, PaneFrame

\* The list of members is out of sight in a conversation with a friend until
\* the tab is changed, and in sight in one with a group: on the tab of the
\* groups, where such a conversation begins, it has been brought out of hiding.
THEOREM MembersFollow == Spec => []MembersFollowConversation
  <1>1. Init => PaneInv
    BY DEF Init, ListsInit, PaneInv, MembersFollowConversation
  <1>2. PaneInv => MembersFollowConversation
    BY DEF PaneInv
  <1> QED BY <1>1, <1>2, PaneStep, PTL DEF Spec

-----------------------------------------------------------------------------
(* What the outside may still do. *)

\* The lists a budget gives stay what they were.
BudgetInv == budget \in Budget

\* What is counted in a budget.
Counts == {"others", "peers", "starts", "stops", "ticks", "clicks", "tabs", "typing", "dialogs",
           "accounts", "failures", "losses", "wedges", "wipes"}

\* Spending leaves a budget.
LEMMA BudgetFrame ==
  ASSUME BudgetInv, [Next]_vars
  PROVE  /\ BudgetInv'
         /\ budget'.joined = budget.joined
  <1>1. budget' = budget \/ \E what \in Counts : Spend(what)
    <2> USE DEF Counts
    <2>1. CASE ClientThread
      BY <2>1 DEF ClientThread, HandleRequest, CreateFails, ServerEnds, DeleteClient, LoginStep,
        SetName, SelectStored, ReplayRow, EraseStored, LoginReceipt, InLogin, Handle,
        HandleRegister, HandleLogin, HandleFriends, HandleGroups, HandleAdd, HandleJoin,
        HandleCreate, HandleProfile, HandleGroupChat, HandleSingle, SendByName, Join, Fails
    <2>2. CASE Dispatch \/ Timer \/ Outside
      BY <2>2 DEF Dispatch, SndLookup, SndSend, SndSave, SndTake, SndStep, Timer, Outside,
        OtherLogin, LoginStep, SetName, SelectStored, ReplayRow, EraseStored, LoginReceipt, InLogin,
        OtherLeaves, WipeName, PeerSends, Wedge, ServerStops, ServerEnds, LoseMessage,
        OverwriteRequest, Fails
    <2>3. CASE ReceiveThread
      BY <2>3 DEF ReceiveThread, ReceiveRegistered, ReceiveLogin, ReceiveRefusal, ReceiveNotice,
        ReceiveChat, ReceiveFriends, UnpackEntry, ShowFriends, ReceiveAdded, ReceiveGroups,
        ShowGroups, ReceiveJoined, ReceiveProfile, ShowMain, AskFriends, AskGroups, ReceiveEnd,
        Busy, Save, Exit, Fails
    <2>4. CASE User
      BY <2>4 DEF User, Login, Regist, OtherWindow, ClickFriend, ClickGroup, ChangeTab, Hover,
        Compose, SendSingle, SendGroup, SendNowhere, OpenDialog, CloseDialog, ConfirmBadNumber,
        ConfirmGroup, ConfirmCreate, ConfirmFriend, Quit, Start, Save, Exit, Fails
    <2>5. CASE UNCHANGED vars
      BY <2>5 DEF vars
    <2> QED BY <2>1, <2>2, <2>3, <2>4, <2>5 DEF Next
  <1>2. ASSUME NEW what \in Counts, Spend(what)
        PROVE  budget' \in Budget /\ budget'.joined = budget.joined
    <2>1. budget[what] \in Nat
      <3>1. \A b \in Budget : /\ {b.others, b.peers, b.starts, b.stops, b.ticks, b.clicks, b.tabs} \subseteq Nat
                             /\ {b.typing, b.dialogs, b.accounts, b.failures, b.losses} \subseteq Nat
                             /\ {b.wedges, b.wipes} \subseteq Nat
        BY DEF Budget
      <3> QED BY <3>1 DEF BudgetInv, Counts
    <2>2. budget[what] - 1 \in Nat
      BY <1>2, <2>1 DEF Spend
    <2>3. ASSUME NEW b \in Budget, NEW n \in Nat
          PROVE  [b EXCEPT ![what] = n] \in Budget /\ [b EXCEPT ![what] = n].joined = b.joined
      <3>1. CASE what = "others"
        BY <3>1 DEF Budget
      <3>2. CASE what = "peers"
        BY <3>2 DEF Budget
      <3>3. CASE what = "starts"
        BY <3>3 DEF Budget
      <3>4. CASE what = "stops"
        BY <3>4 DEF Budget
      <3>5. CASE what = "ticks"
        BY <3>5 DEF Budget
      <3>6. CASE what = "clicks"
        BY <3>6 DEF Budget
      <3>7. CASE what = "tabs"
        BY <3>7 DEF Budget
      <3>8. CASE what = "typing"
        BY <3>8 DEF Budget
      <3>9. CASE what = "dialogs"
        BY <3>9 DEF Budget
      <3>10. CASE what = "accounts"
        BY <3>10 DEF Budget
      <3>11. CASE what = "failures"
        BY <3>11 DEF Budget
      <3>12. CASE what = "losses"
        BY <3>12 DEF Budget
      <3>13. CASE what = "wedges"
        BY <3>13 DEF Budget
      <3>14. CASE what = "wipes"
        BY <3>14 DEF Budget
      <3> QED BY <3>1, <3>2, <3>3, <3>4, <3>5, <3>6, <3>7, <3>8, <3>9, <3>10, <3>11, <3>12, <3>13, <3>14 DEF Counts
    <2> QED BY <1>2, <2>2, <2>3 DEF Spend, BudgetInv
  <1> QED BY <1>1, <1>2 DEF BudgetInv

\* At first the budget is one of those that are given.
LEMMA BudgetInit == Init => BudgetInv
  BY BudgetsAssumption DEF Init, BudgetInv

-----------------------------------------------------------------------------
(* Sequences of anything. *)

\* s is a sequence of whatever.
IsSequence(s) == \E S : s \in Seq(S)

\* Length, domain and elements of a sequence.
LEMMA SeqFacts ==
  ASSUME NEW s, IsSequence(s)
  PROVE  /\ Len(s) \in Nat /\ DOMAIN s = 1..Len(s)
         /\ s = <<>> <=> Len(s) = 0
         /\ \A x : x \in ToSet(s) <=> \E i \in 1..Len(s) : x = s[i]
         /\ \A i \in 1..Len(s) : s[i] \in ToSet(s)
  <1>1. PICK S : s \in Seq(S)
    BY DEF IsSequence
  <1>2. /\ Len(s) \in Nat /\ DOMAIN s = 1..Len(s)
        /\ s = <<>> <=> Len(s) = 0
    BY <1>1, LenProperties, EmptySeq
  <1> QED BY <1>2 DEF ToSet

\* Appending adds one element at the end.
LEMMA SeqAppend ==
  ASSUME NEW s, IsSequence(s), NEW x
  PROVE  /\ IsSequence(Append(s, x)) /\ Len(Append(s, x)) = Len(s) + 1
         /\ \A i \in 1..Len(s) : Append(s, x)[i] = s[i]
         /\ Append(s, x)[Len(s) + 1] = x
         /\ ToSet(Append(s, x)) = ToSet(s) \union {x}
  <1>1. PICK S : s \in Seq(S)
    BY DEF IsSequence
  <1>2. s \in Seq(S \union {x}) /\ x \in S \union {x}
    BY <1>1
  <1>3. /\ Append(s, x) \in Seq(S \union {x}) /\ Len(Append(s, x)) = Len(s) + 1
        /\ \A i \in 1..Len(s) : Append(s, x)[i] = s[i]
        /\ Append(s, x)[Len(s) + 1] = x
    BY <1>2, AppendProperties
  <1>4. IsSequence(Append(s, x))
    BY <1>3 DEF IsSequence
  <1>5. ToSet(Append(s, x)) = ToSet(s) \union {x}
    <2>1. \A y : y \in ToSet(Append(s, x)) <=> \E i \in 1..Len(Append(s, x)) : y = Append(s, x)[i]
      BY <1>4, SeqFacts
    <2>2. Len(s) \in Nat /\ \A y : y \in ToSet(s) <=> \E i \in 1..Len(s) : y = s[i]
      BY SeqFacts
    <2>3. \A i \in 1..(Len(s) + 1) : i \in 1..Len(s) \/ i = Len(s) + 1
      BY <2>2
    <2>4. \A i \in 1..Len(s) : i \in 1..(Len(s) + 1)
      BY <2>2
    <2>5. Len(s) + 1 \in 1..(Len(s) + 1)
      BY <2>2
    <2> QED BY <1>3, <2>1, <2>2, <2>3, <2>4, <2>5
  <1> QED BY <1>3, <1>4, <1>5

\* One sequence after another.
LEMMA SeqConcat ==
  ASSUME NEW s, NEW t, IsSequence(s), IsSequence(t)
  PROVE  /\ IsSequence(s \o t) /\ Len(s \o t) = Len(s) + Len(t)
         /\ \A i \in 1..Len(s) : (s \o t)[i] = s[i]
         /\ \A i \in 1..Len(t) : (s \o t)[Len(s) + i] = t[i]
         /\ ToSet(s \o t) = ToSet(s) \union ToSet(t)
  <1>1. PICK S, T : s \in Seq(S) /\ t \in Seq(T)
    BY DEF IsSequence
  <1>2. s \in Seq(S \union T) /\ t \in Seq(S \union T)
    BY <1>1
  <1>3. /\ s \o t \in Seq(S \union T) /\ Len(s \o t) = Len(s) + Len(t)
        /\ \A i \in 1..Len(s \o t) : (s \o t)[i] = IF i <= Len(s) THEN s[i] ELSE t[i - Len(s)]
    BY <1>2, ConcatProperties
  <1>4. IsSequence(s \o t) /\ Len(s) \in Nat /\ Len(t) \in Nat
    BY <1>3, SeqFacts DEF IsSequence
  <1>5. /\ \A i \in 1..Len(s) : (s \o t)[i] = s[i]
        /\ \A i \in 1..Len(t) : (s \o t)[Len(s) + i] = t[i]
    BY <1>3, <1>4
  <1>6. ToSet(s \o t) = ToSet(s) \union ToSet(t)
    <2>1. \A x : x \in ToSet(s \o t) <=> \E i \in 1..Len(s \o t) : x = (s \o t)[i]
      BY <1>4, SeqFacts
    <2>2. /\ \A x : x \in ToSet(s) <=> \E i \in 1..Len(s) : x = s[i]
          /\ \A x : x \in ToSet(t) <=> \E i \in 1..Len(t) : x = t[i]
      BY SeqFacts
    <2>3. ASSUME NEW x \in ToSet(s \o t) PROVE x \in ToSet(s) \union ToSet(t)
      <3>1. PICK i \in 1..Len(s \o t) : x = (s \o t)[i]
        BY <2>1
      <3>2. i \in 1..Len(s) \/ i - Len(s) \in 1..Len(t)
        BY <1>3, <1>4
      <3>3. x = IF i <= Len(s) THEN s[i] ELSE t[i - Len(s)]
        BY <1>3, <3>1
      <3> QED BY <1>4, <2>2, <3>2, <3>3
    <2>4. ASSUME NEW i \in 1..Len(s) PROVE s[i] \in ToSet(s \o t)
      <3>1. i \in 1..Len(s \o t)
        BY <1>3, <1>4
      <3> QED BY <1>5, <2>1, <3>1
    <2>5. ASSUME NEW i \in 1..Len(t) PROVE t[i] \in ToSet(s \o t)
      <3>1. Len(s) + i \in 1..Len(s \o t)
        BY <1>3, <1>4
      <3> QED BY <1>5, <2>1, <3>1
    <2> QED BY <2>2, <2>3, <2>4, <2>5
  <1> QED BY <1>3, <1>4, <1>5, <1>6

\* What is left when the first element is taken.
LEMMA SeqTail ==
  ASSUME NEW s, IsSequence(s), s # <<>>
  PROVE  /\ IsSequence(Tail(s)) /\ Len(Tail(s)) = Len(s) - 1
         /\ \A i \in 1..(Len(s) - 1) : Tail(s)[i] = s[i + 1]
         /\ ToSet(Tail(s)) \subseteq ToSet(s)
         /\ Head(s) = s[1] /\ s[1] \in ToSet(s)
         /\ ToSet(s) = {s[1]} \union ToSet(Tail(s))
  <1>1. PICK S : s \in Seq(S)
    BY DEF IsSequence
  <1>2. /\ Tail(s) \in Seq(S) /\ Len(Tail(s)) = Len(s) - 1 /\ Head(s) = s[1]
        /\ \A i \in 1..(Len(s) - 1) : Tail(s)[i] = s[i + 1]
    BY <1>1, HeadTailProperties
  <1>3. IsSequence(Tail(s)) /\ Len(s) \in Nat \ {0}
    BY <1>2, SeqFacts DEF IsSequence
  <1>4. ToSet(Tail(s)) \subseteq ToSet(s) /\ s[1] \in ToSet(s)
    <2>1. \A i \in 1..(Len(s) - 1) : i + 1 \in 1..Len(s)
      BY <1>3
    <2>2. 1 \in 1..Len(s)
      BY <1>3
    <2>3. \A i \in 1..Len(s) : s[i] \in ToSet(s)
      BY SeqFacts
    <2>4. \A x : x \in ToSet(Tail(s)) <=> \E i \in 1..Len(Tail(s)) : x = Tail(s)[i]
      BY <1>3, SeqFacts
    <2> QED BY <1>2, <2>1, <2>2, <2>3, <2>4
  <1>5. ASSUME NEW x \in ToSet(s), x # s[1] PROVE x \in ToSet(Tail(s))
    <2>1. PICK i \in 1..Len(s) : x = s[i]
      BY SeqFacts
    <2>2. i - 1 \in 1..(Len(s) - 1) /\ (i - 1) + 1 = i
      BY <1>3, <1>5, <2>1
    <2>3. \A j \in 1..Len(Tail(s)) : Tail(s)[j] \in ToSet(Tail(s))
      BY <1>3, SeqFacts
    <2>4. Tail(s)[i - 1] = s[i]
      BY <1>2, <2>2
    <2> QED BY <1>2, <2>1, <2>2, <2>3, <2>4
  <1> QED BY <1>2, <1>3, <1>4, <1>5

\* The sequences of no, one and two elements.
LEMMA SeqOne ==
  /\ IsSequence(<<>>) /\ ToSet(<<>>) = {} /\ Len(<<>>) = 0
  /\ \A x : IsSequence(<<x>>) /\ Len(<<x>>) = 1 /\ <<x>>[1] = x /\ ToSet(<<x>>) = {x}
  /\ \A x, y : IsSequence(<<x, y>>) /\ ToSet(<<x, y>>) = {x, y} /\ Len(<<x, y>>) = 2
  <1>1. IsSequence(<<>>) /\ ToSet(<<>>) = {} /\ Len(<<>>) = 0
    BY EmptySeq DEF IsSequence, ToSet
  <1>2. ASSUME NEW x PROVE IsSequence(<<x>>) /\ Len(<<x>>) = 1 /\ <<x>>[1] = x /\ ToSet(<<x>>) = {x}
    <2>1. <<x>> \in Seq({x}) /\ Len(<<x>>) = 1
      OBVIOUS
    <2>2. IsSequence(<<x>>)
      BY <2>1 DEF IsSequence
    <2>3. \A y : y \in ToSet(<<x>>) <=> \E i \in 1..Len(<<x>>) : y = <<x>>[i]
      BY <2>2, SeqFacts, Zenon
    <2> QED BY <2>1, <2>2, <2>3
  <1>3. ASSUME NEW x, NEW y
        PROVE  IsSequence(<<x, y>>) /\ ToSet(<<x, y>>) = {x, y} /\ Len(<<x, y>>) = 2
    <2>1. <<x, y>> \in Seq({x, y}) /\ Len(<<x, y>>) = 2
      OBVIOUS
    <2>2. IsSequence(<<x, y>>)
      BY <2>1 DEF IsSequence
    <2>3. \A z : z \in ToSet(<<x, y>>) <=> \E i \in 1..Len(<<x, y>>) : z = <<x, y>>[i]
      BY <2>2, SeqFacts
    <2> QED BY <2>1, <2>2, <2>3
  <1> QED BY <1>1, <1>2, <1>3

\* What is left when element i is taken out.
LEMMA SeqRemove ==
  ASSUME NEW s, IsSequence(s), NEW i \in 1..Len(s)
  PROVE  /\ IsSequence(RemoveAt(s, i)) /\ Len(RemoveAt(s, i)) = Len(s) - 1
         /\ \A k \in 1..(Len(s) - 1) : RemoveAt(s, i)[k] = IF k < i THEN s[k] ELSE s[k + 1]
         /\ ToSet(RemoveAt(s, i)) \subseteq ToSet(s)
         /\ \A x \in ToSet(s) : x = s[i] \/ x \in ToSet(RemoveAt(s, i))
  <1>1. PICK S : s \in Seq(S)
    BY DEF IsSequence
  <1>2. Len(s) \in Nat
    BY SeqFacts
  <1> DEFINE before == SubSeq(s, 1, i - 1)
             after == SubSeq(s, i + 1, Len(s))
  <1>3. /\ before \in Seq(S) /\ Len(before) = i - 1
        /\ \A k \in 1..(i - 1) : before[k] = s[k]
    BY <1>1, <1>2
  <1>4. /\ after \in Seq(S) /\ Len(after) = Len(s) - i
        /\ \A k \in 1..(Len(s) - i) : after[k] = s[i + k]
    BY <1>1, <1>2
  <1>5. /\ IsSequence(RemoveAt(s, i)) /\ Len(RemoveAt(s, i)) = Len(s) - 1
        /\ \A k \in 1..(i - 1) : RemoveAt(s, i)[k] = s[k]
        /\ \A k \in 1..(Len(s) - i) : RemoveAt(s, i)[(i - 1) + k] = s[i + k]
    <2>1. IsSequence(before) /\ IsSequence(after)
      BY <1>3, <1>4 DEF IsSequence
    <2>2. RemoveAt(s, i) = before \o after
      BY DEF RemoveAt
    <2>3. /\ IsSequence(before \o after) /\ Len(before \o after) = Len(before) + Len(after)
          /\ \A k \in 1..Len(before) : (before \o after)[k] = before[k]
          /\ \A k \in 1..Len(after) : (before \o after)[Len(before) + k] = after[k]
      <3> HIDE DEF before, after
      <3> QED BY <2>1, SeqConcat
    <2> HIDE DEF before, after
    <2> QED BY <1>2, <1>3, <1>4, <2>2, <2>3
  <1> HIDE DEF before, after
  <1>6. ASSUME NEW k \in 1..(Len(s) - 1)
        PROVE  RemoveAt(s, i)[k] = IF k < i THEN s[k] ELSE s[k + 1]
    <2>1. CASE k < i
      BY <1>2, <1>5, <2>1
    <2>2. CASE ~(k < i)
      <3>1. k - (i - 1) \in 1..(Len(s) - i) /\ (i - 1) + (k - (i - 1)) = k /\ i + (k - (i - 1)) = k + 1
        BY <1>2, <2>2
      <3> QED BY <1>5, <2>2, <3>1
    <2> QED BY <2>1, <2>2
  <1>7. \A x : x \in ToSet(s) <=> \E k \in 1..Len(s) : x = s[k]
    BY SeqFacts
  <1>8. \A x : x \in ToSet(RemoveAt(s, i)) <=> \E k \in 1..(Len(s) - 1) : x = RemoveAt(s, i)[k]
    BY <1>5, SeqFacts
  <1>9. ToSet(RemoveAt(s, i)) \subseteq ToSet(s)
    <2>1. \A k \in 1..(Len(s) - 1) : k \in 1..Len(s) /\ k + 1 \in 1..Len(s)
      BY <1>2
    <2> QED BY <1>6, <1>7, <1>8, <2>1
  <1>10. ASSUME NEW k \in 1..Len(s), k # i PROVE s[k] \in ToSet(RemoveAt(s, i))
    <2>1. CASE k < i
      <3>1. k \in 1..(Len(s) - 1)
        BY <1>2, <2>1
      <3> QED BY <1>6, <1>8, <2>1, <3>1
    <2>2. CASE k > i
      <3>1. k - 1 \in 1..(Len(s) - 1) /\ ~(k - 1 < i) /\ (k - 1) + 1 = k
        BY <1>2, <2>2
      <3> QED BY <1>6, <1>8, <3>1
    <2> QED BY <1>2, <1>10, <2>1, <2>2
  <1> QED BY <1>5, <1>6, <1>7, <1>9, <1>10

\* What is left when the last element is taken out.
LEMMA SeqFront ==
  ASSUME NEW s, IsSequence(s), s # <<>>
  PROVE  Len(s) \in 1..Len(s) /\ Front(s) = RemoveAt(s, Len(s)) /\ Last(s) = s[Len(s)]
  <1>1. PICK S : s \in Seq(S)
    BY DEF IsSequence
  <1>2. Len(s) \in Nat \ {0}
    BY SeqFacts
  <1>3. SubSeq(s, Len(s) + 1, Len(s)) = <<>>
    BY <1>1, <1>2
  <1>4. SubSeq(s, 1, Len(s) - 1) \in Seq(S)
    BY <1>1, <1>2
  <1>5. \A t \in Seq(S) : t \o <<>> = t
    OBVIOUS
  <1> QED BY <1>2, <1>3, <1>4, <1>5 DEF Front, RemoveAt, Last

\* One element takes the place of another.
LEMMA SeqReplace ==
  ASSUME NEW s, IsSequence(s), NEW i \in 1..Len(s), NEW j \in 1..Len(s)
  PROVE  LET t == [s EXCEPT ![i] = s[j]]
         IN  /\ IsSequence(t) /\ Len(t) = Len(s)
             /\ \A k \in 1..Len(s) : t[k] = IF k = i THEN s[j] ELSE s[k]
             /\ ToSet(t) \subseteq ToSet(s)
  <1> DEFINE t == [s EXCEPT ![i] = s[j]]
  <1>1. PICK S : s \in Seq(S)
    BY DEF IsSequence
  <1>2. t \in Seq(S) /\ Len(t) = Len(s) /\ \A k \in 1..Len(s) : t[k] = IF k = i THEN s[j] ELSE s[k]
    BY <1>1, ExceptSeq
  <1>3. IsSequence(t)
    BY <1>2 DEF IsSequence
  <1>4. ToSet(t) \subseteq ToSet(s)
    <2> HIDE DEF t
    <2>1. \A x : x \in ToSet(t) <=> \E k \in 1..Len(t) : x = t[k]
      BY <1>3, SeqFacts
    <2>2. \A k \in 1..Len(s) : s[k] \in ToSet(s)
      BY SeqFacts
    <2> QED BY <1>2, <2>1, <2>2
  <1> QED BY <1>2, <1>3, <1>4

-----------------------------------------------------------------------------
(* Requests. *)

\* A request that says nothing about accounts, logins, members and numbers.
Plain(m) == /\ m.type \in {"friends", "groups", "add", "create", "single"}
            /\ m.type = "add" => m.about \in Friends \union {NoUser}

\* What the client asks for in one step, and which step it is.
Asking(msgs) ==
  /\ IsSequence(msgs)
  /\ \/ \A m \in ToSet(msgs) : Plain(m)
     \/ Login /\ \E a : msgs = <<Msg("login", a)>>
     \/ /\ Regist
        /\ \E u \in budget.names, p \in budget.passwords, r \in budget.passwords :
             RegistAccepts(u, p, r) /\ msgs = <<Msg("register", [name |-> u, password |-> p])>>
     \/ ClickGroup /\ msgs = <<Msg("profile", talkGroup')>>
     \/ SendGroup /\ \E at \in budget.times : msgs = <<Msg("chat", Chat(made', Group(talkGroup), at))>>
     \/ /\ ConfirmGroup
        /\ \E n : /\ msgs = <<Msg("join", n), Msg("groups", 0)>>
                  /\ n \in asked' \/ 0 \in asked'

\* The timer and the receive thread ask for the lists.
LEMMA ListsAsked ==
  ASSUME AskFriends \/ AskGroups \/ Timer
  PROVE  toServer' = toServer \/ \E msgs : Asking(msgs) /\ SendFunction(msgs)
  <1>1. \E type \in {"friends", "groups"} : Ask(<<Msg(type, 0)>>)
    BY DEF AskFriends, AskGroups, Timer
  <1>2. PICK type \in {"friends", "groups"} : Ask(<<Msg(type, 0)>>)
    BY <1>1
  <1>3. IsSequence(<<Msg(type, 0)>>) /\ \A m \in ToSet(<<Msg(type, 0)>>) : Plain(m)
    BY SeqOne DEF Plain, Msg
  <1> QED BY <1>2, <1>3 DEF Asking, Ask

\* What the user asks for.
LEMMA UserAsks ==
  ASSUME \/ Login \/ Regist \/ ClickGroup \/ SendSingle \/ SendGroup
         \/ ConfirmGroup \/ ConfirmCreate \/ ConfirmFriend
  PROVE  toServer' = toServer \/ \E msgs : Asking(msgs) /\ SendFunction(msgs)
  <1> DEFINE Goal == toServer' = toServer \/ \E msgs : Asking(msgs) /\ SendFunction(msgs)
  <1>0. ASSUME NEW msgs, Asking(msgs), Ask(msgs) PROVE Goal
    BY <1>0 DEF Ask
  <1>1. ASSUME NEW m, Plain(m), Ask(<<m>>) PROVE Goal
    <2>1. Asking(<<m>>)
      BY <1>1, SeqOne DEF Asking
    <2> QED BY <1>0, <1>1, <2>1
  <1>2. CASE Login
    <2>1. toServer' = toServer \/ \E a : SendFunction(<<Msg("login", a)>>)
      BY <1>2 DEF Login
    <2> QED BY <1>2, <2>1, SeqOne DEF Asking
  <1>3. CASE Regist
    <2>1. \/ toServer' = toServer
          \/ \E u \in budget.names, p \in budget.passwords, r \in budget.passwords :
               /\ RegistAccepts(u, p, r)
               /\ SendFunction(<<Msg("register", [name |-> u, password |-> p])>>)
      BY <1>3 DEF Regist
    <2> QED BY <1>3, <2>1, SeqOne DEF Asking
  <1>4. CASE ClickGroup
    <2>1. Ask(<<Msg("profile", talkGroup')>>)
      BY <1>4 DEF ClickGroup
    <2> QED BY <1>0, <1>4, <2>1, SeqOne DEF Asking
  <1>5. CASE SendSingle
    BY <1>1, <1>5 DEF SendSingle, Plain, Msg
  <1>6. CASE SendGroup
    <2>1. PICK at \in budget.times : Ask(<<Msg("chat", Chat(made', Group(talkGroup), at))>>)
      BY <1>6 DEF SendGroup
    <2> QED BY <1>0, <1>6, <2>1, SeqOne DEF Asking
  <1>7. CASE ConfirmGroup
    <2>1. \E n : /\ Ask(<<Msg("join", n), Msg("groups", 0)>>)
                 /\ n \in asked' \/ 0 \in asked'
      BY <1>7 DEF ConfirmGroup
    <2> QED BY <1>0, <1>7, <2>1, SeqOne DEF Asking
  <1>8. CASE ConfirmCreate
    BY <1>1, <1>8 DEF ConfirmCreate, Plain, Msg
  <1>9. CASE ConfirmFriend
    <2>1. PICK f \in Friends \union {NoUser} : Ask(<<Msg("add", f), Msg("friends", 0)>>)
      BY <1>9 DEF ConfirmFriend
    <2>2. \A m \in ToSet(<<Msg("add", f), Msg("friends", 0)>>) : Plain(m)
      BY SeqOne DEF Plain, Msg
    <2> QED BY <1>0, <2>1, <2>2, SeqOne DEF Asking
  <1> QED BY <1>2, <1>3, <1>4, <1>5, <1>6, <1>7, <1>8, <1>9

\* A request leaves the socket, the server stops, a request gets lost, the client
\* asks, or the requests stay.
LEMMA ToServerFrame ==
  ASSUME [Next]_vars
  PROVE  \/ toServer' = toServer
         \/ HandleRequest /\ toServer # <<>> /\ toServer' = Tail(toServer)
         \/ toServer' = <<>>
         \/ LoseMessage \/ OverwriteRequest
         \/ \E msgs : Asking(msgs) /\ SendFunction(msgs)
  <1>1. CASE ClientThread
    BY <1>1 DEF ClientThread, HandleRequest, CreateFails, ServerEnds, DeleteClient, LoginStep,
      SetName, SelectStored, ReplayRow, EraseStored, LoginReceipt, InLogin, Handle, HandleRegister,
      HandleLogin, HandleFriends, HandleGroups, HandleAdd, HandleJoin, HandleCreate, HandleProfile,
      HandleGroupChat, HandleSingle
  <1>2. CASE Dispatch \/ Outside
    BY <1>2 DEF Dispatch, SndLookup, SndSend, SndSave, SndTake, SndStep, Outside, OtherLogin,
      LoginStep, SetName, SelectStored, ReplayRow, EraseStored, LoginReceipt, InLogin, OtherLeaves,
      WipeName, PeerSends, Wedge, ServerStops, ServerEnds, LoseMessage, OverwriteRequest, netVars
  <1>3. CASE Timer
    BY <1>3, ListsAsked
  <1>4. CASE ReceiveThread
    BY <1>4, ListsAsked DEF ReceiveThread, ReceiveRegistered, ReceiveLogin, ReceiveRefusal,
      ReceiveNotice, ReceiveChat, ReceiveFriends, UnpackEntry, ShowFriends, ReceiveAdded,
      ReceiveGroups, ShowGroups, ReceiveJoined, ReceiveProfile, ShowMain, ReceiveEnd, Exit, Take
  <1>5. CASE User
    BY <1>5, UserAsks DEF User, OtherWindow, ClickFriend, ChangeTab, Hover, Compose, SendNowhere,
      OpenDialog, CloseDialog, ConfirmBadNumber, Quit, Start, Exit
  <1>6. CASE UNCHANGED vars
    BY <1>6 DEF vars, netVars
  <1> QED BY <1>1, <1>2, <1>3, <1>4, <1>5, <1>6 DEF Next

\* What is on the way to the server after a step was there before or has just
\* been asked for.
LEMMA ToServerSet ==
  ASSUME IsSequence(toServer), [Next]_vars
  PROVE  /\ IsSequence(toServer')
         /\ \A m \in ToSet(toServer') :
              m \in ToSet(toServer) \/ \E msgs : Asking(msgs) /\ m \in ToSet(msgs)
  <1>1. CASE toServer' = toServer
    BY <1>1
  <1>2. CASE toServer # <<>> /\ toServer' = Tail(toServer)
    BY <1>2, SeqTail
  <1>3. CASE toServer' = <<>>
    BY <1>3, SeqOne
  <1>4. ASSUME NEW msgs, Asking(msgs), SendFunction(msgs)
        PROVE  /\ IsSequence(toServer')
               /\ \A m \in ToSet(toServer') : m \in ToSet(toServer) \/ m \in ToSet(msgs)
    <2>1. IsSequence(msgs)
      BY <1>4 DEF Asking
    <2>2. IsSequence(toServer \o msgs) /\ ToSet(toServer \o msgs) = ToSet(toServer) \union ToSet(msgs)
      BY <2>1, SeqConcat
    <2> QED BY <1>4, <2>2 DEF SendFunction
  <1>5. DOMAIN toServer = 1..Len(toServer)
    BY SeqFacts
  <1>6. CASE LoseMessage
    <2>1. toServer' = toServer \/ \E i \in 1..Len(toServer) : toServer' = RemoveAt(toServer, i)
      BY <1>5, <1>6 DEF LoseMessage
    <2> QED BY <1>1, <2>1, SeqRemove
  <1>7. CASE OverwriteRequest
    <2>1. PICK i, j \in 1..Len(toServer) : toServer' = [toServer EXCEPT ![i] = toServer[j]]
      BY <1>5, <1>7 DEF OverwriteRequest
    <2> QED BY <2>1, SeqReplace
  <1> QED BY <1>1, <1>2, <1>3, <1>4, <1>6, <1>7, ToServerFrame

-----------------------------------------------------------------------------
(* Groups joined. *)

\* A number is on the way to the server only after it was typed.
JoinInv ==
  /\ BudgetInv
  /\ IsSequence(toServer) /\ IsSequence(joined)
  /\ \A m \in ToSet(toServer) : m.type = "join" => m.about \in asked \/ 0 \in asked
  /\ JoinedAsAsked

\* Only two requests change the user's memberships, and nothing that was asked
\* for is forgotten.
LEMMA JoinFrame ==
  ASSUME [Next]_vars
  PROVE  /\ asked \subseteq asked'
         /\ joined' = joined \/ HandleJoin \/ HandleCreate
  <1>1. CASE ClientThread
    BY <1>1 DEF ClientThread, HandleRequest, CreateFails, ServerEnds, DeleteClient, LoginStep,
      SetName, SelectStored, ReplayRow, EraseStored, LoginReceipt, InLogin, Handle, HandleRegister,
      HandleLogin, HandleFriends, HandleGroups, HandleAdd, HandleJoin, HandleCreate, HandleProfile,
      HandleGroupChat, HandleSingle, SendByName, tables, runHistory
  <1>2. CASE Dispatch \/ Timer \/ Outside
    BY <1>2 DEF Dispatch, SndLookup, SndSend, SndSave, SndTake, SndStep, Timer, Outside, OtherLogin,
      LoginStep, SetName, SelectStored, ReplayRow, EraseStored, LoginReceipt, InLogin, OtherLeaves,
      WipeName, PeerSends, Wedge, ServerStops, ServerEnds, LoseMessage, OverwriteRequest, tables, runHistory,
      serverEnd
  <1>3. CASE ReceiveThread
    BY <1>3 DEF ReceiveThread, ReceiveRegistered, ReceiveLogin, ReceiveRefusal, ReceiveNotice,
      ReceiveChat, ReceiveFriends, UnpackEntry, ShowFriends, ReceiveAdded, ReceiveGroups, ShowGroups,
      ReceiveJoined, ReceiveProfile, ShowMain, AskFriends, AskGroups, ReceiveEnd, Exit, Take, Busy,
      serverEnd, tables, runHistory
  <1>4. CASE User
    BY <1>4 DEF User, Login, Regist, OtherWindow, ClickFriend, ClickGroup, ChangeTab, Hover, Compose,
      SendSingle, SendGroup, SendNowhere, OpenDialog, CloseDialog, ConfirmBadNumber, ConfirmGroup,
      ConfirmCreate, ConfirmFriend, Quit, Start, Exit, InMain, UserActs, serverEnd, tables, runHistory
  <1>5. CASE UNCHANGED vars
    BY <1>5 DEF vars, tables, runHistory
  <1> QED BY <1>1, <1>2, <1>3, <1>4, <1>5 DEF Next

\* No step joins a group that was not asked for.
LEMMA JoinStep == JoinInv /\ [Next]_vars => JoinInv'
  <1> SUFFICES ASSUME JoinInv, [Next]_vars PROVE JoinInv'
    OBVIOUS
  <1>1. BudgetInv' /\ budget'.joined = budget.joined
    BY BudgetFrame DEF JoinInv
  <1>2. asked \subseteq asked'
    BY JoinFrame
  <1>3. IsSequence(toServer') /\
        \A m \in ToSet(toServer') : m.type = "join" => m.about \in asked' \/ 0 \in asked'
    <2>1. ASSUME NEW msgs, Asking(msgs), NEW m \in ToSet(msgs), m.type = "join"
          PROVE  m.about \in asked' \/ 0 \in asked'
      BY <2>1, SeqOne DEF Asking, Plain, Msg
    <2>2. ASSUME NEW m \in ToSet(toServer'), m.type = "join" PROVE m.about \in asked' \/ 0 \in asked'
      BY <1>2, <2>1, <2>2, ToServerSet DEF JoinInv
    <2> QED BY <2>2, ToServerSet DEF JoinInv
  <1>4. IsSequence(joined') /\ JoinedAsAsked'
    <2>1. CASE joined' = joined
      BY <1>1, <1>2, <2>1 DEF JoinInv, JoinedAsAsked
    <2>2. ASSUME NEW g, joined' = Append(joined, g), g \in asked' \/ 0 \in asked'
          PROVE  IsSequence(joined') /\ JoinedAsAsked'
      <3>1. IsSequence(joined') /\ ToSet(joined') = ToSet(joined) \union {g}
        BY <2>2, SeqAppend DEF JoinInv
      <3> QED BY <1>1, <1>2, <2>2, <3>1 DEF JoinInv, JoinedAsAsked
    <2>3. CASE HandleJoin
      <3>1. /\ toServer # <<>> /\ Head(toServer).type = "join" /\ asked' = asked
            /\ joined' = joined \/ joined' = Append(joined, Head(toServer).about)
        BY <2>3 DEF HandleJoin, Handle, Join
      <3>2. Head(toServer) \in ToSet(toServer)
        BY <3>1, SeqTail DEF JoinInv
      <3> QED BY <2>1, <2>2, <3>1, <3>2 DEF JoinInv
    <2>4. CASE HandleCreate
      BY <2>1, <2>2, <2>4 DEF HandleCreate, Join
    <2> QED BY <2>1, <2>3, <2>4, JoinFrame
  <1> QED BY <1>1, <1>3, <1>4 DEF JoinInv

\* The user is in no group but those of the start, those joined by a number
\* that was typed and those created.
THEOREM JoinedOnlyAsAsked == Spec => []JoinedAsAsked
  <1>1. Init => JoinInv
    <2> SUFFICES ASSUME Init PROVE JoinInv
      OBVIOUS
    <2>1. BudgetInv /\ joined = budget.joined /\ toServer = <<>>
      BY BudgetInit DEF Init
    <2>2. joined \in Seq(Groups)
      BY <2>1 DEF BudgetInv, Budget
    <2> QED BY <2>1, <2>2, SeqOne DEF JoinInv, JoinedAsAsked, IsSequence
  <1>2. JoinInv => JoinedAsAsked
    BY DEF JoinInv
  <1> QED BY <1>1, <1>2, JoinStep, PTL DEF Spec

-----------------------------------------------------------------------------
(* Accounts. *)

\* An account that is on the way to the server can be used to log in.
AccountInv ==
  /\ BudgetInv
  /\ IsSequence(toServer)
  /\ \A m \in ToSet(toServer) :
       m.type = "register" /\ m.about.name # <<>> => LoginAccepts(m.about.name, m.about.password)
  /\ AccountsUsable

\* Only a registration makes an account.
LEMMA AccountFrame ==
  ASSUME [Next]_vars
  PROVE  accounts' = accounts \/ HandleRegister
  <1>1. CASE ClientThread
    BY <1>1 DEF ClientThread, HandleRequest, CreateFails, ServerEnds, DeleteClient, LoginStep,
      SetName, SelectStored, ReplayRow, EraseStored, LoginReceipt, InLogin, Handle, HandleRegister,
      HandleLogin, HandleFriends, HandleGroups, HandleAdd, HandleJoin, HandleCreate, HandleProfile,
      HandleGroupChat, HandleSingle, tables
  <1>2. CASE Dispatch \/ Timer \/ Outside
    BY <1>2 DEF Dispatch, SndLookup, SndSend, SndSave, SndTake, SndStep, Timer, Outside, OtherLogin,
      LoginStep, SetName, SelectStored, ReplayRow, EraseStored, LoginReceipt, InLogin, OtherLeaves,
      WipeName, PeerSends, Wedge, ServerStops, ServerEnds, LoseMessage, OverwriteRequest, tables,
      serverEnd
  <1>3. CASE ReceiveThread
    BY <1>3 DEF ReceiveThread, ReceiveRegistered, ReceiveLogin, ReceiveRefusal, ReceiveNotice,
      ReceiveChat, ReceiveFriends, UnpackEntry, ShowFriends, ReceiveAdded, ReceiveGroups, ShowGroups,
      ReceiveJoined, ReceiveProfile, ShowMain, AskFriends, AskGroups, ReceiveEnd, Exit, Take, Busy,
      serverEnd, tables
  <1>4. CASE User
    BY <1>4 DEF User, Login, Regist, OtherWindow, ClickFriend, ClickGroup, ChangeTab, Hover, Compose,
      SendSingle, SendGroup, SendNowhere, OpenDialog, CloseDialog, ConfirmBadNumber, ConfirmGroup,
      ConfirmCreate, ConfirmFriend, Quit, Start, Exit, InMain, UserActs, serverEnd, tables
  <1>5. CASE UNCHANGED vars
    BY <1>5 DEF vars, tables
  <1> QED BY <1>1, <1>2, <1>3, <1>4, <1>5 DEF Next

\* What passes the check of the registration window passes that of the login
\* window, but for the empty name.
LEMMA RegisteredCanLogIn ==
  ASSUME NEW u \in Seq(STRING), NEW p \in Seq(STRING), NEW r, RegistAccepts(u, p, r), u # <<>>
  PROVE  LoginAccepts(u, p)
  <1>1. Len(u) # 0
    BY EmptySeq
  <1>2. PasswordCheck(u, p)
    BY DEF RegistAccepts
  <1>3. Len(p) # 0
    <2>1. Len(p) \in 6..16
      BY <1>2 DEF PasswordCheck
    <2>2. \A n \in 6..16 : n # 0
      OBVIOUS
    <2> QED BY <2>1, <2>2, Zenon
  <1> QED BY <1>1, <1>2, <1>3, Zenon DEF LoginAccepts

\* No step makes an account that cannot be used.
LEMMA AccountStep == AccountInv /\ [Next]_vars => AccountInv'
  <1> SUFFICES ASSUME AccountInv, [Next]_vars PROVE AccountInv'
    OBVIOUS
  <1>1. BudgetInv' /\ BudgetInv
    BY BudgetFrame DEF AccountInv
  <1>2. ASSUME NEW msgs, Asking(msgs), NEW m \in ToSet(msgs), m.type = "register",
               m.about.name # <<>>
        PROVE  LoginAccepts(m.about.name, m.about.password)
    <2>1. \E u \in budget.names, p \in budget.passwords, r \in budget.passwords :
            RegistAccepts(u, p, r) /\ m = Msg("register", [name |-> u, password |-> p])
      BY <1>2, SeqOne DEF Asking, Plain, Msg
    <2>2. PICK u \in budget.names, p \in budget.passwords, r \in budget.passwords :
            RegistAccepts(u, p, r) /\ m = Msg("register", [name |-> u, password |-> p])
      BY <2>1
    <2>3. u \in Seq(STRING) /\ p \in Seq(STRING)
      BY <1>1 DEF BudgetInv, Budget
    <2>4. m.about.name = u /\ m.about.password = p
      BY <2>2 DEF Msg
    <2> QED BY <1>2, <2>2, <2>3, <2>4, RegisteredCanLogIn
  <1>3. /\ IsSequence(toServer')
        /\ \A m \in ToSet(toServer') : m.type = "register" /\ m.about.name # <<>>
             => LoginAccepts(m.about.name, m.about.password)
    BY <1>2, ToServerSet DEF AccountInv
  <1>4. AccountsUsable'
    <2>1. CASE accounts' = accounts
      BY <2>1 DEF AccountInv, AccountsUsable
    <2>2. CASE HandleRegister
      <3>1. /\ toServer # <<>> /\ Head(toServer).type = "register"
            /\ accounts' \subseteq accounts \union {Head(toServer).about}
        BY <2>2 DEF HandleRegister, Handle
      <3>2. Head(toServer) \in ToSet(toServer)
        BY <3>1, SeqTail DEF AccountInv
      <3> QED BY <3>1, <3>2 DEF AccountInv, AccountsUsable
    <2> QED BY <2>1, <2>2, AccountFrame
  <1> QED BY <1>1, <1>3, <1>4 DEF AccountInv

\* Whoever registers, with whatever name and password the window accepts, can
\* log in afterwards, unless the name is empty.
THEOREM AccountsCanLogIn == Spec => []AccountsUsable
  <1>1. Init => AccountInv
    BY BudgetInit, SeqOne, AccountAssumption DEF Init, AccountInv, AccountsUsable
  <1>2. AccountInv => AccountsUsable
    BY DEF AccountInv
  <1> QED BY <1>1, <1>2, AccountStep, PTL DEF Spec

-----------------------------------------------------------------------------
(* Messages of one type. *)

\* There is at most one message of the type.
Few(s, type) ==
  \A i, j \in 1..Len(s) : s[i].type = type /\ s[j].type = type => i = j

\* The types of the messages of s, index by index.
LEMMA TypesFacts ==
  ASSUME NEW s, IsSequence(s)
  PROVE  /\ \A x : x \in Types(s) <=> \E i \in 1..Len(s) : x = s[i].type
         /\ \A i \in 1..Len(s) : s[i].type \in Types(s)
  <1>1. DOMAIN s = 1..Len(s)
    BY SeqFacts
  <1> QED BY <1>1 DEF Types

\* No messages have no type.
LEMMA TypesNone == Types(<<>>) = {} /\ \A type : Few(<<>>, type)
  <1>1. Types(<<>>) = {}
    BY TypesFacts, SeqOne
  <1> QED BY <1>1, SeqOne DEF Few

\* The types after one more message, which keeps a type few when there was none
\* of it.
LEMMA TypesAppend ==
  ASSUME NEW s, IsSequence(s), NEW x
  PROVE  /\ Types(Append(s, x)) = Types(s) \union {x.type}
         /\ \A type : Few(s, type) /\ (x.type # type \/ type \notin Types(s))
                      => Few(Append(s, x), type)
  <1>1. /\ IsSequence(Append(s, x)) /\ Len(Append(s, x)) = Len(s) + 1
        /\ \A i \in 1..Len(s) : Append(s, x)[i] = s[i]
        /\ Append(s, x)[Len(s) + 1] = x
    BY SeqAppend
  <1>2. Len(s) \in Nat
    BY SeqFacts
  <1>3. /\ \A i \in 1..(Len(s) + 1) : i \in 1..Len(s) \/ i = Len(s) + 1
        /\ \A i \in 1..Len(s) : i \in 1..(Len(s) + 1)
        /\ Len(s) + 1 \in 1..(Len(s) + 1)
    BY <1>2
  <1>4. /\ \A y : y \in Types(s) <=> \E i \in 1..Len(s) : y = s[i].type
        /\ \A y : y \in Types(Append(s, x)) <=>
             \E i \in 1..Len(Append(s, x)) : y = Append(s, x)[i].type
    BY <1>1, TypesFacts
  <1>5. Types(Append(s, x)) = Types(s) \union {x.type}
    BY <1>1, <1>3, <1>4
  <1>6. ASSUME NEW type, Few(s, type), x.type # type \/ type \notin Types(s)
        PROVE  Few(Append(s, x), type)
    <2> SUFFICES ASSUME NEW i \in 1..(Len(s) + 1), NEW j \in 1..(Len(s) + 1),
                        Append(s, x)[i].type = type, Append(s, x)[j].type = type
                 PROVE  i = j
      BY <1>1 DEF Few
    <2>1. i \in 1..Len(s) /\ j \in 1..Len(s) => i = j
      BY <1>1, <1>6 DEF Few
    <2>2. \A k \in 1..Len(s) : s[k].type = type => x.type # type
      BY <1>4, <1>6
    <2> QED BY <1>1, <1>3, <2>1, <2>2
  <1> QED BY <1>5, <1>6

\* The types after the first message is taken: the only one of its type is gone.
LEMMA TypesTail ==
  ASSUME NEW s, IsSequence(s), s # <<>>
  PROVE  /\ Types(Tail(s)) \subseteq Types(s) /\ Head(s).type \in Types(s)
         /\ \A type : Few(s, type) =>
              Few(Tail(s), type) /\ (Head(s).type = type => type \notin Types(Tail(s)))
  <1>1. /\ IsSequence(Tail(s)) /\ Len(Tail(s)) = Len(s) - 1 /\ Head(s) = s[1]
        /\ \A i \in 1..(Len(s) - 1) : Tail(s)[i] = s[i + 1]
    BY SeqTail
  <1>2. Len(s) \in Nat /\ Len(s) >= 1
    BY SeqFacts
  <1>3. /\ \A i \in 1..(Len(s) - 1) : i + 1 \in 1..Len(s) /\ i + 1 # 1
        /\ 1 \in 1..Len(s)
        /\ \A i, j \in 1..(Len(s) - 1) : i + 1 = j + 1 => i = j
    BY <1>2
  <1>4. /\ \A y : y \in Types(s) <=> \E i \in 1..Len(s) : y = s[i].type
        /\ \A y : y \in Types(Tail(s)) <=> \E i \in 1..Len(Tail(s)) : y = Tail(s)[i].type
    BY <1>1, TypesFacts
  <1>5. Types(Tail(s)) \subseteq Types(s) /\ Head(s).type \in Types(s)
    BY <1>1, <1>3, <1>4
  <1>6. ASSUME NEW type, Few(s, type)
        PROVE  Few(Tail(s), type) /\ (Head(s).type = type => type \notin Types(Tail(s)))
    <2>1. ASSUME NEW i \in 1..(Len(s) - 1), NEW j \in 1..(Len(s) - 1),
                 Tail(s)[i].type = type, Tail(s)[j].type = type
          PROVE  i = j
      BY <1>1, <1>3, <1>6, <2>1 DEF Few
    <2>2. ASSUME NEW i \in 1..(Len(s) - 1), Tail(s)[i].type = type PROVE s[1].type # type
      BY <1>1, <1>3, <1>6, <2>2 DEF Few
    <2> QED BY <1>1, <1>4, <2>1, <2>2 DEF Few
  <1> QED BY <1>5, <1>6

\* The types of two sequences together.
LEMMA TypesConcat ==
  ASSUME NEW s, NEW t, IsSequence(s), IsSequence(t)
  PROVE  /\ Types(s \o t) = Types(s) \union Types(t)
         /\ \A type : /\ Few(s, type) /\ Few(t, type)
                      /\ type \notin Types(s) \/ type \notin Types(t)
                      => Few(s \o t, type)
  <1>1. /\ IsSequence(s \o t) /\ Len(s \o t) = Len(s) + Len(t)
        /\ \A i \in 1..Len(s) : (s \o t)[i] = s[i]
        /\ \A i \in 1..Len(t) : (s \o t)[Len(s) + i] = t[i]
    BY SeqConcat
  <1>2. Len(s) \in Nat /\ Len(t) \in Nat
    BY SeqFacts
  <1>3. /\ \A i \in 1..(Len(s) + Len(t)) :
             i \in 1..Len(s) \/ \E k \in 1..Len(t) : i = Len(s) + k
        /\ \A i \in 1..Len(s) : i \in 1..(Len(s) + Len(t))
        /\ \A i \in 1..Len(t) : Len(s) + i \in 1..(Len(s) + Len(t))
    <2>1. ASSUME NEW i \in 1..(Len(s) + Len(t)), i \notin 1..Len(s)
          PROVE  i - Len(s) \in 1..Len(t) /\ i = Len(s) + (i - Len(s))
      BY <1>2, <2>1
    <2>2. /\ \A i \in 1..Len(s) : i \in 1..(Len(s) + Len(t))
          /\ \A i \in 1..Len(t) : Len(s) + i \in 1..(Len(s) + Len(t))
      BY <1>2
    <2> QED BY <2>1, <2>2
  <1>4. /\ \A y : y \in Types(s) <=> \E i \in 1..Len(s) : y = s[i].type
        /\ \A y : y \in Types(t) <=> \E i \in 1..Len(t) : y = t[i].type
        /\ \A y : y \in Types(s \o t) <=> \E i \in 1..Len(s \o t) : y = (s \o t)[i].type
    BY <1>1, TypesFacts
  <1>5. Types(s \o t) = Types(s) \union Types(t)
    <2>1. ASSUME NEW y \in Types(s \o t) PROVE y \in Types(s) \union Types(t)
      BY <1>1, <1>3, <1>4
    <2>2. ASSUME NEW y \in Types(s) PROVE y \in Types(s \o t)
      <3>1. PICK k \in 1..Len(s) : y = s[k].type
        BY <1>4
      <3> QED BY <1>1, <1>3, <1>4, <3>1
    <2>3. ASSUME NEW y \in Types(t) PROVE y \in Types(s \o t)
      <3>1. PICK k \in 1..Len(t) : y = t[k].type
        BY <1>4
      <3>2. y = (s \o t)[Len(s) + k].type
        BY <1>1, <3>1
      <3> QED BY <1>1, <1>3, <1>4, <3>2
    <2> QED BY <2>1, <2>2, <2>3
  <1>6. ASSUME NEW type, Few(s, type), Few(t, type),
               type \notin Types(s) \/ type \notin Types(t)
        PROVE  Few(s \o t, type)
    <2> SUFFICES ASSUME NEW i \in 1..(Len(s) + Len(t)), NEW j \in 1..(Len(s) + Len(t)),
                        (s \o t)[i].type = type, (s \o t)[j].type = type
                 PROVE  i = j
      BY <1>1 DEF Few
    <2>1. CASE type \notin Types(s)
      <3>1. \A k \in 1..Len(s) : s[k].type # type
        BY <1>4, <2>1
      <3>2. i \notin 1..Len(s) /\ j \notin 1..Len(s)
        BY <1>1, <3>1
      <3>3. PICK k \in 1..Len(t) : i = Len(s) + k
        BY <1>3, <3>2
      <3>4. PICK l \in 1..Len(t) : j = Len(s) + l
        BY <1>3, <3>2
      <3> QED BY <1>1, <1>6, <3>3, <3>4 DEF Few
    <2>2. CASE type \notin Types(t)
      <3>1. \A k \in 1..Len(t) : t[k].type # type
        BY <1>4, <2>2
      <3>2. \A k \in 1..Len(t) : (s \o t)[Len(s) + k].type # type
        BY <1>1, <3>1
      <3>3. i \in 1..Len(s)
        BY <1>3, <3>2
      <3>4. j \in 1..Len(s)
        BY <1>3, <3>2
      <3> QED BY <1>1, <1>6, <3>3, <3>4 DEF Few
    <2> QED BY <1>6, <2>1, <2>2
  <1> QED BY <1>5, <1>6

\* The type of one message.
LEMMA TypesOne ==
  ASSUME NEW x
  PROVE  Types(<<x>>) = {x.type} /\ \A type : Few(<<x>>, type)
  <1>1. IsSequence(<<x>>) /\ Len(<<x>>) = 1 /\ <<x>>[1] = x
    BY SeqOne
  <1>2. \A y : y \in Types(<<x>>) <=> \E i \in 1..Len(<<x>>) : y = <<x>>[i].type
    BY <1>1, TypesFacts
  <1> QED BY <1>1, <1>2 DEF Few
=============================================================================
