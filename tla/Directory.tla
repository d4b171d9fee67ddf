------------------------------ MODULE Directory ------------------------------
(***************************************************************************)
(* The tables of src/server/server.c that outlive a session: accounts,       *)
(* contacts, groups and members, and the requests that change them.  Every   *)
(* request is a series of SQL statements that look before they write; the    *)
(* client threads run them with no transaction around them, so the           *)
(* statements of two requests interleave.  The one exception is the join     *)
(* that create_group runs in a row callback: sqlite3_exec holds the mutex of *)
(* the connection until the callback returns.                                *)
(*                                                                           *)
(* A statement reads or writes atomically; a write may fail (the disk is     *)
(* full), a read does not.  The requests that only read (friend list, group  *)
(* list, group profile, group message) are left out.  Passwords are left     *)
(* out: a request of a user comes from a client that has logged in.          *)
(***************************************************************************)
EXTENDS Integers, Sequences

CONSTANTS Clients,   \* client threads
          Nobody,    \* the owner of a free mutex
          Users,     \* user names
          NoUser,    \* the value of who and friend outside a request
          MaxGroups, \* bound: groups created
          MaxRows    \* bound: no request adds a row once this many are equal

ASSUME ThreadAssumption == Nobody \notin Clients
ASSUME UserAssumption   == NoUser \notin Users
ASSUME BoundsAssumption == MaxGroups \in Nat /\ MaxRows \in Nat

GroupIds == 1..MaxGroups

VARIABLES
  accounts,    \* table alluser
  contacts,    \* contacts[u][v]: equal rows <<u, v>> in table contacts
  grouplist,   \* table grouplist: the creator of each group, in order of groupID
  groupmember, \* groupmember[g][u]: equal rows <<g, u>> in table groupmember
  dbMutex,     \* owner of the mutex of the connection, kept across a row callback
  pc,          \* the statement each client thread is at
  who,         \* who[t]: the user of its request
  friend,      \* friend[t]: the contact to add
  group,       \* group[t]: the group to join or quit, 0 if there is none
  status,      \* status[t]: the status its receipt will have
  made,        \* made[t]: the group its create_group has inserted (history)
  overlap      \* users with two requests in progress at some time (history)

tables  == <<accounts, contacts, grouplist, groupmember>>
request == <<who, friend, group, made>>
vars    == <<tables, dbMutex, pc, request, status, overlap>>

-----------------------------------------------------------------------------
Init ==
  /\ accounts = {}
  /\ contacts = [u \in Users |-> [v \in Users |-> 0]]
  /\ grouplist = <<>>
  /\ groupmember = [g \in GroupIds |-> [u \in Users |-> 0]]
  /\ dbMutex = Nobody
  /\ pc = [t \in Clients |-> "idle"]
  /\ who = [t \in Clients |-> NoUser]
  /\ friend = [t \in Clients |-> NoUser]
  /\ group = [t \in Clients |-> 0]
  /\ status = [t \in Clients |-> 0]
  /\ made = [t \in Clients |-> 0]
  /\ overlap = {}

-----------------------------------------------------------------------------
\* A statement waits while another thread is inside a row callback.
Statement(t) == dbMutex \in {Nobody, t}

Goto(t, label) == pc' = [pc EXCEPT ![t] = label]

\* The request gets its status and has only its receipt left to send.
Reply(t, label, s) ==
  /\ Goto(t, label)
  /\ status' = [status EXCEPT ![t] = s]

\* handle_client_message calls the handler of a request of user u.  It does not
\* look whether u is an account; the client asks nothing before login and names
\* whoever has logged in there.
Begin(t, u) ==
  /\ pc[t] = "idle"
  /\ u \in accounts
  /\ who' = [who EXCEPT ![t] = u]
  /\ overlap' = IF \E s \in Clients : who[s] = u THEN overlap \union {u} ELSE overlap

\* The handler returns, and so does the sqlite3_exec it may have run in.
Return(t) ==
  /\ Goto(t, "idle")
  /\ who' = [who EXCEPT ![t] = NoUser]
  /\ friend' = [friend EXCEPT ![t] = NoUser]
  /\ group' = [group EXCEPT ![t] = 0]
  /\ status' = [status EXCEPT ![t] = 0]
  /\ made' = [made EXCEPT ![t] = 0]
  /\ dbMutex' = IF dbMutex = t THEN Nobody ELSE dbMutex

\* The receipt of add_contact, join_group or quit_group.
Answer(t) ==
  /\ pc[t] \in {"answerContact", "answerJoin", "answerQuit"}
  /\ Return(t)
  /\ UNCHANGED <<tables, overlap>>

\* A definition called Faulty... is its namesake with a bug put in; no action
\* uses it.  Each one shows which property notices that bug.

-----------------------------------------------------------------------------
(* user_register: the primary key decides; a name that is taken changes nothing. *)

Register(t, u) ==
  /\ pc[t] = "idle"
  /\ Statement(t)
  /\ u \notin accounts
  /\ accounts' = accounts \union {u}
  /\ UNCHANGED <<contacts, grouplist, groupmember, dbMutex, pc, request, status, overlap>>

-----------------------------------------------------------------------------
(* add_contact *)

StartContact(t, u, v) ==
  /\ Begin(t, u)
  /\ contacts[u][v] < MaxRows
  /\ friend' = [friend EXCEPT ![t] = v]
  /\ IF u = v THEN Reply(t, "answerContact", -1) ELSE Reply(t, "account", 0)
  /\ UNCHANGED <<tables, dbMutex, group, made>>

AccountFound(t) ==
  /\ pc[t] = "account"
  /\ Statement(t)
  /\ friend[t] \in accounts
  /\ Goto(t, "contact")
  /\ UNCHANGED <<tables, dbMutex, request, status, overlap>>

AccountMissing(t) ==
  /\ pc[t] = "account"
  /\ Statement(t)
  /\ friend[t] \notin accounts
  /\ Reply(t, "answerContact", 0)
  /\ UNCHANGED <<tables, dbMutex, request, overlap>>

\* Already a contact: the handler returns without a receipt.
ContactFound(t) ==
  /\ pc[t] = "contact"
  /\ Statement(t)
  /\ contacts[who[t]][friend[t]] = 1
  /\ Return(t)
  /\ UNCHANGED <<tables, overlap>>

\* The test is for exactly one row.
ContactAbsent(t) ==
  /\ pc[t] = "contact"
  /\ Statement(t)
  /\ contacts[who[t]][friend[t]] # 1
  /\ Goto(t, "addContact")
  /\ UNCHANGED <<tables, dbMutex, request, status, overlap>>

AddContact(t) ==
  /\ pc[t] = "addContact"
  /\ Statement(t)
  /\ contacts' = [contacts EXCEPT ![who[t]][friend[t]] = @ + 1]
  /\ Reply(t, "answerContact", 1)
  /\ UNCHANGED <<accounts, grouplist, groupmember, dbMutex, request, overlap>>

AddContactFails(t) ==
  /\ pc[t] = "addContact"
  /\ Statement(t)
  /\ Reply(t, "answerContact", 0)
  /\ UNCHANGED <<tables, dbMutex, request, overlap>>

-----------------------------------------------------------------------------
(* create_group *)

\* The insert; autoincrement numbers the groups from 1.
StartCreate(t, u) ==
  /\ Begin(t, u)
  /\ Statement(t)
  /\ Len(grouplist) < MaxGroups
  /\ grouplist' = Append(grouplist, u)
  /\ made' = [made EXCEPT ![t] = Len(grouplist')]
  /\ Goto(t, "latest")
  /\ UNCHANGED <<accounts, contacts, groupmember, dbMutex, friend, group, status>>

\* Without the "desc": the oldest group of the creator.
FaultyLatest(u) == {g \in DOMAIN grouplist :
                      /\ grouplist[g] = u
                      /\ \A h \in DOMAIN grouplist : h < g => grouplist[h] # u}

\* The groups that the select of create_group can return: the newest of u.
Latest(u) == {g \in DOMAIN grouplist :
                /\ grouplist[g] = u
                /\ \A h \in DOMAIN grouplist : h > g => grouplist[h] # u}

\* The announced group is the one after the last.
FaultyAnnounce(t) ==
  /\ pc[t] = "latest"
  /\ Statement(t)
  /\ group' = [group EXCEPT ![t] = Len(grouplist) + 1]
  /\ dbMutex' = t
  /\ Goto(t, "joinGroup")
  /\ UNCHANGED <<tables, who, friend, made, status, overlap>>

\* The select and the first half of create_group_callback: the group is
\* announced, and join_group runs with the mutex of the connection held.
Announce(t) ==
  /\ pc[t] = "latest"
  /\ Statement(t)
  /\ \E g \in Latest(who[t]) : group' = [group EXCEPT ![t] = g]
  /\ dbMutex' = t
  /\ Goto(t, "joinGroup")
  /\ UNCHANGED <<tables, who, friend, made, status, overlap>>

-----------------------------------------------------------------------------
(* join_group *)

StartJoin(t, u, g) ==
  /\ Begin(t, u)
  /\ groupmember[g][u] < MaxRows
  /\ group' = [group EXCEPT ![t] = g]
  /\ Goto(t, "joinGroup")
  /\ UNCHANGED <<tables, dbMutex, friend, made, status>>

\* group_exist taken for granted.
FaultyGroupFound(t) ==
  /\ pc[t] = "joinGroup"
  /\ Statement(t)
  /\ Goto(t, "joinRow")
  /\ UNCHANGED <<tables, dbMutex, request, status, overlap>>

GroupFound(t) ==
  /\ pc[t] = "joinGroup"
  /\ Statement(t)
  /\ group[t] \in DOMAIN grouplist
  /\ Goto(t, "joinRow")
  /\ UNCHANGED <<tables, dbMutex, request, status, overlap>>

GroupMissing(t) ==
  /\ pc[t] = "joinGroup"
  /\ Statement(t)
  /\ group[t] \notin DOMAIN grouplist
  /\ Reply(t, "answerJoin", 0)
  /\ UNCHANGED <<tables, dbMutex, request, overlap>>

\* The rows of the user are not looked at.
FaultyNotMember(t) ==
  /\ pc[t] = "joinRow"
  /\ Statement(t)
  /\ Goto(t, "joinInsert")
  /\ UNCHANGED <<tables, dbMutex, request, status, overlap>>

NotMember(t) ==
  /\ pc[t] = "joinRow"
  /\ Statement(t)
  /\ groupmember[group[t]][who[t]] = 0
  /\ Goto(t, "joinInsert")
  /\ UNCHANGED <<tables, dbMutex, request, status, overlap>>

AlreadyMember(t) ==
  /\ pc[t] = "joinRow"
  /\ Statement(t)
  /\ groupmember[group[t]][who[t]] # 0
  /\ Reply(t, "answerJoin", 0)
  /\ UNCHANGED <<tables, dbMutex, request, overlap>>

JoinInsert(t) ==
  /\ pc[t] = "joinInsert"
  /\ Statement(t)
  /\ groupmember' = [groupmember EXCEPT ![group[t]][who[t]] = @ + 1]
  /\ Reply(t, "answerJoin", 1)
  /\ UNCHANGED <<accounts, contacts, grouplist, dbMutex, request, overlap>>

JoinFails(t) ==
  /\ pc[t] = "joinInsert"
  /\ Statement(t)
  /\ Reply(t, "answerJoin", 0)
  /\ UNCHANGED <<tables, dbMutex, request, overlap>>

-----------------------------------------------------------------------------
(* quit_group.  Groups are never deleted, so its second call of group_exist
   repeats the first one's answer and has no step of its own. *)

StartQuit(t, u, g) ==
  /\ Begin(t, u)
  /\ group' = [group EXCEPT ![t] = g]
  /\ Goto(t, "quitGroup")
  /\ UNCHANGED <<tables, dbMutex, friend, made, status>>

QuitGroupFound(t) ==
  /\ pc[t] = "quitGroup"
  /\ Statement(t)
  /\ group[t] \in DOMAIN grouplist
  /\ Goto(t, "quitRow")
  /\ UNCHANGED <<tables, dbMutex, request, status, overlap>>

QuitGroupMissing(t) ==
  /\ pc[t] = "quitGroup"
  /\ Statement(t)
  /\ group[t] \notin DOMAIN grouplist
  /\ Reply(t, "answerQuit", 0)
  /\ UNCHANGED <<tables, dbMutex, request, overlap>>

\* The test is for exactly one row: whoever is in a group twice cannot quit it.
Member(t) ==
  /\ pc[t] = "quitRow"
  /\ Statement(t)
  /\ groupmember[group[t]][who[t]] = 1
  /\ Goto(t, "quitDelete")
  /\ UNCHANGED <<tables, dbMutex, request, status, overlap>>

NoMember(t) ==
  /\ pc[t] = "quitRow"
  /\ Statement(t)
  /\ groupmember[group[t]][who[t]] # 1
  /\ Reply(t, "answerQuit", 0)
  /\ UNCHANGED <<tables, dbMutex, request, overlap>>

\* The delete without the member: everybody is out.
FaultyQuitDelete(t) ==
  /\ pc[t] = "quitDelete"
  /\ Statement(t)
  /\ groupmember' = [groupmember EXCEPT ![group[t]] = [u \in Users |-> 0]]
  /\ Reply(t, "answerQuit", 1)
  /\ UNCHANGED <<accounts, contacts, grouplist, dbMutex, request, overlap>>

QuitDelete(t) ==
  /\ pc[t] = "quitDelete"
  /\ Statement(t)
  /\ groupmember' = [groupmember EXCEPT ![group[t]][who[t]] = 0]
  /\ Reply(t, "answerQuit", 1)
  /\ UNCHANGED <<accounts, contacts, grouplist, dbMutex, request, overlap>>

QuitFails(t) ==
  /\ pc[t] = "quitDelete"
  /\ Statement(t)
  /\ Reply(t, "answerQuit", 0)
  /\ UNCHANGED <<tables, dbMutex, request, overlap>>

-----------------------------------------------------------------------------
\* exit_server, a crash, or the failed insert of create_group (its message is
\* declared char and the sprintf that follows writes to no valid address), and
\* then init_server: the tables are on disk, the requests are gone.
Restart ==
  /\ pc' = [t \in Clients |-> "idle"]
  /\ who' = [t \in Clients |-> NoUser]
  /\ friend' = [t \in Clients |-> NoUser]
  /\ group' = [t \in Clients |-> 0]
  /\ status' = [t \in Clients |-> 0]
  /\ made' = [t \in Clients |-> 0]
  /\ dbMutex' = Nobody
  /\ UNCHANGED <<tables, overlap>>

-----------------------------------------------------------------------------
ContactStep(t) ==
  \/ \E u, v \in Users : StartContact(t, u, v)
  \/ AccountFound(t)
  \/ AccountMissing(t)
  \/ ContactFound(t)
  \/ ContactAbsent(t)
  \/ AddContact(t)
  \/ AddContactFails(t)

CreateStep(t) ==
  \/ \E u \in Users : StartCreate(t, u)
  \/ Announce(t)

JoinStep(t) ==
  \/ \E u \in Users, g \in GroupIds : StartJoin(t, u, g)
  \/ GroupFound(t)
  \/ GroupMissing(t)
  \/ NotMember(t)
  \/ AlreadyMember(t)
  \/ JoinInsert(t)
  \/ JoinFails(t)

QuitStep(t) ==
  \/ \E u \in Users, g \in GroupIds : StartQuit(t, u, g)
  \/ QuitGroupFound(t)
  \/ QuitGroupMissing(t)
  \/ Member(t)
  \/ NoMember(t)
  \/ QuitDelete(t)
  \/ QuitFails(t)

Next ==
  \/ \E t \in Clients : \/ \E u \in Users : Register(t, u)
                        \/ ContactStep(t)
                        \/ CreateStep(t)
                        \/ JoinStep(t)
                        \/ QuitStep(t)
                        \/ Answer(t)
  \/ Restart

Spec == Init /\ [][Next]_vars

-----------------------------------------------------------------------------
\* Every variable has its type.
TypeOK ==
  /\ accounts \subseteq Users
  /\ contacts \in [Users -> [Users -> Nat]]
  /\ grouplist \in Seq(Users)
  /\ Len(grouplist) <= MaxGroups
  /\ groupmember \in [GroupIds -> [Users -> Nat]]
  /\ dbMutex \in Clients \union {Nobody}
  /\ pc \in [Clients -> {"idle", "account", "contact", "addContact", "answerContact",
                         "latest", "joinGroup", "joinRow", "joinInsert", "answerJoin",
                         "quitGroup", "quitRow", "quitDelete", "answerQuit"}]
  /\ who \in [Clients -> Users \union {NoUser}]
  /\ friend \in [Clients -> Users \union {NoUser}]
  /\ group \in [Clients -> 0..MaxGroups]
  /\ status \in [Clients -> {-1, 0, 1}]
  /\ made \in [Clients -> 0..MaxGroups]
  /\ overlap \subseteq Users

\* The tables have no unique key, only a select before each insert.  A user
\* whose requests never overlapped (one session, one request at a time) still
\* has each contact once and is in each group once, whatever the others do and
\* wherever the server stopped.
NoDuplicates ==
  \A u \in Users \ overlap :
    /\ \A v \in Users : contacts[u][v] <= 1
    /\ \A g \in GroupIds : groupmember[g][u] <= 1

\* The tables have no foreign key either: a member row names a group that
\* exists, a contact row two accounts, and a group a creator with an account.
NoDanglingRows ==
  /\ \A u, v \in Users : contacts[u][v] > 0 => {u, v} \subseteq accounts
  /\ \A g \in GroupIds, u \in Users :
       groupmember[g][u] > 0 => g \in DOMAIN grouplist /\ u \in accounts
  /\ \A g \in DOMAIN grouplist : grouplist[g] \in accounts

\* While a thread sends a receipt with status 1, what it says is true in the
\* tables, although other threads have run between its statements and since:
\* the contact is there, the user is in the group or is out of it.
ReceiptsTellTruth ==
  \A t \in Clients :
    status[t] = 1 /\ who[t] \notin overlap =>
      \/ pc[t] = "answerContact" /\ contacts[who[t]][friend[t]] = 1
      \/ pc[t] = "answerJoin" /\ groupmember[group[t]][who[t]] = 1
      \/ pc[t] = "answerQuit" /\ groupmember[group[t]][who[t]] = 0

\* The group that create_group finds by selecting the newest of its creator,
\* announces and joins is the one it has just inserted.
AnnouncesOwnGroup ==
  \A t \in Clients :
    made[t] # 0 /\ pc[t] # "latest" /\ who[t] \notin overlap => group[t] = made[t]
=============================================================================
