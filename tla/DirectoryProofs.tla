---------------------------- MODULE DirectoryProofs ----------------------------
(***************************************************************************)
(* Proofs about Directory for any number of threads, users, groups and      *)
(* rows.  DirectoryInv is the induction hypothesis: the properties TLC       *)
(* checks, what each request has found out so far (Requests, Findings), and  *)
(* that two requests in progress are of different users outside overlap.     *)
(***************************************************************************)
EXTENDS Directory, SequenceTheorems, TLAPS

USE ThreadAssumption, UserAssumption, BoundsAssumption DEF GroupIds

\* Where a request has only its receipt left to send.
Receipts == {"answerContact", "answerJoin", "answerQuit"}

\* What a request has found out holds until it acts on it.  The parts about
\* rows need a user whose requests do not overlap: no other thread writes them.
RequestOf(t) ==
  /\ pc[t] = "idle" => who[t] = NoUser /\ made[t] = 0
  /\ pc[t] # "idle" => who[t] \in accounts
  /\ pc[t] \notin Receipts => status[t] = 0
  /\ pc[t] \in {"account", "contact", "addContact", "answerContact"} => friend[t] \in Users
  /\ pc[t] \in {"contact", "addContact"} => friend[t] \in accounts
  /\ pc[t] \in {"joinGroup", "joinRow", "joinInsert", "answerJoin",
                "quitGroup", "quitRow", "quitDelete", "answerQuit"} => group[t] \in GroupIds
  /\ pc[t] \in {"joinRow", "joinInsert"} => group[t] \in DOMAIN grouplist
  /\ pc[t] = "latest" => made[t] \in DOMAIN grouplist /\ grouplist[made[t]] = who[t]

\* The rows and groups it found are still as it found them.
FindingOf(t) ==
    who[t] \notin overlap =>
      /\ pc[t] = "addContact" => contacts[who[t]][friend[t]] = 0
      /\ pc[t] = "joinInsert" => groupmember[group[t]][who[t]] = 0
      /\ pc[t] = "latest" => \A h \in DOMAIN grouplist : h > made[t] => grouplist[h] # who[t]

Requests == \A t \in Clients : RequestOf(t)
Findings == \A t \in Clients : FindingOf(t)

\* Two threads never have a request of the same user in progress unless that
\* user is in overlap.
Alone ==
  \A s, t \in Clients :
    s # t /\ who[s] = who[t] /\ who[s] # NoUser => who[s] \in overlap

\* A step of t leaves the requests of the other threads alone.
OthersStay(t) ==
  \A s \in Clients : s # t =>
    /\ pc'[s] = pc[s] /\ status'[s] = status[s] /\ made'[s] = made[s]
    /\ who'[s] = who[s] /\ friend'[s] = friend[s] /\ group'[s] = group[s]

DirectoryInv ==
  TypeOK /\ Requests /\ Alone /\ Findings /\ NoDuplicates /\ NoDanglingRows
    /\ ReceiptsTellTruth /\ AnnouncesOwnGroup

-----------------------------------------------------------------------------
(* Facts about rows, groups and the threads that a step leaves alone. *)

\* Writing one entry of a table of counters.
LEMMA Write ==
  ASSUME NEW A, NEW B, NEW f \in [A -> [B -> Nat]], NEW a \in A, NEW b \in B, NEW n \in Nat,
         NEW h, h = [f EXCEPT ![a][b] = n]
  PROVE  /\ h \in [A -> [B -> Nat]]
         /\ \A x \in A, y \in B : h[x][y] = IF x = a /\ y = b THEN n ELSE f[x][y]
  <1>1. \A x \in A : f[x] \in [B -> Nat]
    OBVIOUS
  <1>2. \A x \in A : h[x] = IF x = a THEN [f[a] EXCEPT ![b] = n] ELSE f[x]
    OBVIOUS
  <1>3. [f[a] EXCEPT ![b] = n] \in [B -> Nat]
    BY <1>1
  <1>4. \A x \in A : h[x] \in [B -> Nat]
    BY <1>1, <1>2, <1>3
  <1>5. h \in [A -> [B -> Nat]]
    BY <1>4
  <1>6. \A x \in A, y \in B : h[x][y] = IF x = a /\ y = b THEN n ELSE f[x][y]
    BY <1>1, <1>2
  <1> QED BY <1>5, <1>6

\* The counters of equal rows are numbers.
LEMMA RowCounts ==
  ASSUME TypeOK
  PROVE  /\ \A u, v \in Users : contacts[u][v] \in Nat
         /\ \A g \in GroupIds, u \in Users : groupmember[g][u] \in Nat
  <1>1. \A u \in Users : contacts[u] \in [Users -> Nat]
    BY DEF TypeOK
  <1>2. \A g \in GroupIds : groupmember[g] \in [Users -> Nat]
    BY DEF TypeOK
  <1>3. \A u, v \in Users : contacts[u][v] \in Nat
    BY <1>1
  <1>4. \A g \in GroupIds, u \in Users : groupmember[g][u] \in Nat
    BY <1>2
  <1> QED BY <1>3, <1>4

\* Group numbers run from 1 and stay within the bound.
LEMMA GroupDomain ==
  ASSUME TypeOK
  PROVE  /\ Len(grouplist) \in Nat
         /\ DOMAIN grouplist = 1..Len(grouplist)
         /\ DOMAIN grouplist \subseteq GroupIds
         /\ DOMAIN grouplist \subseteq Nat
  <1>1. grouplist \in Seq(Users) /\ Len(grouplist) <= MaxGroups
    BY DEF TypeOK
  <1>2. Len(grouplist) \in Nat /\ DOMAIN grouplist = 1..Len(grouplist)
    BY <1>1
  <1>3. \A h \in 1..Len(grouplist) : h \in 1..MaxGroups /\ h \in Nat
    BY <1>1, <1>2
  <1> QED BY <1>2, <1>3

\* create_group's insert adds one group and renumbers none.
LEMMA Appended ==
  ASSUME TypeOK, NEW u \in Users, grouplist' = Append(grouplist, u)
  PROVE  /\ DOMAIN grouplist' = DOMAIN grouplist \union {Len(grouplist) + 1}
         /\ Len(grouplist) + 1 \notin DOMAIN grouplist
         /\ \A h \in DOMAIN grouplist : grouplist'[h] = grouplist[h] /\ h < Len(grouplist) + 1
         /\ grouplist'[Len(grouplist) + 1] = u
         /\ Len(grouplist') = Len(grouplist) + 1
  <1>1. grouplist \in Seq(Users)
    BY DEF TypeOK
  <1>2. /\ grouplist' \in Seq(Users)
        /\ Len(grouplist') = Len(grouplist) + 1
        /\ \A i \in 1..Len(grouplist) : grouplist'[i] = grouplist[i]
        /\ grouplist'[Len(grouplist) + 1] = u
    BY <1>1, AppendProperties
  <1>3. DOMAIN grouplist' = 1..(Len(grouplist) + 1)
    BY <1>2
  <1> QED BY <1>2, <1>3, GroupDomain

\* A step of t that drops no account and renumbers no group keeps the other
\* requests valid.
LEMMA RequestFrame ==
  ASSUME NEW t \in Clients, Requests, OthersStay(t), accounts' = accounts,
         \A h \in DOMAIN grouplist : h \in DOMAIN grouplist' /\ grouplist'[h] = grouplist[h],
         RequestOf(t)'
  PROVE  Requests'
  BY DEF Requests, RequestOf, OthersStay

\* What the other requests have found out survives a step of t that writes no
\* row.
LEMMA FindingFrame ==
  ASSUME NEW t \in Clients, Findings, OthersStay(t), overlap \subseteq overlap',
         UNCHANGED <<contacts, grouplist, groupmember>>, FindingOf(t)'
  PROVE  Findings'
  BY DEF Findings, FindingOf, OthersStay

\* The receipts of the others stay true in a step of t that writes no row.
LEMMA TruthFrame ==
  ASSUME NEW t \in Clients, ReceiptsTellTruth, OthersStay(t), overlap \subseteq overlap',
         UNCHANGED <<contacts, groupmember>>, status'[t] # 1
  PROVE  ReceiptsTellTruth'
  BY DEF ReceiptsTellTruth, OthersStay

-----------------------------------------------------------------------------
(* The three statements that write rows. *)

\* add_contact writes a row between two accounts, and one row only.
LEMMA ContactRow ==
  ASSUME TypeOK, Requests, NEW t \in Clients, AddContact(t)
  PROVE  /\ who[t] \in Users /\ friend[t] \in Users
         /\ contacts' \in [Users -> [Users -> Nat]]
         /\ \A x, y \in Users :
              contacts'[x][y] = IF x = who[t] /\ y = friend[t]
                                  THEN contacts[x][y] + 1 ELSE contacts[x][y]
         /\ who[t] \in accounts /\ friend[t] \in accounts
         /\ pc[t] = "addContact" /\ pc' = [pc EXCEPT ![t] = "answerContact"]
         /\ status' = [status EXCEPT ![t] = 1]
         /\ UNCHANGED <<accounts, grouplist, groupmember, dbMutex, who, friend, group, made, overlap>>
  <1>1. /\ pc[t] = "addContact" /\ pc' = [pc EXCEPT ![t] = "answerContact"]
        /\ status' = [status EXCEPT ![t] = 1]
        /\ UNCHANGED <<accounts, grouplist, groupmember, dbMutex, who, friend, group, made, overlap>>
        /\ contacts' = [contacts EXCEPT ![who[t]][friend[t]] = contacts[who[t]][friend[t]] + 1]
    BY DEF AddContact, Reply, Goto, request
  <1>2. who[t] \in accounts /\ friend[t] \in accounts /\ accounts \subseteq Users
    BY <1>1 DEF Requests, RequestOf, TypeOK
  <1>3. who[t] \in Users /\ friend[t] \in Users
    BY <1>2
  <1>4. contacts \in [Users -> [Users -> Nat]] /\ contacts[who[t]][friend[t]] + 1 \in Nat
    BY <1>3, RowCounts DEF TypeOK
  <1>5. /\ contacts' \in [Users -> [Users -> Nat]]
        /\ \A x, y \in Users :
             contacts'[x][y] = IF x = who[t] /\ y = friend[t]
                                 THEN contacts[who[t]][friend[t]] + 1 ELSE contacts[x][y]
    BY <1>1, <1>3, <1>4, Write
  <1> QED BY <1>1, <1>2, <1>3, <1>5

\* join_group's insert raises one counter of a user that was found absent, in a
\* group that exists.
LEMMA JoinRow ==
  ASSUME TypeOK, Requests, NEW t \in Clients, JoinInsert(t)
  PROVE  /\ who[t] \in Users /\ group[t] \in GroupIds
         /\ groupmember' \in [GroupIds -> [Users -> Nat]]
         /\ \A g \in GroupIds, y \in Users :
              groupmember'[g][y] = IF g = group[t] /\ y = who[t]
                                     THEN groupmember[g][y] + 1 ELSE groupmember[g][y]
         /\ who[t] \in accounts /\ group[t] \in DOMAIN grouplist
         /\ pc[t] = "joinInsert" /\ pc' = [pc EXCEPT ![t] = "answerJoin"]
         /\ status' = [status EXCEPT ![t] = 1]
         /\ UNCHANGED <<accounts, contacts, grouplist, dbMutex, who, friend, group, made, overlap>>
  <1>1. /\ pc[t] = "joinInsert" /\ pc' = [pc EXCEPT ![t] = "answerJoin"]
        /\ status' = [status EXCEPT ![t] = 1]
        /\ UNCHANGED <<accounts, contacts, grouplist, dbMutex, who, friend, group, made, overlap>>
        /\ groupmember' = [groupmember EXCEPT ![group[t]][who[t]] = groupmember[group[t]][who[t]] + 1]
    BY DEF JoinInsert, Reply, Goto, request
  <1>2. who[t] \in accounts /\ group[t] \in DOMAIN grouplist /\ accounts \subseteq Users
    BY <1>1 DEF Requests, RequestOf, TypeOK
  <1>3. who[t] \in Users /\ group[t] \in GroupIds
    BY <1>2, GroupDomain
  <1>4. groupmember \in [GroupIds -> [Users -> Nat]] /\ groupmember[group[t]][who[t]] + 1 \in Nat
    <2>1. groupmember[group[t]][who[t]] \in Nat
      BY <1>3, RowCounts
    <2>2. groupmember \in [GroupIds -> [Users -> Nat]]
      BY DEF TypeOK
    <2> QED BY <2>1, <2>2
  <1>5. /\ groupmember' \in [GroupIds -> [Users -> Nat]]
        /\ \A g \in GroupIds, y \in Users :
             groupmember'[g][y] = IF g = group[t] /\ y = who[t]
                                    THEN groupmember[group[t]][who[t]] + 1 ELSE groupmember[g][y]
    BY <1>1, <1>3, <1>4, Write
  <1> QED BY <1>1, <1>2, <1>3, <1>5

\* quit_group's delete clears one counter and leaves the others as they were.
LEMMA QuitRow ==
  ASSUME TypeOK, Requests, NEW t \in Clients, QuitDelete(t)
  PROVE  /\ who[t] \in Users /\ group[t] \in GroupIds
         /\ groupmember' \in [GroupIds -> [Users -> Nat]]
         /\ \A g \in GroupIds, y \in Users :
              groupmember'[g][y] = IF g = group[t] /\ y = who[t] THEN 0 ELSE groupmember[g][y]
         /\ pc[t] = "quitDelete" /\ pc' = [pc EXCEPT ![t] = "answerQuit"]
         /\ status' = [status EXCEPT ![t] = 1]
         /\ UNCHANGED <<accounts, contacts, grouplist, dbMutex, who, friend, group, made, overlap>>
  <1>1. /\ pc[t] = "quitDelete" /\ pc' = [pc EXCEPT ![t] = "answerQuit"]
        /\ status' = [status EXCEPT ![t] = 1]
        /\ UNCHANGED <<accounts, contacts, grouplist, dbMutex, who, friend, group, made, overlap>>
        /\ groupmember' = [groupmember EXCEPT ![group[t]][who[t]] = 0]
    BY DEF QuitDelete, Reply, Goto, request
  <1>2. who[t] \in accounts /\ group[t] \in GroupIds /\ accounts \subseteq Users
    BY <1>1 DEF Requests, RequestOf, TypeOK
  <1>3. who[t] \in Users
    BY <1>2
  <1>4. groupmember \in [GroupIds -> [Users -> Nat]]
    BY DEF TypeOK
  <1>5. /\ groupmember' \in [GroupIds -> [Users -> Nat]]
        /\ \A g \in GroupIds, y \in Users :
             groupmember'[g][y] = IF g = group[t] /\ y = who[t] THEN 0 ELSE groupmember[g][y]
    BY <1>1, <1>2, <1>3, <1>4, Write
  <1> QED BY <1>1, <1>2, <1>3, <1>5

\* A thread with a request that does not overlap has a user of its own.
LEMMA OwnUser ==
  ASSUME TypeOK, Requests, Alone, NEW s \in Clients, NEW t \in Clients, s # t,
         pc[s] # "idle", who[s] \notin overlap
  PROVE  who[s] \in Users /\ who[s] # who[t]
  <1>1. who[s] \in accounts /\ accounts \subseteq Users
    BY DEF Requests, RequestOf, TypeOK
  <1> QED BY <1>1 DEF Alone

-----------------------------------------------------------------------------
\* An empty database and idle threads satisfy the invariant.
LEMMA InitDirectory == Init => DirectoryInv
  <1> SUFFICES ASSUME Init PROVE DirectoryInv
    OBVIOUS
  <1>1. TypeOK
    BY DEF Init, TypeOK
  <1>2. Requests /\ Alone /\ Findings
    BY DEF Init, Requests, RequestOf, Receipts, Alone, Findings, FindingOf
  <1>3. NoDuplicates /\ NoDanglingRows
    BY DEF Init, NoDuplicates, NoDanglingRows
  <1>4. ReceiptsTellTruth /\ AnnouncesOwnGroup
    BY DEF Init, ReceiptsTellTruth, AnnouncesOwnGroup
  <1> QED BY <1>1, <1>2, <1>3, <1>4 DEF DirectoryInv

\* Every step of every handler keeps the types.
LEMMA TypeStep == TypeOK /\ Requests /\ [Next]_vars => TypeOK'
  <1> SUFFICES ASSUME TypeOK, Requests, [Next]_vars PROVE TypeOK'
    OBVIOUS
  <1>1. ASSUME NEW t \in Clients, ContactFound(t)
        PROVE  TypeOK'
    <2>1. Return(t) /\ UNCHANGED <<tables, overlap>>
      BY <1>1 DEF ContactFound
    <2> QED BY <2>1 DEF TypeOK, Return, Goto, tables
  <1>2. ASSUME NEW t \in Clients, AddContact(t)
        PROVE  TypeOK'
    <2>1. /\ contacts' \in [Users -> [Users -> Nat]]
          /\ pc' = [pc EXCEPT ![t] = "answerContact"]
          /\ status' = [status EXCEPT ![t] = 1]
          /\ UNCHANGED <<accounts, groupmember, grouplist, dbMutex, who, friend, group, made, overlap>>
      BY <1>2, ContactRow
    <2> QED BY <2>1 DEF TypeOK
  <1>3. ASSUME NEW t \in Clients, Announce(t)
        PROVE  TypeOK'
    <2>1. PICK g \in Latest(who[t]) : group' = [group EXCEPT ![t] = g]
      BY <1>3 DEF Announce
    <2>2. g \in GroupIds
      BY <2>1, GroupDomain DEF Latest
    <2>3. g \in 0..MaxGroups
      BY <2>2
    <2>4. /\ UNCHANGED <<tables, who, friend, made, status, overlap>>
          /\ pc' = [pc EXCEPT ![t] = "joinGroup"]
          /\ dbMutex' = t
      BY <1>3 DEF Announce, Goto
    <2> QED BY <2>1, <2>3, <2>4 DEF TypeOK, tables
  <1>4. ASSUME NEW t \in Clients, NEW u \in Users, NEW g \in GroupIds, StartJoin(t, u, g)
        PROVE  TypeOK'
    <2>1. /\ who' = [who EXCEPT ![t] = u]
          /\ group' = [group EXCEPT ![t] = g]
          /\ pc' = [pc EXCEPT ![t] = "joinGroup"]
          /\ UNCHANGED <<accounts, contacts, grouplist, groupmember, dbMutex, friend, made, status>>
      BY <1>4 DEF StartJoin, Begin, Goto, tables
    <2>2. overlap' \subseteq Users
      BY <1>4 DEF StartJoin, Begin, TypeOK
    <2>3. g \in 0..MaxGroups
      OBVIOUS
    <2> QED BY <2>1, <2>2, <2>3 DEF TypeOK
  <1>5. ASSUME NEW t \in Clients, JoinInsert(t)
        PROVE  TypeOK'
    <2>1. /\ groupmember' \in [GroupIds -> [Users -> Nat]]
          /\ pc' = [pc EXCEPT ![t] = "answerJoin"]
          /\ status' = [status EXCEPT ![t] = 1]
          /\ UNCHANGED <<accounts, contacts, grouplist, dbMutex, who, friend, group, made, overlap>>
      BY <1>5, JoinRow
    <2> QED BY <2>1 DEF TypeOK
  <1>6. ASSUME NEW t \in Clients, QuitDelete(t)
        PROVE  TypeOK'
    <2>1. /\ groupmember' \in [GroupIds -> [Users -> Nat]]
          /\ pc' = [pc EXCEPT ![t] = "answerQuit"]
          /\ status' = [status EXCEPT ![t] = 1]
          /\ UNCHANGED <<accounts, contacts, grouplist, dbMutex, who, friend, group, made, overlap>>
      BY <1>6, QuitRow
    <2> QED BY <2>1 DEF TypeOK
  <1>7. ASSUME NEW t \in Clients, Answer(t)
        PROVE  TypeOK'
    <2>1. Return(t) /\ UNCHANGED <<tables, overlap>>
      BY <1>7 DEF Answer
    <2> QED BY <2>1 DEF TypeOK, Return, Goto, tables
  <1> USE DEF TypeOK, Requests, RequestOf, Receipts, tables, request, Statement, Goto, Reply, Begin, Return
  <1>8. ASSUME NEW t \in Clients, NEW u \in Users, Register(t, u)
        PROVE  TypeOK'
    BY <1>8 DEF Register
  <1>9. ASSUME NEW t \in Clients, NEW u \in Users, NEW v \in Users, StartContact(t, u, v)
        PROVE  TypeOK'
    BY <1>9 DEF StartContact
  <1>10. ASSUME NEW t \in Clients, AccountFound(t)
        PROVE  TypeOK'
    BY <1>10 DEF AccountFound
  <1>11. ASSUME NEW t \in Clients, AccountMissing(t)
        PROVE  TypeOK'
    BY <1>11 DEF AccountMissing
  <1>12. ASSUME NEW t \in Clients, ContactAbsent(t)
        PROVE  TypeOK'
    BY <1>12 DEF ContactAbsent
  <1>13. ASSUME NEW t \in Clients, AddContactFails(t)
        PROVE  TypeOK'
    BY <1>13 DEF AddContactFails
  <1>14. ASSUME NEW t \in Clients, NEW u \in Users, StartCreate(t, u)
        PROVE  TypeOK'
    BY <1>14 DEF StartCreate
  <1>15. ASSUME NEW t \in Clients, GroupFound(t)
        PROVE  TypeOK'
    BY <1>15 DEF GroupFound
  <1>16. ASSUME NEW t \in Clients, GroupMissing(t)
        PROVE  TypeOK'
    BY <1>16 DEF GroupMissing
  <1>17. ASSUME NEW t \in Clients, NotMember(t)
        PROVE  TypeOK'
    BY <1>17 DEF NotMember
  <1>18. ASSUME NEW t \in Clients, AlreadyMember(t)
        PROVE  TypeOK'
    BY <1>18 DEF AlreadyMember
  <1>19. ASSUME NEW t \in Clients, JoinFails(t)
        PROVE  TypeOK'
    BY <1>19 DEF JoinFails
  <1>20. ASSUME NEW t \in Clients, NEW u \in Users, NEW g \in GroupIds, StartQuit(t, u, g)
        PROVE  TypeOK'
    BY <1>20 DEF StartQuit
  <1>21. ASSUME NEW t \in Clients, QuitGroupFound(t)
        PROVE  TypeOK'
    BY <1>21 DEF QuitGroupFound
  <1>22. ASSUME NEW t \in Clients, QuitGroupMissing(t)
        PROVE  TypeOK'
    BY <1>22 DEF QuitGroupMissing
  <1>23. ASSUME NEW t \in Clients, Member(t)
        PROVE  TypeOK'
    BY <1>23 DEF Member
  <1>24. ASSUME NEW t \in Clients, NoMember(t)
        PROVE  TypeOK'
    BY <1>24 DEF NoMember
  <1>25. ASSUME NEW t \in Clients, QuitFails(t)
        PROVE  TypeOK'
    BY <1>25 DEF QuitFails
  <1>26. CASE Restart
    BY <1>26 DEF Restart
  <1>27. CASE UNCHANGED vars
    BY <1>27 DEF vars
  <1> QED
    BY <1>1, <1>2, <1>3, <1>4, <1>5, <1>6, <1>7, <1>8, <1>9, <1>10, <1>11, <1>12, <1>13, <1>14,
       <1>15, <1>16, <1>17, <1>18, <1>19, <1>20, <1>21, <1>22, <1>23, <1>24, <1>25, <1>26, <1>27
    DEF Next, ContactStep, CreateStep, JoinStep, QuitStep

\* Every step keeps the bookkeeping of each request: its user has an account,
\* its group and contact are the ones it looked up.
LEMMA RequestStep == TypeOK /\ Requests /\ [Next]_vars => Requests'
  <1> SUFFICES ASSUME TypeOK, Requests, [Next]_vars PROVE Requests'
    OBVIOUS
  <1>1. ASSUME NEW t \in Clients, NEW u \in Users, NEW v \in Users, StartContact(t, u, v)
        PROVE  Requests'
    <2>1. OthersStay(t)
      BY <1>1 DEF StartContact, OthersStay, TypeOK, tables, request, Statement, Goto, Reply, Begin, Return
    <2>2. /\ who'[t] = u /\ friend'[t] = v /\ made'[t] = made[t] /\ pc[t] = "idle"
          /\ u \in accounts /\ UNCHANGED <<accounts, grouplist>>
      BY <1>1 DEF StartContact, TypeOK, tables, request, Statement, Goto, Reply, Begin, Return
    <2>3. pc'[t] = "answerContact" \/ (pc'[t] = "account" /\ status'[t] = 0)
      BY <1>1 DEF StartContact, TypeOK, tables, request, Statement, Goto, Reply, Begin, Return
    <2>4. RequestOf(t)'
      BY <2>2, <2>3 DEF RequestOf, Receipts
    <2> QED BY <2>1, <2>2, <2>4, RequestFrame
  <1>2. ASSUME NEW t \in Clients, NEW u \in Users, StartCreate(t, u)
        PROVE  Requests'
    <2>1. OthersStay(t)
      BY <1>2 DEF StartCreate, OthersStay, TypeOK, tables, request, Statement, Goto, Reply, Begin, Return
    <2>2. /\ who'[t] = u /\ pc'[t] = "latest" /\ status'[t] = status[t] /\ pc[t] = "idle"
          /\ u \in accounts /\ accounts' = accounts
          /\ made'[t] = Len(grouplist')
          /\ grouplist' = Append(grouplist, u)
      BY <1>2 DEF StartCreate, TypeOK, tables, request, Statement, Goto, Reply, Begin, Return
    <2>3. status[t] = 0
      BY <2>2 DEF Requests, RequestOf, Receipts
    <2>4. /\ made'[t] \in DOMAIN grouplist' /\ grouplist'[made'[t]] = u
          /\ \A h \in DOMAIN grouplist : h \in DOMAIN grouplist' /\ grouplist'[h] = grouplist[h]
      BY <2>2, Appended
    <2>5. RequestOf(t)'
      BY <2>2, <2>3, <2>4 DEF RequestOf, Receipts
    <2> QED BY <2>1, <2>2, <2>4, <2>5, RequestFrame
  <1>3. ASSUME NEW t \in Clients, Announce(t)
        PROVE  Requests'
    <2>1. OthersStay(t)
      BY <1>3 DEF Announce, OthersStay, TypeOK, tables, request, Statement, Goto, Reply, Begin, Return
    <2>2. PICK g \in Latest(who[t]) : group' = [group EXCEPT ![t] = g]
      BY <1>3 DEF Announce
    <2>3. g \in GroupIds
      BY <2>2, GroupDomain DEF Latest
    <2>4. /\ group'[t] = g /\ pc[t] = "latest" /\ pc'[t] = "joinGroup"
          /\ UNCHANGED <<accounts, grouplist, who, status>>
      BY <1>3, <2>2 DEF Announce, TypeOK, tables, request, Statement, Goto, Reply, Begin, Return
    <2>5. status[t] = 0 /\ who[t] \in accounts
      BY <2>4 DEF Requests, RequestOf, Receipts
    <2>6. RequestOf(t)'
      BY <2>3, <2>4, <2>5 DEF RequestOf, Receipts
    <2> QED BY <2>1, <2>4, <2>6, RequestFrame
  <1> USE DEF TypeOK, Requests, RequestOf, Receipts, tables, request, Statement, Goto, Reply, Begin, Return
  <1>4. ASSUME NEW t \in Clients, NEW u \in Users, Register(t, u)
        PROVE  Requests'
    BY <1>4 DEF Register
  <1>5. ASSUME NEW t \in Clients, AccountFound(t)
        PROVE  Requests'
    BY <1>5 DEF AccountFound
  <1>6. ASSUME NEW t \in Clients, AccountMissing(t)
        PROVE  Requests'
    BY <1>6 DEF AccountMissing
  <1>7. ASSUME NEW t \in Clients, ContactFound(t)
        PROVE  Requests'
    BY <1>7 DEF ContactFound
  <1>8. ASSUME NEW t \in Clients, ContactAbsent(t)
        PROVE  Requests'
    BY <1>8 DEF ContactAbsent
  <1>9. ASSUME NEW t \in Clients, AddContact(t)
        PROVE  Requests'
    BY <1>9 DEF AddContact
  <1>10. ASSUME NEW t \in Clients, AddContactFails(t)
        PROVE  Requests'
    BY <1>10 DEF AddContactFails
  <1>11. ASSUME NEW t \in Clients, NEW u \in Users, NEW g \in GroupIds, StartJoin(t, u, g)
        PROVE  Requests'
    BY <1>11 DEF StartJoin
  <1>12. ASSUME NEW t \in Clients, GroupFound(t)
        PROVE  Requests'
    BY <1>12 DEF GroupFound
  <1>13. ASSUME NEW t \in Clients, GroupMissing(t)
        PROVE  Requests'
    BY <1>13 DEF GroupMissing
  <1>14. ASSUME NEW t \in Clients, NotMember(t)
        PROVE  Requests'
    BY <1>14 DEF NotMember
  <1>15. ASSUME NEW t \in Clients, AlreadyMember(t)
        PROVE  Requests'
    BY <1>15 DEF AlreadyMember
  <1>16. ASSUME NEW t \in Clients, JoinInsert(t)
        PROVE  Requests'
    BY <1>16 DEF JoinInsert
  <1>17. ASSUME NEW t \in Clients, JoinFails(t)
        PROVE  Requests'
    BY <1>17 DEF JoinFails
  <1>18. ASSUME NEW t \in Clients, NEW u \in Users, NEW g \in GroupIds, StartQuit(t, u, g)
        PROVE  Requests'
    BY <1>18 DEF StartQuit
  <1>19. ASSUME NEW t \in Clients, QuitGroupFound(t)
        PROVE  Requests'
    BY <1>19 DEF QuitGroupFound
  <1>20. ASSUME NEW t \in Clients, QuitGroupMissing(t)
        PROVE  Requests'
    BY <1>20 DEF QuitGroupMissing
  <1>21. ASSUME NEW t \in Clients, Member(t)
        PROVE  Requests'
    BY <1>21 DEF Member
  <1>22. ASSUME NEW t \in Clients, NoMember(t)
        PROVE  Requests'
    BY <1>22 DEF NoMember
  <1>23. ASSUME NEW t \in Clients, QuitDelete(t)
        PROVE  Requests'
    BY <1>23 DEF QuitDelete
  <1>24. ASSUME NEW t \in Clients, QuitFails(t)
        PROVE  Requests'
    BY <1>24 DEF QuitFails
  <1>25. ASSUME NEW t \in Clients, Answer(t)
        PROVE  Requests'
    BY <1>25 DEF Answer
  <1>26. CASE Restart
    BY <1>26 DEF Restart
  <1>27. CASE UNCHANGED vars
    BY <1>27 DEF vars
  <1> QED
    BY <1>1, <1>2, <1>3, <1>4, <1>5, <1>6, <1>7, <1>8, <1>9, <1>10, <1>11, <1>12, <1>13, <1>14,
       <1>15, <1>16, <1>17, <1>18, <1>19, <1>20, <1>21, <1>22, <1>23, <1>24, <1>25, <1>26, <1>27
    DEF Next, ContactStep, CreateStep, JoinStep, QuitStep

\* A second request of a user in progress puts the user in overlap.
LEMMA AloneStep == TypeOK /\ Requests /\ Alone /\ [Next]_vars => Alone'
  <1> SUFFICES ASSUME TypeOK, Requests, Alone, [Next]_vars PROVE Alone'
    OBVIOUS
  <1> USE DEF TypeOK, Requests, RequestOf, Alone, tables, request, Statement, Goto, Reply, Begin, Return
  <1>1. ASSUME NEW t \in Clients, NEW u \in Users, Register(t, u)
        PROVE  Alone'
    BY <1>1 DEF Register
  <1>2. ASSUME NEW t \in Clients, NEW u \in Users, NEW v \in Users, StartContact(t, u, v)
        PROVE  Alone'
    BY <1>2 DEF StartContact
  <1>3. ASSUME NEW t \in Clients, AccountFound(t)
        PROVE  Alone'
    BY <1>3 DEF AccountFound
  <1>4. ASSUME NEW t \in Clients, AccountMissing(t)
        PROVE  Alone'
    BY <1>4 DEF AccountMissing
  <1>5. ASSUME NEW t \in Clients, ContactFound(t)
        PROVE  Alone'
    BY <1>5 DEF ContactFound
  <1>6. ASSUME NEW t \in Clients, ContactAbsent(t)
        PROVE  Alone'
    BY <1>6 DEF ContactAbsent
  <1>7. ASSUME NEW t \in Clients, AddContact(t)
        PROVE  Alone'
    BY <1>7 DEF AddContact
  <1>8. ASSUME NEW t \in Clients, AddContactFails(t)
        PROVE  Alone'
    BY <1>8 DEF AddContactFails
  <1>9. ASSUME NEW t \in Clients, NEW u \in Users, StartCreate(t, u)
        PROVE  Alone'
    BY <1>9 DEF StartCreate
  <1>10. ASSUME NEW t \in Clients, Announce(t)
        PROVE  Alone'
    BY <1>10 DEF Announce
  <1>11. ASSUME NEW t \in Clients, NEW u \in Users, NEW g \in GroupIds, StartJoin(t, u, g)
        PROVE  Alone'
    BY <1>11 DEF StartJoin
  <1>12. ASSUME NEW t \in Clients, GroupFound(t)
        PROVE  Alone'
    BY <1>12 DEF GroupFound
  <1>13. ASSUME NEW t \in Clients, GroupMissing(t)
        PROVE  Alone'
    BY <1>13 DEF GroupMissing
  <1>14. ASSUME NEW t \in Clients, NotMember(t)
        PROVE  Alone'
    BY <1>14 DEF NotMember
  <1>15. ASSUME NEW t \in Clients, AlreadyMember(t)
        PROVE  Alone'
    BY <1>15 DEF AlreadyMember
  <1>16. ASSUME NEW t \in Clients, JoinInsert(t)
        PROVE  Alone'
    BY <1>16 DEF JoinInsert
  <1>17. ASSUME NEW t \in Clients, JoinFails(t)
        PROVE  Alone'
    BY <1>17 DEF JoinFails
  <1>18. ASSUME NEW t \in Clients, NEW u \in Users, NEW g \in GroupIds, StartQuit(t, u, g)
        PROVE  Alone'
    BY <1>18 DEF StartQuit
  <1>19. ASSUME NEW t \in Clients, QuitGroupFound(t)
        PROVE  Alone'
    BY <1>19 DEF QuitGroupFound
  <1>20. ASSUME NEW t \in Clients, QuitGroupMissing(t)
        PROVE  Alone'
    BY <1>20 DEF QuitGroupMissing
  <1>21. ASSUME NEW t \in Clients, Member(t)
        PROVE  Alone'
    BY <1>21 DEF Member
  <1>22. ASSUME NEW t \in Clients, NoMember(t)
        PROVE  Alone'
    BY <1>22 DEF NoMember
  <1>23. ASSUME NEW t \in Clients, QuitDelete(t)
        PROVE  Alone'
    BY <1>23 DEF QuitDelete
  <1>24. ASSUME NEW t \in Clients, QuitFails(t)
        PROVE  Alone'
    BY <1>24 DEF QuitFails
  <1>25. ASSUME NEW t \in Clients, Answer(t)
        PROVE  Alone'
    BY <1>25 DEF Answer
  <1>26. CASE Restart
    BY <1>26 DEF Restart
  <1>27. CASE UNCHANGED vars
    BY <1>27 DEF vars
  <1> QED
    BY <1>1, <1>2, <1>3, <1>4, <1>5, <1>6, <1>7, <1>8, <1>9, <1>10, <1>11, <1>12, <1>13, <1>14,
       <1>15, <1>16, <1>17, <1>18, <1>19, <1>20, <1>21, <1>22, <1>23, <1>24, <1>25, <1>26, <1>27
    DEF Next, ContactStep, CreateStep, JoinStep, QuitStep

\* What a select found out is still so at the insert that relies on it, unless
\* the user has two requests in progress.
LEMMA FindingStep == TypeOK /\ Requests /\ Alone /\ NoDuplicates /\ Findings /\ [Next]_vars => Findings'
  <1> SUFFICES ASSUME TypeOK, Requests, Alone, NoDuplicates, Findings, [Next]_vars PROVE Findings'
    OBVIOUS
  <1>1. ASSUME NEW t \in Clients, NEW u \in Users, NEW v \in Users, StartContact(t, u, v)
        PROVE  Findings'
    <2>1. OthersStay(t)
      BY <1>1 DEF StartContact, OthersStay, TypeOK, tables, request, Statement, Goto, Reply, Begin, Return
    <2>2. FindingOf(t)'
      <3>1. pc'[t] \in {"account", "answerContact"}
        BY <1>1 DEF StartContact, TypeOK, tables, request, Statement, Goto, Reply, Begin, Return
      <3> QED BY <3>1 DEF FindingOf
    <2>3. UNCHANGED <<contacts, grouplist, groupmember>> /\ overlap \subseteq overlap'
      BY <1>1 DEF StartContact, tables, request, Statement, Goto, Reply, Begin, Return
    <2> QED BY <2>1, <2>2, <2>3, FindingFrame
  <1>2. ASSUME NEW t \in Clients, ContactAbsent(t)
        PROVE  Findings'
    <2>1. OthersStay(t)
      BY <1>2 DEF ContactAbsent, OthersStay, TypeOK, tables, request, Statement, Goto, Reply, Begin, Return
    <2>2. /\ pc[t] = "contact" /\ pc'[t] = "addContact"
          /\ UNCHANGED <<contacts, grouplist, groupmember, who, friend, overlap>>
          /\ contacts[who[t]][friend[t]] # 1
      BY <1>2 DEF ContactAbsent, TypeOK, tables, request, Statement, Goto, Reply, Begin, Return
    <2>3. who[t] \in Users /\ friend[t] \in Users
      BY <2>2 DEF Requests, RequestOf, TypeOK
    <2>4. who[t] \notin overlap => contacts[who[t]][friend[t]] = 0
      <3>1. contacts[who[t]][friend[t]] \in Nat
        BY <2>3, RowCounts
      <3>2. who[t] \notin overlap => contacts[who[t]][friend[t]] <= 1
        BY <2>3 DEF NoDuplicates
      <3> QED BY <2>2, <3>1, <3>2
    <2>5. FindingOf(t)'
      BY <2>2, <2>4 DEF FindingOf
    <2> QED BY <2>1, <2>2, <2>5, FindingFrame
  <1>3. ASSUME NEW t \in Clients, AddContact(t)
        PROVE  Findings'
    <2>1. OthersStay(t)
      BY <1>3 DEF AddContact, OthersStay, TypeOK, tables, request, Statement, Goto, Reply, Begin, Return
    <2> SUFFICES ASSUME NEW s \in Clients, who'[s] \notin overlap' PROVE FindingOf(s)'
      BY DEF Findings, FindingOf
    <2>2. CASE s = t
      <3>1. pc'[s] \in Receipts
        BY <1>3, <2>2, ContactRow DEF TypeOK, Receipts
      <3> QED BY <3>1 DEF FindingOf, Receipts
    <2>3. CASE s # t
      <3>1. UNCHANGED <<grouplist, who, overlap>>
        BY <1>3, ContactRow
      <3>2. CASE pc[s] = "latest"
        BY <2>1, <2>3, <3>1, <3>2 DEF Findings, FindingOf, OthersStay
      <3>3. CASE pc[s] = "addContact"
        <4>1. who[s] \in Users /\ who[s] # who[t]
          BY <2>3, <3>1, <3>3, OwnUser
        <4>2. friend[s] \in Users
          BY <3>3 DEF Requests, RequestOf
        <4>3. contacts'[who[s]][friend[s]] = contacts[who[s]][friend[s]]
          BY <1>3, <4>1, <4>2, ContactRow
        <4> QED BY <2>1, <2>3, <3>1, <3>3, <4>3 DEF Findings, FindingOf, OthersStay
      <3>4. CASE pc[s] = "joinInsert"
        <4>1. who[s] \in Users /\ who[s] # who[t]
          BY <2>3, <3>1, <3>4, OwnUser
        <4>2. group[s] \in GroupIds
          BY <3>4 DEF Requests, RequestOf
        <4>3. groupmember'[group[s]][who[s]] = groupmember[group[s]][who[s]]
          BY <1>3, <4>1, <4>2, ContactRow
        <4> QED BY <2>1, <2>3, <3>1, <3>4, <4>3 DEF Findings, FindingOf, OthersStay
      <3>5. CASE pc[s] \notin {"addContact", "joinInsert", "latest"}
        BY <2>1, <2>3, <3>5 DEF FindingOf, OthersStay
      <3> QED BY <3>2, <3>3, <3>4, <3>5
    <2> QED BY <2>2, <2>3
  <1>4. ASSUME NEW t \in Clients, NEW u \in Users, StartCreate(t, u)
        PROVE  Findings'
    <2>1. OthersStay(t)
      BY <1>4 DEF StartCreate, OthersStay, TypeOK, tables, request, Statement, Goto, Reply, Begin, Return
    <2>2. /\ pc'[t] = "latest" /\ who'[t] = u /\ made'[t] = Len(grouplist')
          /\ grouplist' = Append(grouplist, u)
          /\ UNCHANGED <<contacts, groupmember>>
          /\ overlap \subseteq overlap'
          /\ \A s \in Clients : who[s] = u => u \in overlap'
      BY <1>4 DEF StartCreate, TypeOK, tables, request, Statement, Goto, Reply, Begin, Return
    <2>3. /\ DOMAIN grouplist' = DOMAIN grouplist \union {Len(grouplist) + 1}
          /\ \A h \in DOMAIN grouplist : grouplist'[h] = grouplist[h] /\ h < Len(grouplist) + 1
          /\ grouplist'[Len(grouplist) + 1] = u
          /\ made'[t] = Len(grouplist) + 1
      BY <2>2, Appended
    <2> SUFFICES ASSUME NEW s \in Clients, who'[s] \notin overlap' PROVE FindingOf(s)'
      BY DEF Findings, FindingOf
    <2>4. CASE s = t
      <3>1. \A h \in DOMAIN grouplist' : ~(h > made'[t])
        BY <2>3, GroupDomain
      <3> QED BY <2>2, <2>4, <3>1 DEF FindingOf
    <2>5. CASE s # t
      <3>1. who[s] \notin overlap /\ who[s] # u
        BY <2>1, <2>2, <2>5 DEF OthersStay
      <3>2. ASSUME pc[s] = "latest", NEW h \in DOMAIN grouplist', h > made[s]
            PROVE  grouplist'[h] # who[s]
        <4>1. \A i \in DOMAIN grouplist : i > made[s] => grouplist[i] # who[s]
          BY <3>1, <3>2 DEF Findings, FindingOf
        <4>2. CASE h \in DOMAIN grouplist
          BY <2>3, <3>2, <4>1, <4>2
        <4>3. CASE h = Len(grouplist) + 1
          BY <2>3, <3>1, <4>3
        <4> QED BY <2>3, <3>2, <4>2, <4>3
      <3> QED BY <2>1, <2>2, <2>5, <3>1, <3>2 DEF Findings, FindingOf, OthersStay
    <2> QED BY <2>4, <2>5
  <1>5. ASSUME NEW t \in Clients, JoinInsert(t)
        PROVE  Findings'
    <2>1. OthersStay(t)
      BY <1>5 DEF JoinInsert, OthersStay, TypeOK, tables, request, Statement, Goto, Reply, Begin, Return
    <2> SUFFICES ASSUME NEW s \in Clients, who'[s] \notin overlap' PROVE FindingOf(s)'
      BY DEF Findings, FindingOf
    <2>2. CASE s = t
      <3>1. pc'[s] \in Receipts
        BY <1>5, <2>2, JoinRow DEF TypeOK, Receipts
      <3> QED BY <3>1 DEF FindingOf, Receipts
    <2>3. CASE s # t
      <3>1. UNCHANGED <<grouplist, who, overlap>>
        BY <1>5, JoinRow
      <3>2. CASE pc[s] = "latest"
        BY <2>1, <2>3, <3>1, <3>2 DEF Findings, FindingOf, OthersStay
      <3>3. CASE pc[s] = "addContact"
        <4>1. who[s] \in Users /\ who[s] # who[t]
          BY <2>3, <3>1, <3>3, OwnUser
        <4>2. friend[s] \in Users
          BY <3>3 DEF Requests, RequestOf
        <4>3. contacts'[who[s]][friend[s]] = contacts[who[s]][friend[s]]
          BY <1>5, <4>1, <4>2, JoinRow
        <4> QED BY <2>1, <2>3, <3>1, <3>3, <4>3 DEF Findings, FindingOf, OthersStay
      <3>4. CASE pc[s] = "joinInsert"
        <4>1. who[s] \in Users /\ who[s] # who[t]
          BY <2>3, <3>1, <3>4, OwnUser
        <4>2. group[s] \in GroupIds
          BY <3>4 DEF Requests, RequestOf
        <4>3. groupmember'[group[s]][who[s]] = groupmember[group[s]][who[s]]
          BY <1>5, <4>1, <4>2, JoinRow
        <4> QED BY <2>1, <2>3, <3>1, <3>4, <4>3 DEF Findings, FindingOf, OthersStay
      <3>5. CASE pc[s] \notin {"addContact", "joinInsert", "latest"}
        BY <2>1, <2>3, <3>5 DEF FindingOf, OthersStay
      <3> QED BY <3>2, <3>3, <3>4, <3>5
    <2> QED BY <2>2, <2>3
  <1>6. ASSUME NEW t \in Clients, QuitDelete(t)
        PROVE  Findings'
    <2>1. OthersStay(t)
      BY <1>6 DEF QuitDelete, OthersStay, TypeOK, tables, request, Statement, Goto, Reply, Begin, Return
    <2> SUFFICES ASSUME NEW s \in Clients, who'[s] \notin overlap' PROVE FindingOf(s)'
      BY DEF Findings, FindingOf
    <2>2. CASE s = t
      <3>1. pc'[s] \in Receipts
        BY <1>6, <2>2, QuitRow DEF TypeOK, Receipts
      <3> QED BY <3>1 DEF FindingOf, Receipts
    <2>3. CASE s # t
      <3>1. UNCHANGED <<grouplist, who, overlap>>
        BY <1>6, QuitRow
      <3>2. CASE pc[s] = "latest"
        BY <2>1, <2>3, <3>1, <3>2 DEF Findings, FindingOf, OthersStay
      <3>3. CASE pc[s] = "addContact"
        <4>1. who[s] \in Users /\ who[s] # who[t]
          BY <2>3, <3>1, <3>3, OwnUser
        <4>2. friend[s] \in Users
          BY <3>3 DEF Requests, RequestOf
        <4>3. contacts'[who[s]][friend[s]] = contacts[who[s]][friend[s]]
          BY <1>6, <4>1, <4>2, QuitRow
        <4> QED BY <2>1, <2>3, <3>1, <3>3, <4>3 DEF Findings, FindingOf, OthersStay
      <3>4. CASE pc[s] = "joinInsert"
        <4>1. who[s] \in Users /\ who[s] # who[t]
          BY <2>3, <3>1, <3>4, OwnUser
        <4>2. group[s] \in GroupIds
          BY <3>4 DEF Requests, RequestOf
        <4>3. groupmember'[group[s]][who[s]] = groupmember[group[s]][who[s]]
          BY <1>6, <4>1, <4>2, QuitRow
        <4> QED BY <2>1, <2>3, <3>1, <3>4, <4>3 DEF Findings, FindingOf, OthersStay
      <3>5. CASE pc[s] \notin {"addContact", "joinInsert", "latest"}
        BY <2>1, <2>3, <3>5 DEF FindingOf, OthersStay
      <3> QED BY <3>2, <3>3, <3>4, <3>5
    <2> QED BY <2>2, <2>3
  <1> USE DEF TypeOK, Requests, RequestOf, Alone, Findings, FindingOf, tables, request, Statement, Goto, Reply, Begin, Return
  <1>7. ASSUME NEW t \in Clients, NEW u \in Users, Register(t, u)
        PROVE  Findings'
    BY <1>7 DEF Register
  <1>8. ASSUME NEW t \in Clients, AccountFound(t)
        PROVE  Findings'
    BY <1>8 DEF AccountFound
  <1>9. ASSUME NEW t \in Clients, AccountMissing(t)
        PROVE  Findings'
    BY <1>9 DEF AccountMissing
  <1>10. ASSUME NEW t \in Clients, ContactFound(t)
        PROVE  Findings'
    BY <1>10 DEF ContactFound
  <1>11. ASSUME NEW t \in Clients, AddContactFails(t)
        PROVE  Findings'
    BY <1>11 DEF AddContactFails
  <1>12. ASSUME NEW t \in Clients, Announce(t)
        PROVE  Findings'
    BY <1>12 DEF Announce
  <1>13. ASSUME NEW t \in Clients, NEW u \in Users, NEW g \in GroupIds, StartJoin(t, u, g)
        PROVE  Findings'
    BY <1>13 DEF StartJoin
  <1>14. ASSUME NEW t \in Clients, GroupFound(t)
        PROVE  Findings'
    BY <1>14 DEF GroupFound
  <1>15. ASSUME NEW t \in Clients, GroupMissing(t)
        PROVE  Findings'
    BY <1>15 DEF GroupMissing
  <1>16. ASSUME NEW t \in Clients, NotMember(t)
        PROVE  Findings'
    BY <1>16 DEF NotMember
  <1>17. ASSUME NEW t \in Clients, AlreadyMember(t)
        PROVE  Findings'
    BY <1>17 DEF AlreadyMember
  <1>18. ASSUME NEW t \in Clients, JoinFails(t)
        PROVE  Findings'
    BY <1>18 DEF JoinFails
  <1>19. ASSUME NEW t \in Clients, NEW u \in Users, NEW g \in GroupIds, StartQuit(t, u, g)
        PROVE  Findings'
    BY <1>19 DEF StartQuit
  <1>20. ASSUME NEW t \in Clients, QuitGroupFound(t)
        PROVE  Findings'
    BY <1>20 DEF QuitGroupFound
  <1>21. ASSUME NEW t \in Clients, QuitGroupMissing(t)
        PROVE  Findings'
    BY <1>21 DEF QuitGroupMissing
  <1>22. ASSUME NEW t \in Clients, Member(t)
        PROVE  Findings'
    BY <1>22 DEF Member
  <1>23. ASSUME NEW t \in Clients, NoMember(t)
        PROVE  Findings'
    BY <1>23 DEF NoMember
  <1>24. ASSUME NEW t \in Clients, QuitFails(t)
        PROVE  Findings'
    BY <1>24 DEF QuitFails
  <1>25. ASSUME NEW t \in Clients, Answer(t)
        PROVE  Findings'
    BY <1>25 DEF Answer
  <1>26. CASE Restart
    BY <1>26 DEF Restart
  <1>27. CASE UNCHANGED vars
    BY <1>27 DEF vars
  <1> QED
    BY <1>1, <1>2, <1>3, <1>4, <1>5, <1>6, <1>7, <1>8, <1>9, <1>10, <1>11, <1>12, <1>13, <1>14,
       <1>15, <1>16, <1>17, <1>18, <1>19, <1>20, <1>21, <1>22, <1>23, <1>24, <1>25, <1>26, <1>27
    DEF Next, ContactStep, CreateStep, JoinStep, QuitStep

\* add_contact and join_group insert only rows that are absent.
LEMMA DuplicateStep == TypeOK /\ Requests /\ Findings /\ NoDuplicates /\ [Next]_vars => NoDuplicates'
  <1> SUFFICES ASSUME TypeOK, Requests, Findings, NoDuplicates, [Next]_vars PROVE NoDuplicates'
    OBVIOUS
  <1>1. ASSUME NEW t \in Clients, AddContact(t)
        PROVE  NoDuplicates'
    <2>1. ASSUME NEW x \in Users \ overlap, NEW y \in Users PROVE contacts'[x][y] <= 1
      <3>1. contacts[x][y] <= 1 /\ contacts[x][y] \in Nat
        BY RowCounts DEF NoDuplicates
      <3>2. CASE x = who[t] /\ y = friend[t]
        <4>1. contacts[x][y] = 0
          BY <1>1, <3>2, ContactRow DEF Findings, FindingOf
        <4> QED BY <1>1, <3>2, <4>1, ContactRow
      <3>3. CASE ~(x = who[t] /\ y = friend[t])
        BY <1>1, <3>1, <3>3, ContactRow
      <3> QED BY <3>2, <3>3
    <2>2. UNCHANGED <<groupmember, overlap>>
      BY <1>1, ContactRow
    <2> QED BY <2>1, <2>2 DEF NoDuplicates
  <1>2. ASSUME NEW t \in Clients, JoinInsert(t)
        PROVE  NoDuplicates'
    <2>1. ASSUME NEW y \in Users \ overlap, NEW g \in GroupIds PROVE groupmember'[g][y] <= 1
      <3>1. groupmember[g][y] <= 1 /\ groupmember[g][y] \in Nat
        BY RowCounts DEF NoDuplicates
      <3>2. CASE g = group[t] /\ y = who[t]
        <4>1. groupmember[g][y] = 0
          BY <1>2, <3>2, JoinRow DEF Findings, FindingOf
        <4> QED BY <1>2, <3>2, <4>1, JoinRow
      <3>3. CASE ~(g = group[t] /\ y = who[t])
        BY <1>2, <3>1, <3>3, JoinRow
      <3> QED BY <3>2, <3>3
    <2>2. UNCHANGED <<contacts, overlap>>
      BY <1>2, JoinRow
    <2> QED BY <2>1, <2>2 DEF NoDuplicates
  <1>3. ASSUME NEW t \in Clients, QuitDelete(t)
        PROVE  NoDuplicates'
    <2>1. ASSUME NEW y \in Users \ overlap, NEW g \in GroupIds PROVE groupmember'[g][y] <= 1
      <3>1. groupmember[g][y] <= 1
        BY DEF NoDuplicates
      <3> QED BY <1>3, <3>1, QuitRow
    <2>2. UNCHANGED <<contacts, overlap>>
      BY <1>3, QuitRow
    <2> QED BY <2>1, <2>2 DEF NoDuplicates
  <1> USE DEF TypeOK, Requests, RequestOf, Findings, FindingOf, NoDuplicates, tables, request, Statement, Goto, Reply, Begin, Return
  <1>4. ASSUME NEW t \in Clients, NEW u \in Users, Register(t, u)
        PROVE  NoDuplicates'
    BY <1>4 DEF Register
  <1>5. ASSUME NEW t \in Clients, NEW u \in Users, NEW v \in Users, StartContact(t, u, v)
        PROVE  NoDuplicates'
    BY <1>5 DEF StartContact
  <1>6. ASSUME NEW t \in Clients, AccountFound(t)
        PROVE  NoDuplicates'
    BY <1>6 DEF AccountFound
  <1>7. ASSUME NEW t \in Clients, AccountMissing(t)
        PROVE  NoDuplicates'
    BY <1>7 DEF AccountMissing
  <1>8. ASSUME NEW t \in Clients, ContactFound(t)
        PROVE  NoDuplicates'
    BY <1>8 DEF ContactFound
  <1>9. ASSUME NEW t \in Clients, ContactAbsent(t)
        PROVE  NoDuplicates'
    BY <1>9 DEF ContactAbsent
  <1>10. ASSUME NEW t \in Clients, AddContactFails(t)
        PROVE  NoDuplicates'
    BY <1>10 DEF AddContactFails
  <1>11. ASSUME NEW t \in Clients, NEW u \in Users, StartCreate(t, u)
        PROVE  NoDuplicates'
    BY <1>11 DEF StartCreate
  <1>12. ASSUME NEW t \in Clients, Announce(t)
        PROVE  NoDuplicates'
    BY <1>12 DEF Announce
  <1>13. ASSUME NEW t \in Clients, NEW u \in Users, NEW g \in GroupIds, StartJoin(t, u, g)
        PROVE  NoDuplicates'
    BY <1>13 DEF StartJoin
  <1>14. ASSUME NEW t \in Clients, GroupFound(t)
        PROVE  NoDuplicates'
    BY <1>14 DEF GroupFound
  <1>15. ASSUME NEW t \in Clients, GroupMissing(t)
        PROVE  NoDuplicates'
    BY <1>15 DEF GroupMissing
  <1>16. ASSUME NEW t \in Clients, NotMember(t)
        PROVE  NoDuplicates'
    BY <1>16 DEF NotMember
  <1>17. ASSUME NEW t \in Clients, AlreadyMember(t)
        PROVE  NoDuplicates'
    BY <1>17 DEF AlreadyMember
  <1>18. ASSUME NEW t \in Clients, JoinFails(t)
        PROVE  NoDuplicates'
    BY <1>18 DEF JoinFails
  <1>19. ASSUME NEW t \in Clients, NEW u \in Users, NEW g \in GroupIds, StartQuit(t, u, g)
        PROVE  NoDuplicates'
    BY <1>19 DEF StartQuit
  <1>20. ASSUME NEW t \in Clients, QuitGroupFound(t)
        PROVE  NoDuplicates'
    BY <1>20 DEF QuitGroupFound
  <1>21. ASSUME NEW t \in Clients, QuitGroupMissing(t)
        PROVE  NoDuplicates'
    BY <1>21 DEF QuitGroupMissing
  <1>22. ASSUME NEW t \in Clients, Member(t)
        PROVE  NoDuplicates'
    BY <1>22 DEF Member
  <1>23. ASSUME NEW t \in Clients, NoMember(t)
        PROVE  NoDuplicates'
    BY <1>23 DEF NoMember
  <1>24. ASSUME NEW t \in Clients, QuitFails(t)
        PROVE  NoDuplicates'
    BY <1>24 DEF QuitFails
  <1>25. ASSUME NEW t \in Clients, Answer(t)
        PROVE  NoDuplicates'
    BY <1>25 DEF Answer
  <1>26. CASE Restart
    BY <1>26 DEF Restart
  <1>27. CASE UNCHANGED vars
    BY <1>27 DEF vars
  <1> QED
    BY <1>1, <1>2, <1>3, <1>4, <1>5, <1>6, <1>7, <1>8, <1>9, <1>10, <1>11, <1>12, <1>13, <1>14,
       <1>15, <1>16, <1>17, <1>18, <1>19, <1>20, <1>21, <1>22, <1>23, <1>24, <1>25, <1>26, <1>27
    DEF Next, ContactStep, CreateStep, JoinStep, QuitStep

\* A row is inserted only after its account or group was found, and neither is
\* ever deleted.
LEMMA DanglingStep == TypeOK /\ Requests /\ NoDanglingRows /\ [Next]_vars => NoDanglingRows'
  <1> SUFFICES ASSUME TypeOK, Requests, NoDanglingRows, [Next]_vars PROVE NoDanglingRows'
    OBVIOUS
  <1>1. ASSUME NEW t \in Clients, AddContact(t)
        PROVE  NoDanglingRows'
    <2>1. ASSUME NEW x \in Users, NEW y \in Users, contacts'[x][y] > 0
          PROVE  {x, y} \subseteq accounts
      <3>1. CASE x = who[t] /\ y = friend[t]
        BY <1>1, <3>1, ContactRow
      <3>2. CASE ~(x = who[t] /\ y = friend[t])
        BY <1>1, <2>1, <3>2, ContactRow DEF NoDanglingRows
      <3> QED BY <3>1, <3>2
    <2>2. UNCHANGED <<accounts, groupmember, grouplist>>
      BY <1>1, ContactRow
    <2> QED BY <2>1, <2>2 DEF NoDanglingRows
  <1>2. ASSUME NEW t \in Clients, NEW u \in Users, StartCreate(t, u)
        PROVE  NoDanglingRows'
    <2>1. u \in accounts /\ grouplist' = Append(grouplist, u)
      BY <1>2 DEF StartCreate, Begin
    <2>2. UNCHANGED <<accounts, contacts, groupmember>>
      BY <1>2 DEF StartCreate
    <2>3. \A h \in DOMAIN grouplist' : grouplist'[h] \in accounts
      BY <2>1, Appended DEF NoDanglingRows
    <2>4. DOMAIN grouplist \subseteq DOMAIN grouplist'
      BY <2>1, Appended
    <2> QED BY <2>2, <2>3, <2>4 DEF NoDanglingRows
  <1>3. ASSUME NEW t \in Clients, JoinInsert(t)
        PROVE  NoDanglingRows'
    <2>1. ASSUME NEW g \in GroupIds, NEW y \in Users, groupmember'[g][y] > 0
          PROVE  g \in DOMAIN grouplist /\ y \in accounts
      <3>1. CASE g = group[t] /\ y = who[t]
        BY <1>3, <2>1, <3>1, JoinRow
      <3>2. CASE ~(g = group[t] /\ y = who[t])
        <4>1. groupmember[g][y] > 0
          BY <1>3, <2>1, <3>2, JoinRow
        <4> QED BY <4>1 DEF NoDanglingRows
      <3> QED BY <3>1, <3>2
    <2>2. UNCHANGED <<accounts, contacts, grouplist>>
      BY <1>3, JoinRow
    <2> QED BY <2>1, <2>2 DEF NoDanglingRows
  <1>4. ASSUME NEW t \in Clients, QuitDelete(t)
        PROVE  NoDanglingRows'
    <2>1. ASSUME NEW g \in GroupIds, NEW y \in Users, groupmember'[g][y] > 0
          PROVE  g \in DOMAIN grouplist /\ y \in accounts
      <3>1. CASE g = group[t] /\ y = who[t]
        BY <1>4, <2>1, <3>1, QuitRow
      <3>2. CASE ~(g = group[t] /\ y = who[t])
        <4>1. groupmember[g][y] > 0
          BY <1>4, <2>1, <3>2, QuitRow
        <4> QED BY <4>1 DEF NoDanglingRows
      <3> QED BY <3>1, <3>2
    <2>2. UNCHANGED <<accounts, contacts, grouplist>>
      BY <1>4, QuitRow
    <2> QED BY <2>1, <2>2 DEF NoDanglingRows
  <1> USE DEF TypeOK, Requests, RequestOf, NoDanglingRows, tables, request, Statement, Goto, Reply, Begin, Return
  <1>5. ASSUME NEW t \in Clients, NEW u \in Users, Register(t, u)
        PROVE  NoDanglingRows'
    BY <1>5 DEF Register
  <1>6. ASSUME NEW t \in Clients, NEW u \in Users, NEW v \in Users, StartContact(t, u, v)
        PROVE  NoDanglingRows'
    BY <1>6 DEF StartContact
  <1>7. ASSUME NEW t \in Clients, AccountFound(t)
        PROVE  NoDanglingRows'
    BY <1>7 DEF AccountFound
  <1>8. ASSUME NEW t \in Clients, AccountMissing(t)
        PROVE  NoDanglingRows'
    BY <1>8 DEF AccountMissing
  <1>9. ASSUME NEW t \in Clients, ContactFound(t)
        PROVE  NoDanglingRows'
    BY <1>9 DEF ContactFound
  <1>10. ASSUME NEW t \in Clients, ContactAbsent(t)
        PROVE  NoDanglingRows'
    BY <1>10 DEF ContactAbsent
  <1>11. ASSUME NEW t \in Clients, AddContactFails(t)
        PROVE  NoDanglingRows'
    BY <1>11 DEF AddContactFails
  <1>12. ASSUME NEW t \in Clients, Announce(t)
        PROVE  NoDanglingRows'
    BY <1>12 DEF Announce
  <1>13. ASSUME NEW t \in Clients, NEW u \in Users, NEW g \in GroupIds, StartJoin(t, u, g)
        PROVE  NoDanglingRows'
    BY <1>13 DEF StartJoin
  <1>14. ASSUME NEW t \in Clients, GroupFound(t)
        PROVE  NoDanglingRows'
    BY <1>14 DEF GroupFound
  <1>15. ASSUME NEW t \in Clients, GroupMissing(t)
        PROVE  NoDanglingRows'
    BY <1>15 DEF GroupMissing
  <1>16. ASSUME NEW t \in Clients, NotMember(t)
        PROVE  NoDanglingRows'
    BY <1>16 DEF NotMember
  <1>17. ASSUME NEW t \in Clients, AlreadyMember(t)
        PROVE  NoDanglingRows'
    BY <1>17 DEF AlreadyMember
  <1>18. ASSUME NEW t \in Clients, JoinFails(t)
        PROVE  NoDanglingRows'
    BY <1>18 DEF JoinFails
  <1>19. ASSUME NEW t \in Clients, NEW u \in Users, NEW g \in GroupIds, StartQuit(t, u, g)
        PROVE  NoDanglingRows'
    BY <1>19 DEF StartQuit
  <1>20. ASSUME NEW t \in Clients, QuitGroupFound(t)
        PROVE  NoDanglingRows'
    BY <1>20 DEF QuitGroupFound
  <1>21. ASSUME NEW t \in Clients, QuitGroupMissing(t)
        PROVE  NoDanglingRows'
    BY <1>21 DEF QuitGroupMissing
  <1>22. ASSUME NEW t \in Clients, Member(t)
        PROVE  NoDanglingRows'
    BY <1>22 DEF Member
  <1>23. ASSUME NEW t \in Clients, NoMember(t)
        PROVE  NoDanglingRows'
    BY <1>23 DEF NoMember
  <1>24. ASSUME NEW t \in Clients, QuitFails(t)
        PROVE  NoDanglingRows'
    BY <1>24 DEF QuitFails
  <1>25. ASSUME NEW t \in Clients, Answer(t)
        PROVE  NoDanglingRows'
    BY <1>25 DEF Answer
  <1>26. CASE Restart
    BY <1>26 DEF Restart
  <1>27. CASE UNCHANGED vars
    BY <1>27 DEF vars
  <1> QED
    BY <1>1, <1>2, <1>3, <1>4, <1>5, <1>6, <1>7, <1>8, <1>9, <1>10, <1>11, <1>12, <1>13, <1>14,
       <1>15, <1>16, <1>17, <1>18, <1>19, <1>20, <1>21, <1>22, <1>23, <1>24, <1>25, <1>26, <1>27
    DEF Next, ContactStep, CreateStep, JoinStep, QuitStep

\* A receipt with status 1 stays true until it has been sent.
LEMMA TruthStep == TypeOK /\ Requests /\ Alone /\ Findings /\ ReceiptsTellTruth /\ [Next]_vars => ReceiptsTellTruth'
  <1> SUFFICES ASSUME TypeOK, Requests, Alone, Findings, ReceiptsTellTruth, [Next]_vars PROVE ReceiptsTellTruth'
    OBVIOUS
  <1>1. ASSUME NEW t \in Clients, NEW u \in Users, NEW v \in Users, StartContact(t, u, v)
        PROVE  ReceiptsTellTruth'
    <2>1. OthersStay(t)
      BY <1>1 DEF StartContact, OthersStay, TypeOK, tables, request, Statement, Goto, Reply, Begin, Return
    <2>2. status'[t] # 1
      BY <1>1 DEF StartContact, TypeOK, tables, request, Statement, Goto, Reply, Begin, Return
    <2>3. UNCHANGED <<contacts, groupmember>> /\ overlap \subseteq overlap'
      BY <1>1 DEF StartContact, tables, request, Statement, Goto, Reply, Begin, Return
    <2> QED BY <2>1, <2>2, <2>3, TruthFrame
  <1>2. ASSUME NEW t \in Clients, ContactFound(t)
        PROVE  ReceiptsTellTruth'
    <2>1. OthersStay(t)
      BY <1>2 DEF ContactFound, OthersStay, TypeOK, tables, request, Statement, Goto, Reply, Begin, Return
    <2>2. status'[t] # 1
      BY <1>2 DEF ContactFound, TypeOK, tables, request, Statement, Goto, Reply, Begin, Return
    <2>3. UNCHANGED <<contacts, groupmember>> /\ overlap \subseteq overlap'
      BY <1>2 DEF ContactFound, tables, request, Statement, Goto, Reply, Begin, Return
    <2> QED BY <2>1, <2>2, <2>3, TruthFrame
  <1>3. ASSUME NEW t \in Clients, AddContact(t)
        PROVE  ReceiptsTellTruth'
    <2>1. OthersStay(t)
      BY <1>3 DEF AddContact, OthersStay, TypeOK, tables, request, Statement, Goto, Reply, Begin, Return
    <2> SUFFICES ASSUME NEW s \in Clients, status'[s] = 1, who'[s] \notin overlap'
                 PROVE  \/ pc'[s] = "answerContact" /\ contacts'[who'[s]][friend'[s]] = 1
                        \/ pc'[s] = "answerJoin" /\ groupmember'[group'[s]][who'[s]] = 1
                        \/ pc'[s] = "answerQuit" /\ groupmember'[group'[s]][who'[s]] = 0
      BY DEF ReceiptsTellTruth
    <2>2. UNCHANGED <<who, friend, group, overlap>>
      BY <1>3, ContactRow
    <2>3. CASE s = t
      <3>1. pc'[t] = "answerContact"
        BY <1>3, ContactRow DEF TypeOK
      <3>2. contacts'[who[t]][friend[t]] = 1
        BY <1>3, <2>2, <2>3, ContactRow DEF Findings, FindingOf
      <3> QED BY <2>2, <2>3, <3>1, <3>2
    <2>4. CASE s # t
      <3>1. /\ status[s] = 1 /\ pc'[s] = pc[s]
            /\ pc[s] \in Receipts /\ pc[s] # "idle"
        BY <2>1, <2>4 DEF OthersStay, Requests, RequestOf, Receipts
      <3>2. who[s] \in Users /\ who[s] # who[t]
        BY <2>2, <2>4, <3>1, OwnUser
      <3>3. /\ pc[s] = "answerContact" => friend[s] \in Users
            /\ pc[s] \in {"answerJoin", "answerQuit"} => group[s] \in GroupIds
        BY DEF Requests, RequestOf
      <3>4. /\ \A y \in Users : contacts'[who[s]][y] = contacts[who[s]][y]
            /\ \A g \in GroupIds : groupmember'[g][who[s]] = groupmember[g][who[s]]
        BY <1>3, <3>2, ContactRow
      <3>5. \/ pc[s] = "answerContact" /\ contacts[who[s]][friend[s]] = 1
            \/ pc[s] = "answerJoin" /\ groupmember[group[s]][who[s]] = 1
            \/ pc[s] = "answerQuit" /\ groupmember[group[s]][who[s]] = 0
        BY <2>2, <3>1 DEF ReceiptsTellTruth
      <3> QED BY <2>2, <3>1, <3>3, <3>4, <3>5
    <2> QED BY <2>3, <2>4
  <1>4. ASSUME NEW t \in Clients, Announce(t)
        PROVE  ReceiptsTellTruth'
    <2>1. OthersStay(t)
      BY <1>4 DEF Announce, OthersStay, TypeOK, tables, request, Statement, Goto, Reply, Begin, Return
    <2>2. status'[t] # 1
      <3>1. status'[t] = status[t] /\ pc[t] \notin Receipts
        BY <1>4 DEF Announce, Begin, Receipts
      <3> QED BY <3>1 DEF Requests, RequestOf
    <2>3. UNCHANGED <<contacts, groupmember>> /\ overlap \subseteq overlap'
      BY <1>4 DEF Announce, tables, request, Statement, Goto, Reply, Begin, Return
    <2> QED BY <2>1, <2>2, <2>3, TruthFrame
  <1>5. ASSUME NEW t \in Clients, NEW u \in Users, NEW g \in GroupIds, StartJoin(t, u, g)
        PROVE  ReceiptsTellTruth'
    <2>1. OthersStay(t)
      BY <1>5 DEF StartJoin, OthersStay, TypeOK, tables, request, Statement, Goto, Reply, Begin, Return
    <2>2. status'[t] # 1
      <3>1. status'[t] = status[t] /\ pc[t] \notin Receipts
        BY <1>5 DEF StartJoin, Begin, Receipts
      <3> QED BY <3>1 DEF Requests, RequestOf
    <2>3. UNCHANGED <<contacts, groupmember>> /\ overlap \subseteq overlap'
      BY <1>5 DEF StartJoin, tables, request, Statement, Goto, Reply, Begin, Return
    <2> QED BY <2>1, <2>2, <2>3, TruthFrame
  <1>6. ASSUME NEW t \in Clients, JoinInsert(t)
        PROVE  ReceiptsTellTruth'
    <2>1. OthersStay(t)
      BY <1>6 DEF JoinInsert, OthersStay, TypeOK, tables, request, Statement, Goto, Reply, Begin, Return
    <2> SUFFICES ASSUME NEW s \in Clients, status'[s] = 1, who'[s] \notin overlap'
                 PROVE  \/ pc'[s] = "answerContact" /\ contacts'[who'[s]][friend'[s]] = 1
                        \/ pc'[s] = "answerJoin" /\ groupmember'[group'[s]][who'[s]] = 1
                        \/ pc'[s] = "answerQuit" /\ groupmember'[group'[s]][who'[s]] = 0
      BY DEF ReceiptsTellTruth
    <2>2. UNCHANGED <<who, friend, group, overlap>>
      BY <1>6, JoinRow
    <2>3. CASE s = t
      <3>1. pc'[t] = "answerJoin"
        BY <1>6, JoinRow DEF TypeOK
      <3>2. groupmember'[group[t]][who[t]] = 1
        BY <1>6, <2>2, <2>3, JoinRow DEF Findings, FindingOf
      <3> QED BY <2>2, <2>3, <3>1, <3>2
    <2>4. CASE s # t
      <3>1. /\ status[s] = 1 /\ pc'[s] = pc[s]
            /\ pc[s] \in Receipts /\ pc[s] # "idle"
        BY <2>1, <2>4 DEF OthersStay, Requests, RequestOf, Receipts
      <3>2. who[s] \in Users /\ who[s] # who[t]
        BY <2>2, <2>4, <3>1, OwnUser
      <3>3. /\ pc[s] = "answerContact" => friend[s] \in Users
            /\ pc[s] \in {"answerJoin", "answerQuit"} => group[s] \in GroupIds
        BY DEF Requests, RequestOf
      <3>4. /\ \A y \in Users : contacts'[who[s]][y] = contacts[who[s]][y]
            /\ \A g \in GroupIds : groupmember'[g][who[s]] = groupmember[g][who[s]]
        BY <1>6, <3>2, JoinRow
      <3>5. \/ pc[s] = "answerContact" /\ contacts[who[s]][friend[s]] = 1
            \/ pc[s] = "answerJoin" /\ groupmember[group[s]][who[s]] = 1
            \/ pc[s] = "answerQuit" /\ groupmember[group[s]][who[s]] = 0
        BY <2>2, <3>1 DEF ReceiptsTellTruth
      <3> QED BY <2>2, <3>1, <3>3, <3>4, <3>5
    <2> QED BY <2>3, <2>4
  <1>7. ASSUME NEW t \in Clients, NEW u \in Users, NEW g \in GroupIds, StartQuit(t, u, g)
        PROVE  ReceiptsTellTruth'
    <2>1. OthersStay(t)
      BY <1>7 DEF StartQuit, OthersStay, TypeOK, tables, request, Statement, Goto, Reply, Begin, Return
    <2>2. status'[t] # 1
      <3>1. status'[t] = status[t] /\ pc[t] \notin Receipts
        BY <1>7 DEF StartQuit, Begin, Receipts
      <3> QED BY <3>1 DEF Requests, RequestOf
    <2>3. UNCHANGED <<contacts, groupmember>> /\ overlap \subseteq overlap'
      BY <1>7 DEF StartQuit, tables, request, Statement, Goto, Reply, Begin, Return
    <2> QED BY <2>1, <2>2, <2>3, TruthFrame
  <1>8. ASSUME NEW t \in Clients, QuitDelete(t)
        PROVE  ReceiptsTellTruth'
    <2>1. OthersStay(t)
      BY <1>8 DEF QuitDelete, OthersStay, TypeOK, tables, request, Statement, Goto, Reply, Begin, Return
    <2> SUFFICES ASSUME NEW s \in Clients, status'[s] = 1, who'[s] \notin overlap'
                 PROVE  \/ pc'[s] = "answerContact" /\ contacts'[who'[s]][friend'[s]] = 1
                        \/ pc'[s] = "answerJoin" /\ groupmember'[group'[s]][who'[s]] = 1
                        \/ pc'[s] = "answerQuit" /\ groupmember'[group'[s]][who'[s]] = 0
      BY DEF ReceiptsTellTruth
    <2>2. UNCHANGED <<who, friend, group, overlap>>
      BY <1>8, QuitRow
    <2>3. CASE s = t
      <3>1. pc'[t] = "answerQuit"
        BY <1>8, QuitRow DEF TypeOK
      <3>2. groupmember'[group[t]][who[t]] = 0
        BY <1>8, <2>2, <2>3, QuitRow DEF Findings, FindingOf
      <3> QED BY <2>2, <2>3, <3>1, <3>2
    <2>4. CASE s # t
      <3>1. /\ status[s] = 1 /\ pc'[s] = pc[s]
            /\ pc[s] \in Receipts /\ pc[s] # "idle"
        BY <2>1, <2>4 DEF OthersStay, Requests, RequestOf, Receipts
      <3>2. who[s] \in Users /\ who[s] # who[t]
        BY <2>2, <2>4, <3>1, OwnUser
      <3>3. /\ pc[s] = "answerContact" => friend[s] \in Users
            /\ pc[s] \in {"answerJoin", "answerQuit"} => group[s] \in GroupIds
        BY DEF Requests, RequestOf
      <3>4. /\ \A y \in Users : contacts'[who[s]][y] = contacts[who[s]][y]
            /\ \A g \in GroupIds : groupmember'[g][who[s]] = groupmember[g][who[s]]
        BY <1>8, <3>2, QuitRow
      <3>5. \/ pc[s] = "answerContact" /\ contacts[who[s]][friend[s]] = 1
            \/ pc[s] = "answerJoin" /\ groupmember[group[s]][who[s]] = 1
            \/ pc[s] = "answerQuit" /\ groupmember[group[s]][who[s]] = 0
        BY <2>2, <3>1 DEF ReceiptsTellTruth
      <3> QED BY <2>2, <3>1, <3>3, <3>4, <3>5
    <2> QED BY <2>3, <2>4
  <1>9. ASSUME NEW t \in Clients, Answer(t)
        PROVE  ReceiptsTellTruth'
    <2>1. OthersStay(t)
      BY <1>9 DEF Answer, OthersStay, TypeOK, tables, request, Statement, Goto, Reply, Begin, Return
    <2>2. status'[t] # 1
      BY <1>9 DEF Answer, TypeOK, tables, request, Statement, Goto, Reply, Begin, Return
    <2>3. UNCHANGED <<contacts, groupmember>> /\ overlap \subseteq overlap'
      BY <1>9 DEF Answer, tables, request, Statement, Goto, Reply, Begin, Return
    <2> QED BY <2>1, <2>2, <2>3, TruthFrame
  <1> USE DEF TypeOK, Requests, RequestOf, Receipts, Alone, Findings, FindingOf, ReceiptsTellTruth, tables, request, Statement, Goto, Reply, Begin, Return
  <1>10. ASSUME NEW t \in Clients, NEW u \in Users, Register(t, u)
        PROVE  ReceiptsTellTruth'
    BY <1>10 DEF Register
  <1>11. ASSUME NEW t \in Clients, AccountFound(t)
        PROVE  ReceiptsTellTruth'
    BY <1>11 DEF AccountFound
  <1>12. ASSUME NEW t \in Clients, AccountMissing(t)
        PROVE  ReceiptsTellTruth'
    BY <1>12 DEF AccountMissing
  <1>13. ASSUME NEW t \in Clients, ContactAbsent(t)
        PROVE  ReceiptsTellTruth'
    BY <1>13 DEF ContactAbsent
  <1>14. ASSUME NEW t \in Clients, AddContactFails(t)
        PROVE  ReceiptsTellTruth'
    BY <1>14 DEF AddContactFails
  <1>15. ASSUME NEW t \in Clients, NEW u \in Users, StartCreate(t, u)
        PROVE  ReceiptsTellTruth'
    BY <1>15 DEF StartCreate
  <1>16. ASSUME NEW t \in Clients, GroupFound(t)
        PROVE  ReceiptsTellTruth'
    BY <1>16 DEF GroupFound
  <1>17. ASSUME NEW t \in Clients, GroupMissing(t)
        PROVE  ReceiptsTellTruth'
    BY <1>17 DEF GroupMissing
  <1>18. ASSUME NEW t \in Clients, NotMember(t)
        PROVE  ReceiptsTellTruth'
    BY <1>18 DEF NotMember
  <1>19. ASSUME NEW t \in Clients, AlreadyMember(t)
        PROVE  ReceiptsTellTruth'
    BY <1>19 DEF AlreadyMember
  <1>20. ASSUME NEW t \in Clients, JoinFails(t)
        PROVE  ReceiptsTellTruth'
    BY <1>20 DEF JoinFails
  <1>21. ASSUME NEW t \in Clients, QuitGroupFound(t)
        PROVE  ReceiptsTellTruth'
    BY <1>21 DEF QuitGroupFound
  <1>22. ASSUME NEW t \in Clients, QuitGroupMissing(t)
        PROVE  ReceiptsTellTruth'
    BY <1>22 DEF QuitGroupMissing
  <1>23. ASSUME NEW t \in Clients, Member(t)
        PROVE  ReceiptsTellTruth'
    BY <1>23 DEF Member
  <1>24. ASSUME NEW t \in Clients, NoMember(t)
        PROVE  ReceiptsTellTruth'
    BY <1>24 DEF NoMember
  <1>25. ASSUME NEW t \in Clients, QuitFails(t)
        PROVE  ReceiptsTellTruth'
    BY <1>25 DEF QuitFails
  <1>26. CASE Restart
    <2>1. \A s \in Clients : status'[s] = 0
      BY <1>26 DEF Restart
    <2> QED BY <2>1 DEF ReceiptsTellTruth
  <1>27. CASE UNCHANGED vars
    BY <1>27 DEF vars
  <1> QED
    BY <1>1, <1>2, <1>3, <1>4, <1>5, <1>6, <1>7, <1>8, <1>9, <1>10, <1>11, <1>12, <1>13, <1>14,
       <1>15, <1>16, <1>17, <1>18, <1>19, <1>20, <1>21, <1>22, <1>23, <1>24, <1>25, <1>26, <1>27
    DEF Next, ContactStep, CreateStep, JoinStep, QuitStep

\* The newest group of the creator is the one its request has just inserted.
LEMMA AnnounceStep == TypeOK /\ Requests /\ Findings /\ AnnouncesOwnGroup /\ [Next]_vars => AnnouncesOwnGroup'
  <1> SUFFICES ASSUME TypeOK, Requests, Findings, AnnouncesOwnGroup, [Next]_vars PROVE AnnouncesOwnGroup'
    OBVIOUS
  <1>1. ASSUME NEW t \in Clients, Announce(t)
        PROVE  AnnouncesOwnGroup'
    <2>1. OthersStay(t)
      BY <1>1 DEF Announce, OthersStay, TypeOK, tables, request, Statement, Goto, Reply, Begin, Return
    <2>2. PICK g \in Latest(who[t]) : group' = [group EXCEPT ![t] = g]
      BY <1>1 DEF Announce
    <2>3. UNCHANGED <<who, made, overlap>> /\ pc[t] = "latest" /\ group'[t] = g
      BY <1>1, <2>2 DEF Announce, TypeOK
    <2>4. who[t] \notin overlap => g = made[t]
      <3>1. made[t] \in DOMAIN grouplist /\ grouplist[made[t]] = who[t] /\ g \in DOMAIN grouplist
        BY <2>2, <2>3 DEF Latest, Requests, RequestOf
      <3>2. ~(made[t] > g)
        BY <2>2, <3>1 DEF Latest
      <3>3. who[t] \notin overlap => ~(g > made[t])
        BY <2>2, <2>3 DEF Latest, Findings, FindingOf
      <3>4. made[t] \in Nat /\ g \in Nat
        BY <3>1, GroupDomain
      <3> QED BY <3>2, <3>3, <3>4
    <2> QED BY <2>1, <2>3, <2>4 DEF OthersStay, AnnouncesOwnGroup
  <1> USE DEF TypeOK, Requests, RequestOf, Findings, FindingOf, Latest, AnnouncesOwnGroup, tables, request, Statement, Goto, Reply, Begin, Return
  <1>2. ASSUME NEW t \in Clients, NEW u \in Users, Register(t, u)
        PROVE  AnnouncesOwnGroup'
    BY <1>2 DEF Register
  <1>3. ASSUME NEW t \in Clients, NEW u \in Users, NEW v \in Users, StartContact(t, u, v)
        PROVE  AnnouncesOwnGroup'
    BY <1>3 DEF StartContact
  <1>4. ASSUME NEW t \in Clients, AccountFound(t)
        PROVE  AnnouncesOwnGroup'
    BY <1>4 DEF AccountFound
  <1>5. ASSUME NEW t \in Clients, AccountMissing(t)
        PROVE  AnnouncesOwnGroup'
    BY <1>5 DEF AccountMissing
  <1>6. ASSUME NEW t \in Clients, ContactFound(t)
        PROVE  AnnouncesOwnGroup'
    BY <1>6 DEF ContactFound
  <1>7. ASSUME NEW t \in Clients, ContactAbsent(t)
        PROVE  AnnouncesOwnGroup'
    BY <1>7 DEF ContactAbsent
  <1>8. ASSUME NEW t \in Clients, AddContact(t)
        PROVE  AnnouncesOwnGroup'
    BY <1>8 DEF AddContact
  <1>9. ASSUME NEW t \in Clients, AddContactFails(t)
        PROVE  AnnouncesOwnGroup'
    BY <1>9 DEF AddContactFails
  <1>10. ASSUME NEW t \in Clients, NEW u \in Users, StartCreate(t, u)
        PROVE  AnnouncesOwnGroup'
    BY <1>10 DEF StartCreate
  <1>11. ASSUME NEW t \in Clients, NEW u \in Users, NEW g \in GroupIds, StartJoin(t, u, g)
        PROVE  AnnouncesOwnGroup'
    BY <1>11 DEF StartJoin
  <1>12. ASSUME NEW t \in Clients, GroupFound(t)
        PROVE  AnnouncesOwnGroup'
    BY <1>12 DEF GroupFound
  <1>13. ASSUME NEW t \in Clients, GroupMissing(t)
        PROVE  AnnouncesOwnGroup'
    BY <1>13 DEF GroupMissing
  <1>14. ASSUME NEW t \in Clients, NotMember(t)
        PROVE  AnnouncesOwnGroup'
    BY <1>14 DEF NotMember
  <1>15. ASSUME NEW t \in Clients, AlreadyMember(t)
        PROVE  AnnouncesOwnGroup'
    BY <1>15 DEF AlreadyMember
  <1>16. ASSUME NEW t \in Clients, JoinInsert(t)
        PROVE  AnnouncesOwnGroup'
    BY <1>16 DEF JoinInsert
  <1>17. ASSUME NEW t \in Clients, JoinFails(t)
        PROVE  AnnouncesOwnGroup'
    BY <1>17 DEF JoinFails
  <1>18. ASSUME NEW t \in Clients, NEW u \in Users, NEW g \in GroupIds, StartQuit(t, u, g)
        PROVE  AnnouncesOwnGroup'
    BY <1>18 DEF StartQuit
  <1>19. ASSUME NEW t \in Clients, QuitGroupFound(t)
        PROVE  AnnouncesOwnGroup'
    BY <1>19 DEF QuitGroupFound
  <1>20. ASSUME NEW t \in Clients, QuitGroupMissing(t)
        PROVE  AnnouncesOwnGroup'
    BY <1>20 DEF QuitGroupMissing
  <1>21. ASSUME NEW t \in Clients, Member(t)
        PROVE  AnnouncesOwnGroup'
    BY <1>21 DEF Member
  <1>22. ASSUME NEW t \in Clients, NoMember(t)
        PROVE  AnnouncesOwnGroup'
    BY <1>22 DEF NoMember
  <1>23. ASSUME NEW t \in Clients, QuitDelete(t)
        PROVE  AnnouncesOwnGroup'
    BY <1>23 DEF QuitDelete
  <1>24. ASSUME NEW t \in Clients, QuitFails(t)
        PROVE  AnnouncesOwnGroup'
    BY <1>24 DEF QuitFails
  <1>25. ASSUME NEW t \in Clients, Answer(t)
        PROVE  AnnouncesOwnGroup'
    BY <1>25 DEF Answer
  <1>26. CASE Restart
    BY <1>26 DEF Restart
  <1>27. CASE UNCHANGED vars
    BY <1>27 DEF vars
  <1> QED
    BY <1>1, <1>2, <1>3, <1>4, <1>5, <1>6, <1>7, <1>8, <1>9, <1>10, <1>11, <1>12, <1>13, <1>14,
       <1>15, <1>16, <1>17, <1>18, <1>19, <1>20, <1>21, <1>22, <1>23, <1>24, <1>25, <1>26, <1>27
    DEF Next, ContactStep, CreateStep, JoinStep, QuitStep


\* The inductive invariant: a select before an insert is as good as a unique key
\* as long as the requests of the user are handled one at a time.
THEOREM DirectoryInvariant == Spec => []DirectoryInv
  <1>1. DirectoryInv /\ [Next]_vars => DirectoryInv'
    BY TypeStep, RequestStep, AloneStep, FindingStep, DuplicateStep, DanglingStep, TruthStep,
       AnnounceStep DEF DirectoryInv
  <1> QED BY <1>1, InitDirectory, PTL DEF Spec

\* Every variable of the directory keeps its type.
THEOREM DirectoryTypeCorrect == Spec => []TypeOK
  <1>1. DirectoryInv => TypeOK
    BY DEF DirectoryInv
  <1> QED BY <1>1, DirectoryInvariant, PTL

\* No contact and no member twice for a user whose requests never overlapped.
THEOREM RowsUnique == Spec => []NoDuplicates
  <1>1. DirectoryInv => NoDuplicates
    BY DEF DirectoryInv
  <1> QED BY <1>1, DirectoryInvariant, PTL

\* Rows refer to accounts and groups that exist, whoever overlaps with whom.
THEOREM ReferencesHold == Spec => []NoDanglingRows
  <1>1. DirectoryInv => NoDanglingRows
    BY DEF DirectoryInv
  <1> QED BY <1>1, DirectoryInvariant, PTL

\* A receipt with status 1 is true when it is sent.
THEOREM ReceiptsTrue == Spec => []ReceiptsTellTruth
  <1>1. DirectoryInv => ReceiptsTellTruth
    BY DEF DirectoryInv
  <1> QED BY <1>1, DirectoryInvariant, PTL

\* create_group announces and joins the group it has inserted.
THEOREM OwnGroupAnnounced == Spec => []AnnouncesOwnGroup
  <1>1. DirectoryInv => AnnouncesOwnGroup
    BY DEF DirectoryInv
  <1> QED BY <1>1, DirectoryInvariant, PTL
=============================================================================
