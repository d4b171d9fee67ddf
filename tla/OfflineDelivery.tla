--------------------------- MODULE OfflineDelivery ---------------------------
(***************************************************************************)
(* How a chat message reaches its user in src/server/server.c, across the    *)
(* queue, the table offlinemsg and the login that replays the table          *)
(* (send_offline_message).  The queue is the abstract one of MessageQueue,   *)
(* which SendQueue implements; the connection table is reduced to who is     *)
(* logged in on which connection, the rest of it being in Sessions.          *)
(*                                                                           *)
(* The hazards are in the gaps: the send thread looks a user up and saves    *)
(* the message in two steps, a login selects the stored rows, enqueues them  *)
(* and deletes in three, and the process may end between any two of them.    *)
(* Any insert and any delete may fail, with its result ignored; a ring that  *)
(* is full drops what it is given; and the queue may stop for good, for one  *)
(* of the reasons that are in SendQueue.  Receipts and lists, which go       *)
(* through the same ring, are left out but for this: they may fill it.       *)
(***************************************************************************)
EXTENDS StoredRows

CONSTANTS Conns,        \* connections, each with its thread
          Users, NoUser,
          Chats,        \* chat messages; each is sent once (a bound)
          Capacity,     \* MAX_SEND_QUEUE_SIZE
          MaxLogins,    \* bound: logins that get as far as setting the name
          MaxRestarts,  \* bound: times the server is stopped and started again
          MaxFaults     \* bound: statements that fail, and times that receipts
                        \* fill the ring or that the queue stops

ASSUME NoUserAssumption == NoUser \notin Users
ASSUME BoundsAssumption == {MaxLogins, MaxRestarts, MaxFaults} \subseteq Nat
ASSUME CapacityAssumption == Capacity \in Nat /\ Capacity > 1

VARIABLES
  queue, wire, offline,  \* as in MessageQueue
  decision,  \* the send thread about the oldest message: "none", "send" or "save"
  halted,    \* queue_lock is taken for good
  name,      \* name[c]: client_prop[..].username of connection c
  pc,        \* where user_login is on connection c
  who,       \* who[c]: the user name of that login
  rows,      \* rows[c]: selected rows of offlinemsg not yet enqueued
  addressee, \* addressee[m]: to whom m was accepted (history)
  atRisk,    \* chats that met one of the races below (history)
  logins,    \* such logins so far (bounded by MaxLogins)
  restarts,  \* times restarted (bounded by MaxRestarts)
  faults     \* failures and halts so far (bounded by MaxFaults)

store   == <<queue, wire, offline>>
login   == <<name, pc, who, rows>>
history == <<addressee, atRisk>>
counts  == <<logins, restarts, faults>>
sender  == <<decision, halted>>
vars    == <<store, sender, login, history, counts>>

Queue == INSTANCE MessageQueue WITH Notices <- {}

Entry == Queue!Entry

Init ==
  /\ Queue!Init
  /\ decision = "none"
  /\ halted = FALSE
  /\ name = [c \in Conns |-> NoUser]
  /\ pc = [c \in Conns |-> "recv"]
  /\ who = [c \in Conns |-> NoUser]
  /\ rows = [c \in Conns |-> <<>>]
  /\ addressee = [m \in Chats |-> NoUser]
  /\ atRisk = {}
  /\ logins = 0
  /\ restarts = 0
  /\ faults = 0

-----------------------------------------------------------------------------
(* Logins between their select and their delete. *)

Replaying(u) == {c \in Conns : pc[c] = "replay" /\ who[c] = u}

RowsOf(u) == RowsFor(offline, u)

RowsOfOthers(u) == WithoutRowsFor(offline, u)

ChatsIn(s) == {s[i].msg : i \in DOMAIN s}

-----------------------------------------------------------------------------
(* The queue and its lock. *)

\* Nobody has queue_lock: the send thread has it from the lookup of a user to
\* the send or the save.
QueueFree == decision = "none" /\ ~halted

RingFull == Len(queue) >= Capacity - 1

Fault == faults < MaxFaults /\ faults' = faults + 1

Accept(e) ==
  /\ Queue!Put(e)
  /\ UNCHANGED <<halted, atRisk, faults>>

\* The ring is full, of chat messages or with receipts among them: the message
\* is dropped, and the thread goes on with queue_lock.
Drop(e) ==
  /\ (RingFull /\ UNCHANGED faults) \/ Fault
  /\ halted' = TRUE
  /\ atRisk' = atRisk \union {e.msg}
  /\ UNCHANGED store

\* send_message_by_username.
Enqueue(e) ==
  /\ QueueFree
  /\ Accept(e) \/ Drop(e)
  /\ UNCHANGED <<decision, logins, restarts>>

\* A send that never returns, or the two locks taken in opposite orders.
Halt ==
  /\ ~halted
  /\ Fault
  /\ halted' = TRUE
  /\ UNCHANGED <<store, decision, login, history, logins, restarts>>

\* A chat message is relayed (send_single_message, send_group_message).
Relay(m, u) ==
  /\ addressee[m] = NoUser
  /\ Enqueue([user |-> u, msg |-> m])
  /\ addressee' = [addressee EXCEPT ![m] = u]
  /\ UNCHANGED login

-----------------------------------------------------------------------------
(* The send thread. *)

\* A definition called Faulty... is its namesake with a bug put in; no action
\* uses it.  Each one shows which property notices that bug.

\* get_user_fd that never finds its user.
FaultySndLookup ==
  /\ QueueFree
  /\ queue # <<>>
  /\ decision' = "save"
  /\ UNCHANGED <<store, halted, login, history, counts>>

SndLookup ==
  /\ QueueFree
  /\ queue # <<>>
  /\ decision' = IF \E c \in Conns : name[c] = Head(queue).user THEN "send" ELSE "save"
  /\ UNCHANGED <<store, halted, login, history, counts>>

\* The descriptor is kept for the next message.
FaultySndSend ==
  /\ decision = "send"
  /\ ~halted
  /\ Queue!Send
  /\ UNCHANGED <<sender, login, history, counts>>

SndSend ==
  /\ decision = "send"
  /\ ~halted
  /\ Queue!Send
  /\ decision' = "none"
  /\ UNCHANGED <<halted, login, history, counts>>

\* The insert is decided on a lookup that may be old: a login of the user may
\* have selected the rows since, and be about to delete this one too.
SndSave ==
  /\ decision = "save"
  /\ ~halted
  /\ Queue!Store
  /\ decision' = "none"
  /\ atRisk' = IF Replaying(Head(queue).user) # {} THEN atRisk \union {Head(queue).msg}
                                                   ELSE atRisk
  /\ UNCHANGED <<halted, login, addressee, counts>>

\* The insert fails.
SndSaveFails ==
  /\ decision = "save"
  /\ ~halted
  /\ Fault
  /\ Queue!Lose
  /\ decision' = "none"
  /\ atRisk' = atRisk \union {Head(queue).msg}
  /\ UNCHANGED <<halted, login, addressee, logins, restarts>>

-----------------------------------------------------------------------------
(* user_login on a verified password, step by step. *)

\* get_user_prop finds another session: that one is logged out, this login fails.
LoginFound(c, b) ==
  /\ pc[c] = "recv"
  /\ name[b] # NoUser
  /\ name' = [name EXCEPT ![b] = NoUser]
  /\ UNCHANGED <<store, sender, pc, who, rows, history, counts>>

LoginNotFound(c, u) ==
  /\ pc[c] = "recv"
  /\ \A b \in Conns : name[b] # u
  /\ logins < MaxLogins
  /\ logins' = logins + 1
  /\ pc' = [pc EXCEPT ![c] = "set"]
  /\ who' = [who EXCEPT ![c] = u]
  /\ UNCHANGED <<store, sender, name, rows, history, restarts, faults>>

LoginSet(c) ==
  /\ pc[c] = "set"
  /\ name' = [name EXCEPT ![c] = who[c]]
  /\ pc' = [pc EXCEPT ![c] = "select"]
  /\ UNCHANGED <<store, sender, who, rows, history, counts>>

\* send_offline_message: select.  Two logins of one user at a time both select
\* the same rows.
ReplaySelect(c) ==
  /\ pc[c] = "select"
  /\ rows' = [rows EXCEPT ![c] = RowsOf(who[c])]
  /\ pc' = [pc EXCEPT ![c] = "replay"]
  /\ atRisk' = IF Replaying(who[c]) # {} THEN atRisk \union ChatsIn(RowsOf(who[c]))
                                         ELSE atRisk
  /\ UNCHANGED <<store, sender, name, who, addressee, counts>>

\* send_offline_message: one row is enqueued, or dropped.
ReplayRow(c) ==
  /\ pc[c] = "replay"
  /\ rows[c] # <<>>
  /\ Enqueue(Head(rows[c]))
  /\ rows' = [rows EXCEPT ![c] = Tail(@)]
  /\ UNCHANGED <<name, pc, who, addressee>>

\* The delete without its where clause.
FaultyReplayErase(c) ==
  /\ pc[c] = "replay"
  /\ rows[c] = <<>>
  /\ offline' = <<>>
  /\ pc' = [pc EXCEPT ![c] = "recv"]
  /\ who' = [who EXCEPT ![c] = NoUser]
  /\ UNCHANGED <<queue, wire, sender, name, rows, history, counts>>

\* send_offline_message: delete, of every row of the user there is by now.
ReplayErase(c) ==
  /\ pc[c] = "replay"
  /\ rows[c] = <<>>
  /\ offline' = RowsOfOthers(who[c])
  /\ pc' = [pc EXCEPT ![c] = "recv"]
  /\ who' = [who EXCEPT ![c] = NoUser]
  /\ UNCHANGED <<queue, wire, sender, name, rows, history, counts>>

\* The delete fails: the rows will be replayed again by the next login.
ReplayEraseFails(c) ==
  /\ pc[c] = "replay"
  /\ rows[c] = <<>>
  /\ Fault
  /\ atRisk' = atRisk \union ChatsIn(RowsOf(who[c]))
  /\ pc' = [pc EXCEPT ![c] = "recv"]
  /\ who' = [who EXCEPT ![c] = NoUser]
  /\ UNCHANGED <<store, sender, name, rows, addressee, logins, restarts>>

\* user_logout on request, or delete_client.
Leave(c) ==
  /\ pc[c] = "recv"
  /\ name[c] # NoUser
  /\ name' = [name EXCEPT ![c] = NoUser]
  /\ UNCHANGED <<store, sender, pc, who, rows, history, counts>>

-----------------------------------------------------------------------------
\* exit_server, or a crash, and init_server: the queue and every connection are
\* gone, the table is on disk.  What the queue held is lost; what a login was
\* replaying will be replayed again.
Restart ==
  /\ restarts < MaxRestarts
  /\ restarts' = restarts + 1
  /\ queue' = <<>>
  /\ decision' = "none"
  /\ halted' = FALSE
  /\ name' = [c \in Conns |-> NoUser]
  /\ pc' = [c \in Conns |-> "recv"]
  /\ who' = [c \in Conns |-> NoUser]
  /\ rows' = [c \in Conns |-> <<>>]
  /\ atRisk' = atRisk \union ChatsIn(queue)
                 \union UNION {ChatsIn(RowsOf(u)) : u \in {v \in Users : Replaying(v) # {}}}
  /\ UNCHANGED <<wire, offline, addressee, logins, faults>>

-----------------------------------------------------------------------------
SenderStep == SndLookup \/ SndSend \/ SndSave \/ SndSaveFails

LoginStep(c) ==
  \/ LoginSet(c)
  \/ ReplaySelect(c)
  \/ ReplayRow(c)
  \/ ReplayErase(c)
  \/ ReplayEraseFails(c)

Next ==
  \/ \E m \in Chats, u \in Users : Relay(m, u)
  \/ SenderStep
  \/ Halt
  \/ \E c \in Conns : \/ \E b \in Conns : LoginFound(c, b)
                      \/ \E u \in Users : LoginNotFound(c, u)
                      \/ LoginStep(c)
                      \/ Leave(c)
  \/ Restart

Spec == Init /\ [][Next]_vars

\* The send thread and a login that has begun are run by the kernel, until the
\* queue stops; nobody has to write, log in or leave.
FairSpec == Spec /\ WF_vars(SenderStep)
                 /\ \A c \in Conns : WF_vars(~halted /\ LoginStep(c))

-----------------------------------------------------------------------------
\* Every variable has its type; the messages of the rows are chat messages.
TypeOK ==
  /\ queue \in Seq(Entry)
  /\ Len(queue) < Capacity
  /\ wire \in [Users -> Seq(Chats)]
  /\ offline \in Seq(Entry)
  /\ decision \in {"none", "send", "save"}
  /\ decision # "none" => queue # <<>>
  /\ halted \in BOOLEAN
  /\ name \in [Conns -> Users \union {NoUser}]
  /\ pc \in [Conns -> {"recv", "set", "select", "replay"}]
  /\ who \in [Conns -> Users \union {NoUser}]
  /\ rows \in [Conns -> Seq(Entry)]
  /\ addressee \in [Chats -> Users \union {NoUser}]
  /\ atRisk \subseteq Chats
  /\ logins \in 0..MaxLogins
  /\ restarts \in 0..MaxRestarts
  /\ faults \in 0..MaxFaults

Occurrences(s, m) == Cardinality({i \in DOMAIN s : s[i].msg = m})

OnWire(m, u) == Cardinality({i \in DOMAIN wire[u] : wire[u][i] = m})

\* The copies of m on their way to u.  While a login of u is replaying, the
\* rows it selected count as the ones it has still to enqueue: the table is
\* about to be cleared of them.
Copies(m, u) ==
  LET replaying == Replaying(u)
  IN  Occurrences(queue, m) + OnWire(m, u)
        + IF replaying = {}
            THEN Occurrences(offline, m)
            ELSE LET c == CHOOSE c \in replaying : TRUE IN Occurrences(rows[c], m)

\* Exactly once, but for what is named here: a chat message for a user is in
\* exactly one place (queue, table, wire, or a login's selected rows) unless
\* it was saved between the select and the delete of a login, selected by two
\* logins at a time, in memory when the server stopped, given to a full ring,
\* or its insert or the delete of its row failed.  There is no other way to
\* lose or to duplicate a message.
ExactlyOnceButForRaces ==
  \A m \in Chats :
    addressee[m] # NoUser /\ m \notin atRisk => Copies(m, addressee[m]) = 1

\* A selected row reaches the wire, if the login that selected it is not
\* logged out or cut short by a restart before, and the queue does not stop (a
\* full ring, the two locks in opposite orders, a send that never returns).
ReplayedRowsAreSent ==
  \A c \in Conns, m \in Chats :
    pc[c] = "replay" /\ Occurrences(rows[c], m) > 0 /\ who[c] = name[c]
      ~> \/ \E u \in Users : u = addressee[m] /\ OnWire(m, u) > 0
         \/ name[c] # addressee[m]
         \/ halted

\* README, "Offline message": a chat message to a registered user is not lost.
NothingLost ==
  \A m \in Chats :
    LET u == addressee[m] IN
      u # NoUser => \/ Occurrences(queue, m) + Occurrences(offline, m) + OnWire(m, u) > 0
                    \/ \E c \in Conns : Occurrences(rows[c], m) > 0
=============================================================================
