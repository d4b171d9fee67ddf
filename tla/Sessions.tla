------------------------------- MODULE Sessions -------------------------------
(***************************************************************************)
(* The connection table of src/server/server.c: client_prop, the listen      *)
(* thread that fills it (add_client), one thread per connection that logs    *)
(* users in and out and empties its slot (delete_client), and the send       *)
(* thread that looks users up in it.  No lock protects the table, so every   *)
(* read and every write of it that another thread can come between is a step *)
(* of its own.                                                               *)
(*                                                                           *)
(* The kernel's descriptor table is part of the model, because close and     *)
(* accept reuse descriptor numbers.  The field is_online is left out: it is  *)
(* written and never read.  A login whose password does not match changes    *)
(* nothing and is left out too.  The model is of a server that runs: the end *)
(* of the process, by exit or by the SIGPIPE of a send on a connection that  *)
(* has been reset, ends every thread at once.                                *)
(***************************************************************************)
EXTENDS Integers

CONSTANTS Conns,     \* connections that peers open; each is used once (a bound)
          NoConn,
          Users,     \* account names
          NoName,    \* the empty user name
          MaxSlots,  \* MAX_CLIENT_COUNT
          Descs      \* descriptors the process can have, one per connection at least

ASSUME SlotAssumption == MaxSlots \in Nat \ {0}
ASSUME DescAssumption == Descs \subseteq Nat
ASSUME NameAssumption == NoName \notin Users
ASSUME ConnAssumption == NoConn \notin Conns

Slots == 0..(MaxSlots - 1)
NoFd  == -1

VARIABLES
  clientFd,  \* client_prop[s].client_fd
  username,  \* client_prop[s].username
  owner,     \* owner[d]: the connection descriptor d refers to
  peer,      \* peer[c]: "away" before it connects, "up", and "down" when it has hung up
  accepted,  \* the connection accept has returned and add_client has not yet taken
  connectfd, \* its descriptor
  pc,        \* where the thread of connection c is
  slotOf,    \* slotOf[c]: the slot its thread was given
  who,       \* who[c]: the user name of the request in hand
  other,     \* other[c]: the slot get_user_prop looks at, then the one user_logout is called on
  sndPc, sndUser, sndSlot, sndFd,  \* the send thread: msg.username, i of get_user_fd, fd
  verified   \* verified[c]: users who have logged in on c (history)

table   == <<clientFd, username>>
kernel  == <<owner, peer>>
listen  == <<accepted, connectfd>>
request == <<who, other>>
sender  == <<sndPc, sndUser, sndSlot, sndFd>>
vars    == <<table, kernel, listen, pc, slotOf, request, sender, verified>>

-----------------------------------------------------------------------------
Init ==
  /\ clientFd = [s \in Slots |-> NoFd]
  /\ username = [s \in Slots |-> NoName]
  /\ owner = [d \in Descs |-> NoConn]
  /\ peer = [c \in Conns |-> "away"]
  /\ accepted = NoConn
  /\ connectfd = NoFd
  /\ pc = [c \in Conns |-> "none"]
  /\ slotOf = [c \in Conns |-> 0]
  /\ who = [c \in Conns |-> NoName]
  /\ other = [c \in Conns |-> 0]
  /\ sndPc = "lookup"
  /\ sndUser = NoName
  /\ sndSlot = 0
  /\ sndFd = NoFd
  /\ verified = [c \in Conns |-> {}]

-----------------------------------------------------------------------------
(* Peers and the listen thread. *)

\* accept: the kernel gives the lowest descriptor that is free.
Accept(c, d) ==
  /\ accepted = NoConn
  /\ peer[c] = "away"
  /\ owner[d] = NoConn
  /\ \A e \in Descs : e < d => owner[e] # NoConn
  /\ peer' = [peer EXCEPT ![c] = "up"]
  /\ owner' = [owner EXCEPT ![d] = c]
  /\ accepted' = c
  /\ connectfd' = d
  /\ UNCHANGED <<table, pc, slotOf, request, sender, verified>>

HangUp(c) ==
  /\ peer[c] = "up"
  /\ peer' = [peer EXCEPT ![c] = "down"]
  /\ UNCHANGED <<table, owner, listen, pc, slotOf, request, sender, verified>>

\* add_client: the first slot without a descriptor.  Whatever user name a
\* delete_client in progress has left there stays.
AddClient(s) ==
  /\ accepted # NoConn
  /\ clientFd[s] = NoFd
  /\ \A r \in Slots : r < s => clientFd[r] # NoFd
  /\ clientFd' = [clientFd EXCEPT ![s] = connectfd]
  /\ slotOf' = [slotOf EXCEPT ![accepted] = s]
  /\ pc' = [pc EXCEPT ![accepted] = "recv"]
  /\ accepted' = NoConn
  /\ connectfd' = NoFd
  /\ UNCHANGED <<username, kernel, request, sender, verified>>

\* A definition called Faulty... is its namesake with a bug put in; no action
\* uses it.  Each one shows which property notices that bug.

\* The scan runs off the array and the slot past its end is used.
FaultyRefuse ==
  /\ accepted # NoConn
  /\ \A s \in Slots : clientFd[s] # NoFd
  /\ slotOf' = [slotOf EXCEPT ![accepted] = MaxSlots]
  /\ pc' = [pc EXCEPT ![accepted] = "recv"]
  /\ accepted' = NoConn
  /\ connectfd' = NoFd
  /\ UNCHANGED <<table, kernel, request, sender, verified>>

\* add_client on a full table: it returns, and the connection stays open with
\* no thread.  (What it reads to find out lies one element past the array and
\* is taken to hold something other than -1.)
Refuse ==
  /\ accepted # NoConn
  /\ \A s \in Slots : clientFd[s] # NoFd
  /\ pc' = [pc EXCEPT ![accepted] = "refused"]
  /\ accepted' = NoConn
  /\ connectfd' = NoFd
  /\ UNCHANGED <<table, kernel, slotOf, request, sender, verified>>

-----------------------------------------------------------------------------
(* Client threads. *)

FdOf(c) == clientFd[slotOf[c]]

\* The peer of the connection the thread reads from.
Source(c) == IF FdOf(c) \in Descs THEN owner[FdOf(c)] ELSE NoConn

Heard(c) == Source(c) \in Conns /\ peer[Source(c)] = "up"

RecvLogin(c, u) ==
  /\ pc[c] = "recv"
  /\ Heard(c)
  /\ who' = [who EXCEPT ![c] = u]
  /\ pc' = [pc EXCEPT ![c] = "find"]
  /\ UNCHANGED <<table, kernel, listen, slotOf, other, sender, verified>>

RecvLogout(c, u) ==
  /\ pc[c] = "recv"
  /\ Heard(c)
  /\ who' = [who EXCEPT ![c] = u]
  /\ other' = [other EXCEPT ![c] = slotOf[c]]
  /\ pc' = [pc EXCEPT ![c] = "test"]
  /\ UNCHANGED <<table, kernel, listen, slotOf, sender, verified>>

\* Any other request.  Its handler leaves the table alone, but takes
\* queue_lock, waits for SQLite or sends: "busy" may last for ever.
RecvOther(c) ==
  /\ pc[c] = "recv"
  /\ Heard(c)
  /\ pc' = [pc EXCEPT ![c] = "busy"]
  /\ UNCHANGED <<table, kernel, listen, slotOf, request, sender, verified>>

\* delete_client gives the slot back before it closes.
FaultyRecvEnd(c) ==
  /\ pc[c] = "recv"
  /\ ~Heard(c)
  /\ clientFd' = [clientFd EXCEPT ![slotOf[c]] = NoFd]
  /\ pc' = [pc EXCEPT ![c] = "close"]
  /\ UNCHANGED <<username, kernel, listen, slotOf, request, sender, verified>>

\* The loop goes on receiving after an end of file.
FaultyRecvEndLoops(c) ==
  /\ pc[c] = "recv"
  /\ ~Heard(c)
  /\ UNCHANGED vars

\* recv returns 0 or an error.
RecvEnd(c) ==
  /\ pc[c] = "recv"
  /\ ~Heard(c)
  /\ pc' = [pc EXCEPT ![c] = "close"]
  /\ UNCHANGED <<table, kernel, listen, slotOf, request, sender, verified>>

\* handle_client_message returns: its locals are gone, the thread receives again.
BackToRecv(c) ==
  /\ pc' = [pc EXCEPT ![c] = "recv"]
  /\ who' = [who EXCEPT ![c] = NoName]
  /\ other' = [other EXCEPT ![c] = 0]

\* The other request has been handled.
Handled(c) ==
  /\ pc[c] = "busy"
  /\ BackToRecv(c)
  /\ UNCHANGED <<table, kernel, listen, slotOf, sender, verified>>

LastSlot == MaxSlots - 1

\* user_login, password verified: get_user_prop looks at one slot after the other.
LoginLook(c) ==
  /\ pc[c] = "find"
  /\ username[other[c]] # who[c]
  /\ other[c] < LastSlot
  /\ other' = [other EXCEPT ![c] = @ + 1]
  /\ UNCHANGED <<table, kernel, listen, pc, slotOf, who, sender, verified>>

\* The name is in the slot: both that session and this login are to be turned away.
LoginFound(c) ==
  /\ pc[c] = "find"
  /\ username[other[c]] = who[c]
  /\ pc' = [pc EXCEPT ![c] = "notify"]
  /\ UNCHANGED <<table, kernel, listen, slotOf, request, sender, verified>>

\* The notice on that session's descriptor and the receipt on this one's are
\* sent; either send may find a peer that does not read, and never return.
Notified(c) ==
  /\ pc[c] = "notify"
  /\ pc' = [pc EXCEPT ![c] = "test"]
  /\ UNCHANGED <<table, kernel, listen, slotOf, request, sender, verified>>

\* get_user_prop returns NULL.
LoginNotFound(c) ==
  /\ pc[c] = "find"
  /\ username[other[c]] # who[c]
  /\ other[c] = LastSlot
  /\ pc' = [pc EXCEPT ![c] = "set"]
  /\ UNCHANGED <<table, kernel, listen, slotOf, request, sender, verified>>

LoginSet(c) ==
  /\ pc[c] = "set"
  /\ username' = [username EXCEPT ![slotOf[c]] = who[c]]
  /\ verified' = [verified EXCEPT ![c] = @ \union {who[c]}]
  /\ pc' = [pc EXCEPT ![c] = "replay"]
  /\ UNCHANGED <<clientFd, kernel, listen, slotOf, request, sender>>

\* send_offline_message returns, if queue_lock and SQLite let it.
Replayed(c) ==
  /\ pc[c] = "replay"
  /\ pc' = [pc EXCEPT ![c] = "receipt"]
  /\ UNCHANGED <<table, kernel, listen, slotOf, request, sender, verified>>

\* The login receipt is sent on the thread's own descriptor.
Receipt(c) ==
  /\ pc[c] = "receipt"
  /\ BackToRecv(c)
  /\ UNCHANGED <<table, kernel, listen, slotOf, sender, verified>>

\* user_logout: strcmp, then memset.
LogoutMatch(c) ==
  /\ pc[c] = "test"
  /\ username[other[c]] = who[c]
  /\ pc' = [pc EXCEPT ![c] = "wipe"]
  /\ UNCHANGED <<table, kernel, listen, slotOf, request, sender, verified>>

LogoutMismatch(c) ==
  /\ pc[c] = "test"
  /\ username[other[c]] # who[c]
  /\ BackToRecv(c)
  /\ UNCHANGED <<table, kernel, listen, slotOf, sender, verified>>

LogoutWipe(c) ==
  /\ pc[c] = "wipe"
  /\ username' = [username EXCEPT ![other[c]] = NoName]
  /\ BackToRecv(c)
  /\ UNCHANGED <<clientFd, kernel, listen, slotOf, sender, verified>>

\* delete_client: close, client_fd = -1, memset(username); then the thread ends.
CloseFd(c) ==
  /\ pc[c] = "close"
  /\ owner' = [owner EXCEPT ![FdOf(c)] = NoConn]
  /\ pc' = [pc EXCEPT ![c] = "free"]
  /\ UNCHANGED <<table, peer, listen, slotOf, request, sender, verified>>

FreeSlot(c) ==
  /\ pc[c] = "free"
  /\ clientFd' = [clientFd EXCEPT ![slotOf[c]] = NoFd]
  /\ pc' = [pc EXCEPT ![c] = "clear"]
  /\ UNCHANGED <<username, kernel, listen, slotOf, request, sender, verified>>

\* delete_client without its memset.
FaultyClearName(c) ==
  /\ pc[c] = "clear"
  /\ pc' = [pc EXCEPT ![c] = "done"]
  /\ UNCHANGED <<table, kernel, listen, slotOf, request, sender, verified>>

ClearName(c) ==
  /\ pc[c] = "clear"
  /\ username' = [username EXCEPT ![slotOf[c]] = NoName]
  /\ pc' = [pc EXCEPT ![c] = "done"]
  /\ UNCHANGED <<clientFd, kernel, listen, slotOf, request, sender, verified>>

-----------------------------------------------------------------------------
(* The send thread: get_user_fd slot by slot, and later send on what it returned. *)

SndLookup(u) ==
  /\ sndPc = "lookup"
  /\ sndUser' = u
  /\ sndPc' = "scan"
  /\ UNCHANGED <<table, kernel, listen, pc, slotOf, request, sndSlot, sndFd, verified>>

SndNext ==
  /\ sndPc = "scan"
  /\ username[sndSlot] # sndUser
  /\ sndSlot < LastSlot
  /\ sndSlot' = sndSlot + 1
  /\ UNCHANGED <<table, kernel, listen, pc, slotOf, request, sndPc, sndUser, sndFd, verified>>

\* strcmp finds the name; client_fd is read after that.
SndMatch ==
  /\ sndPc = "scan"
  /\ username[sndSlot] = sndUser
  /\ sndPc' = "read"
  /\ UNCHANGED <<table, kernel, listen, pc, slotOf, request, sndUser, sndSlot, sndFd, verified>>

SndRead ==
  /\ sndPc = "read"
  /\ clientFd[sndSlot] # NoFd
  /\ sndFd' = clientFd[sndSlot]
  /\ sndSlot' = 0
  /\ sndPc' = "send"
  /\ UNCHANGED <<table, kernel, listen, pc, slotOf, request, sndUser, verified>>

\* The thread is done with the message.
SndNextMessage ==
  /\ sndPc' = "lookup"
  /\ sndUser' = NoName
  /\ sndSlot' = 0
  /\ sndFd' = NoFd

\* No slot has the name, or the one that has it no descriptor: the message is saved.
SndSave ==
  /\ \/ sndPc = "scan" /\ username[sndSlot] # sndUser /\ sndSlot = LastSlot
     \/ sndPc = "read" /\ clientFd[sndSlot] = NoFd
  /\ SndNextMessage
  /\ UNCHANGED <<table, kernel, listen, pc, slotOf, request, verified>>

SndSend ==
  /\ sndPc = "send"
  /\ SndNextMessage
  /\ UNCHANGED <<table, kernel, listen, pc, slotOf, request, verified>>

-----------------------------------------------------------------------------
\* Steps that end a call which may wait for ever: for queue_lock, for SQLite
\* or for a peer that does not read.
Return(c) == Handled(c) \/ Notified(c) \/ Replayed(c) \/ Receipt(c)

\* Steps that wait for nobody.
OwnStep(c) ==
  \/ \E u \in Users : RecvLogin(c, u) \/ RecvLogout(c, u)
  \/ RecvOther(c)
  \/ RecvEnd(c)
  \/ LoginLook(c)
  \/ LoginFound(c)
  \/ LoginNotFound(c)
  \/ LoginSet(c)
  \/ LogoutMatch(c)
  \/ LogoutMismatch(c)
  \/ LogoutWipe(c)
  \/ CloseFd(c)
  \/ FreeSlot(c)
  \/ ClearName(c)

ThreadStep(c) == OwnStep(c) \/ Return(c)

ListenStep ==
  \/ \E s \in Slots : AddClient(s)
  \/ Refuse

SenderStep ==
  \/ \E u \in Users : SndLookup(u)
  \/ SndNext
  \/ SndMatch
  \/ SndRead
  \/ SndSave
  \/ SndSend

Next ==
  \/ \E c \in Conns, d \in Descs : Accept(c, d)
  \/ \E c \in Conns : HangUp(c) \/ ThreadStep(c)
  \/ ListenStep
  \/ SenderStep

Spec == Init /\ [][Next]_vars

\* The kernel runs every thread that is not inside a waiting call, and a send
\* returns when its peer has hung up; peers connect, ask and hang up as they like.
FairSpec == /\ Spec
            /\ \A c \in Conns :
                 WF_vars(OwnStep(c) \/ (peer[c] = "down" /\ Receipt(c)))
            /\ WF_vars(ListenStep)

-----------------------------------------------------------------------------
\* Threads between the start of client_thread_function and close.
Serving == {c \in Conns : pc[c] \in {"recv", "busy", "find", "notify", "set", "replay", "receipt",
                                      "test", "wipe", "close"}}

\* Threads inside delete_client, after close.
Leaving == {c \in Conns : pc[c] \in {"free", "clear"}}

\* Every variable has its type; a slot never holds a descriptor the kernel did
\* not give.
TypeOK ==
  /\ clientFd \in [Slots -> Descs \union {NoFd}]
  /\ username \in [Slots -> Users \union {NoName}]
  /\ owner \in [Descs -> Conns \union {NoConn}]
  /\ peer \in [Conns -> {"away", "up", "down"}]
  /\ accepted \in Conns \union {NoConn}
  /\ connectfd \in Descs \union {NoFd}
  /\ pc \in [Conns -> {"none", "refused", "recv", "busy", "find", "notify", "set", "replay",
                       "receipt", "test", "wipe", "close", "free", "clear", "done"}]
  /\ slotOf \in [Conns -> Slots]
  /\ who \in [Conns -> Users \union {NoName}]
  /\ other \in [Conns -> Slots]
  /\ sndPc \in {"lookup", "scan", "read", "send"}
  /\ sndUser \in Users \union {NoName}
  /\ sndSlot \in Slots
  /\ sndFd \in Descs \union {NoFd}
  /\ verified \in [Conns -> SUBSET Users]

\* However slots and descriptor numbers are reused, the thread of a connection
\* reads from, answers on and closes its own connection, and no two threads
\* that are still serving share a slot: delete_client closes before it gives
\* the slot back and does not touch client_fd afterwards.
OwnConnection ==
  \A c \in Serving :
    /\ FdOf(c) \in Descs
    /\ owner[FdOf(c)] = c
    /\ \A b \in Serving : slotOf[b] = slotOf[c] => b = c

\* A user name in the table belongs to someone who has logged in on the very
\* connection of that slot, except while some thread is inside delete_client
\* for that slot.
NameMatchesConnection ==
  \A s \in Slots :
    \/ username[s] = NoName
    \/ \E c \in Leaving : slotOf[c] = s
    \/ \E c \in Serving : slotOf[c] = s /\ username[s] \in verified[c]

\* The thread is in a call that waits for another party: for the queue and the
\* database, or for the session a login turns away to read its notice.
Waiting(c) == pc[c] \in {"busy", "notify", "replay"}

\* A connection whose peer is gone gives its slot back in the end, at whatever
\* point of a login or a logout the thread was, unless it was refused a slot
\* or its thread stays for ever in a call that waits for somebody else.
SlotGivenBack ==
  \A c \in Conns :
    peer[c] = "down" ~> pc[c] \in {"done", "refused"} \/ [](Waiting(c))

\* user_login, "one user may not login twice": no two sessions of one user.
OneSessionPerUser ==
  \A r, s \in Slots : username[r] = username[s] /\ username[r] # NoName => r = s

\* send_message_by_username, "send a message to a user": what the send thread
\* sends for u goes to a connection on which u has logged in (or to none).
DeliveredToUser ==
  [][SndSend => LET c == owner[sndFd] IN c = NoConn \/ sndUser \in verified[c]]_vars
=============================================================================
