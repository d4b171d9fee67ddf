------------------------------ MODULE SendQueue ------------------------------
(***************************************************************************)
(* The send queue of src/server/server.c: a ring of MAX_SEND_QUEUE_SIZE     *)
(* slots under one mutex, filled by the client threads through              *)
(* send_message_by_username and emptied by the send thread.  The mutex of   *)
(* the SQLite connection is part of the picture: sqlite3_exec holds it      *)
(* while it runs a row callback, the callbacks enqueue, and the send thread *)
(* calls sqlite3_exec while it holds the queue lock.  So is the blocking     *)
(* send of the send thread, which it also calls with the queue lock held.   *)
(*                                                                          *)
(* A message is a model value; who is connected is the set `online', which  *)
(* changes at any moment because no lock protects client_prop; `stalled'    *)
(* are the connected users whose socket takes no more bytes for the moment, *)
(* because they do not read.                                                *)
(***************************************************************************)
EXTENDS StoredRows

CONSTANTS Clients,   \* client threads (one per connection)
          Sender,    \* the send thread
          Nobody,    \* the owner of a free mutex
          Users,     \* account names
          NoUser,    \* the user of a login, when there is none
          Chats,     \* chat messages: types message/text and message/text/group
          Notices,   \* every other message of the server: receipts and lists
          NoEntry,   \* a zeroed struct send_prop
          Capacity,  \* MAX_SEND_QUEUE_SIZE
          MaxJobs,   \* bound: requests handled in a behaviour
          MaxMembers, \* bound: member rows of a group
          MayStall   \* bound: the users who may stop reading

Entry == [user : Users, msg : Chats \union Notices]

ASSUME CapacityAssumption == Capacity \in Nat /\ Capacity > 1
ASSUME BoundsAssumption == MaxJobs \in Nat /\ MaxMembers \in Nat
ASSUME ThreadAssumption == Sender # Nobody /\ {Sender, Nobody} \cap Clients = {}
ASSUME NoEntryAssumption == NoEntry \notin Entry
ASSUME NoUserAssumption == NoUser \notin Users

VARIABLES
  lock,     \* owner of queue_lock
  dbMutex,  \* owner of the recursive mutex of the SQLite connection
  slots,    \* send_queue
  head,     \* send_q_head
  tail,     \* send_q_tail
  pc,       \* where each client thread is
  job,      \* job[t]: the enqueues t has still to make in its current request
  replays,  \* replays[t]: whose stored messages those are, in user_login
  sndPc,    \* where the send thread is
  hand,     \* the send thread's local variable msg
  online,   \* users for whom get_user_fd returns a descriptor
  stalled,  \* those of them whose connection takes no more bytes
  wire,     \* wire[u]: what was sent on the connection of u
  offline,  \* rows of table offlinemsg, oldest first
  jobs      \* number of requests started (bounded by MaxJobs)

mutexes == <<lock, dbMutex>>
ring    == <<slots, head, tail>>
threads == <<pc, job, replays, sndPc, hand>>
links   == <<online, stalled>>
outside == <<links, wire, offline>>
vars    == <<mutexes, ring, threads, outside, jobs>>

Threads == Clients \union {Sender}

-----------------------------------------------------------------------------
(* The ring. *)

\* A definition called Faulty... is its namesake with a bug put in; no action
\* uses it.  Each one shows which property notices that bug.
FaultyNextIndex(i) == i + 1
NextIndex(i) == (i + 1) % Capacity

FaultyRingFull == FALSE
RingFull  == NextIndex(tail) = head
RingEmpty == head = tail

\* What lies between h and t in an array s of Capacity slots, oldest first.
Distance(h, t) == (t + Capacity - h) % Capacity
Read(s, h, t)  == [i \in 1..Distance(h, t) |-> s[(h + i - 1) % Capacity]]

Contents == Read(slots, head, tail)

-----------------------------------------------------------------------------
Init ==
  /\ lock = Nobody
  /\ dbMutex = Nobody
  /\ slots = [i \in 0..(Capacity - 1) |-> NoEntry]
  /\ head = 0
  /\ tail = 0
  /\ pc = [t \in Clients |-> "idle"]
  /\ job = [t \in Clients |-> <<>>]
  /\ replays = [t \in Clients |-> NoUser]
  /\ sndPc = "lock"
  /\ hand = NoEntry
  /\ online = {}
  /\ stalled = {}
  /\ wire = [u \in Users |-> <<>>]
  /\ offline = <<>>
  /\ jobs = 0

-----------------------------------------------------------------------------
(* Client threads: what a request enqueues. *)

Start(t, calls) ==
  /\ pc[t] = "idle"
  /\ jobs < MaxJobs
  /\ jobs' = jobs + 1
  /\ pc' = [pc EXCEPT ![t] = "call"]
  /\ job' = [job EXCEPT ![t] = calls]
  /\ UNCHANGED <<lock, ring, sndPc, hand, outside>>

\* A handler that is done with the database (add_contact of oneself never
\* needed it) and enqueues one answer.
StartAnswer(t) ==
  /\ \E u \in Users, m \in Notices : Start(t, <<[user |-> u, msg |-> m]>>)
  /\ UNCHANGED <<dbMutex, replays>>

\* sqlite3_exec with a row callback: the mutex of the connection is taken
\* before the first row and kept until the last callback has returned.
StartCallback(t, calls) ==
  /\ dbMutex = Nobody
  /\ dbMutex' = t
  /\ Start(t, calls)
  /\ UNCHANGED replays

Relay(rows, m) == [i \in 1..Len(rows) |-> [user |-> rows[i], msg |-> m]]

\* send_single_message: the recipient, if it is a registered user.
StartSingle(t) ==
  \E m \in Chats :
    \/ StartCallback(t, <<>>)
    \/ \E u \in Users : StartCallback(t, Relay(<<u>>, m))

\* The member column of a group, in any order; nothing keeps a name from being
\* there twice.
MemberRows == UNION {[1..n -> Users] : n \in 0..MaxMembers}

\* send_group_message: one enqueue for each member row, the sender's included.
StartGroup(t) ==
  \E m \in Chats, rows \in MemberRows : StartCallback(t, Relay(rows, m))

\* create_group_callback: the creation receipt and, from the join_group it
\* calls inside the same callback, the join receipt.
StartCreate(t) ==
  \E u \in Users, created, joined \in Notices :
    StartCallback(t, <<[user |-> u, msg |-> created], [user |-> u, msg |-> joined]>>)

\* send_offline_message, called by user_login: the stored rows of the user.
\* sqlite3_get_table gives the mutex back before the first one is enqueued.
StartReplay(t, u) ==
  /\ dbMutex = Nobody
  /\ Start(t, RowsFor(offline, u))
  /\ replays' = [replays EXCEPT ![t] = u]
  /\ UNCHANGED dbMutex

-----------------------------------------------------------------------------
(* Client threads: send_message_by_username. *)

\* A recursive mutex instead of a default one.
FaultyAcquire(t) ==
  /\ pc[t] = "call"
  /\ job[t] # <<>>
  /\ lock \in {Nobody, t}
  /\ lock' = t
  /\ pc' = [pc EXCEPT ![t] = "check"]
  /\ UNCHANGED <<dbMutex, ring, job, replays, sndPc, hand, outside, jobs>>

\* pthread_mutex_lock: a default mutex is not recursive, so a thread that
\* still owns it waits for itself.
Acquire(t) ==
  /\ pc[t] = "call"
  /\ job[t] # <<>>
  /\ lock = Nobody
  /\ lock' = t
  /\ pc' = [pc EXCEPT ![t] = "check"]
  /\ UNCHANGED <<dbMutex, ring, job, replays, sndPc, hand, outside, jobs>>

\* The early return: the message is dropped and the lock is kept.
ReturnFull(t) ==
  /\ pc[t] = "check"
  /\ RingFull
  /\ pc' = [pc EXCEPT ![t] = "call"]
  /\ job' = [job EXCEPT ![t] = Tail(@)]
  /\ UNCHANGED <<mutexes, ring, replays, sndPc, hand, outside, jobs>>

StoreSlot(t) ==
  /\ pc[t] = "check"
  /\ ~RingFull
  /\ slots' = [slots EXCEPT ![tail] = Head(job[t])]
  /\ pc' = [pc EXCEPT ![t] = "advance"]
  /\ UNCHANGED <<mutexes, head, tail, job, replays, sndPc, hand, outside, jobs>>

AdvanceTail(t) ==
  /\ pc[t] = "advance"
  /\ tail' = NextIndex(tail)
  /\ pc' = [pc EXCEPT ![t] = "unlock"]
  /\ UNCHANGED <<mutexes, slots, head, job, replays, sndPc, hand, outside, jobs>>

Release(t) ==
  /\ pc[t] = "unlock"
  /\ lock' = Nobody
  /\ pc' = [pc EXCEPT ![t] = "call"]
  /\ job' = [job EXCEPT ![t] = Tail(@)]
  /\ UNCHANGED <<dbMutex, ring, replays, sndPc, hand, outside, jobs>>

\* The handler returns; sqlite3_exec, if it was in one, gives its mutex back.
Finish(t) ==
  /\ pc[t] = "call"
  /\ job[t] = <<>>
  /\ replays[t] = NoUser
  /\ pc' = [pc EXCEPT ![t] = "idle"]
  /\ dbMutex' = IF dbMutex = t THEN Nobody ELSE dbMutex
  /\ UNCHANGED <<lock, ring, job, replays, sndPc, hand, outside, jobs>>

\* send_offline_message is through with the rows and deletes them.  The delete
\* takes the mutex of the connection for its own duration; it may fail, which
\* nobody looks at, and the rows stay.
ReplayErase(t) ==
  /\ pc[t] = "call"
  /\ job[t] = <<>>
  /\ replays[t] # NoUser
  /\ dbMutex = Nobody
  /\ offline' \in {WithoutRowsFor(offline, replays[t]), offline}
  /\ replays' = [replays EXCEPT ![t] = NoUser]
  /\ pc' = [pc EXCEPT ![t] = "idle"]
  /\ UNCHANGED <<mutexes, ring, job, sndPc, hand, links, wire, jobs>>

-----------------------------------------------------------------------------
(* The send thread: one turn of the loop of send_thread_function. *)

\* The loop without its pthread_mutex_lock.
FaultySndLock ==
  /\ sndPc = "lock"
  /\ sndPc' = "pop"
  /\ UNCHANGED <<mutexes, ring, pc, job, replays, hand, outside, jobs>>

SndLock ==
  /\ sndPc = "lock"
  /\ lock = Nobody
  /\ lock' = Sender
  /\ sndPc' = "pop"
  /\ UNCHANGED <<dbMutex, ring, pc, job, replays, hand, outside, jobs>>

\* Nothing to send: unlock and sleep.
SndEmpty ==
  /\ sndPc = "pop"
  /\ RingEmpty
  /\ lock' = Nobody
  /\ sndPc' = "lock"
  /\ UNCHANGED <<dbMutex, ring, pc, job, replays, hand, outside, jobs>>

\* The head is advanced before the slot is read.
FaultySndPop ==
  /\ sndPc = "pop"
  /\ ~RingEmpty
  /\ hand' = slots[NextIndex(head)]
  /\ head' = NextIndex(head)
  /\ sndPc' = "lookup"
  /\ UNCHANGED <<mutexes, slots, tail, pc, job, replays, outside, jobs>>

SndPop ==
  /\ sndPc = "pop"
  /\ ~RingEmpty
  /\ hand' = slots[head]
  /\ head' = NextIndex(head)
  /\ sndPc' = "lookup"
  /\ UNCHANGED <<mutexes, slots, tail, pc, job, replays, outside, jobs>>

\* get_user_fd: the answer may be stale by the time it is used.
SndLookup ==
  /\ sndPc = "lookup"
  /\ sndPc' = IF hand.user \in online THEN "send" ELSE "save"
  /\ UNCHANGED <<mutexes, ring, pc, job, replays, hand, outside, jobs>>

\* A blocking send, under queue_lock: it returns when the socket has taken the
\* message, or when the connection is gone.
SndSend ==
  /\ sndPc = "send"
  /\ hand.user \notin stalled
  /\ wire' = [wire EXCEPT ![hand.user] = Append(@, hand.msg)]
  /\ sndPc' = "unlock"
  /\ UNCHANGED <<mutexes, ring, pc, job, replays, hand, links, offline, jobs>>

\* The loop goes round without the unlock after a discarded message.
FaultySndDiscard ==
  /\ sndPc = "save"
  /\ hand.msg \notin Chats
  /\ sndPc' = "lock"
  /\ UNCHANGED <<mutexes, ring, pc, job, replays, hand, outside, jobs>>

\* save_offline_message on a message that is not a chat message.
SndDiscard ==
  /\ sndPc = "save"
  /\ hand.msg \notin Chats
  /\ sndPc' = "unlock"
  /\ UNCHANGED <<mutexes, ring, pc, job, replays, hand, outside, jobs>>

\* save_offline_message on a chat message: the insert takes the mutex of the
\* connection for its own duration.  It may fail (an apostrophe in the message,
\* a full disk), which nobody looks at: the message is lost.
SndSave ==
  /\ sndPc = "save"
  /\ hand.msg \in Chats
  /\ dbMutex = Nobody
  /\ offline' \in {Append(offline, hand), offline}
  /\ sndPc' = "unlock"
  /\ UNCHANGED <<mutexes, ring, pc, job, replays, hand, links, wire, jobs>>

\* The unlock only on the empty branch.
FaultySndUnlock ==
  /\ sndPc = "unlock"
  /\ sndPc' = "lock"
  /\ UNCHANGED <<mutexes, ring, pc, job, replays, hand, outside, jobs>>

SndUnlock ==
  /\ sndPc = "unlock"
  /\ lock' = Nobody
  /\ sndPc' = "lock"
  /\ UNCHANGED <<dbMutex, ring, pc, job, replays, hand, outside, jobs>>

-----------------------------------------------------------------------------
(* The connection table, as the queue sees it: any user comes and goes. *)

Connect(u) ==
  /\ online' = online \union {u}
  /\ UNCHANGED <<mutexes, ring, threads, stalled, wire, offline, jobs>>

\* A send that waited on the connection returns with an error.
Disconnect(u) ==
  /\ online' = online \ {u}
  /\ stalled' = stalled \ {u}
  /\ UNCHANGED <<mutexes, ring, threads, wire, offline, jobs>>

\* The user stops reading, and the buffers of the connection fill up.
Stall(u) ==
  /\ u \in online \intersect MayStall
  /\ stalled' = stalled \union {u}
  /\ UNCHANGED <<mutexes, ring, threads, online, wire, offline, jobs>>

Resume(u) ==
  /\ stalled' = stalled \ {u}
  /\ UNCHANGED <<mutexes, ring, threads, online, wire, offline, jobs>>

Outside(u) ==
  \/ Connect(u)
  \/ Disconnect(u)
  \/ Stall(u)
  \/ Resume(u)

-----------------------------------------------------------------------------
StartRequest(t) ==
  \/ StartAnswer(t)
  \/ StartSingle(t)
  \/ StartGroup(t)
  \/ StartCreate(t)
  \/ \E u \in Users : StartReplay(t, u)

Enqueue(t) ==
  \/ Acquire(t)
  \/ ReturnFull(t)
  \/ StoreSlot(t)
  \/ AdvanceTail(t)
  \/ Release(t)
  \/ Finish(t)
  \/ ReplayErase(t)

SenderStep ==
  \/ SndLock
  \/ SndEmpty
  \/ SndPop
  \/ SndLookup
  \/ SndSend
  \/ SndDiscard
  \/ SndSave
  \/ SndUnlock

Next ==
  \/ \E t \in Clients : StartRequest(t) \/ Enqueue(t)
  \/ SenderStep
  \/ \E u \in Users : Outside(u)

Spec == Init /\ [][Next]_vars

\* Every thread is scheduled by the kernel; a request need not arrive, and a
\* user need not come, go or read.  A thread that waits for queue_lock gets it
\* if it is free again and again: the send thread sleeps for a second outside
\* the lock whenever the ring is empty, and the requests are finitely many.  A
\* send that waits for its peer returns if the peer reads again and again;
\* nothing is assumed of a peer that does not.
Fairness == /\ \A t \in Clients : WF_vars(Enqueue(t)) /\ SF_vars(Acquire(t))
            /\ WF_vars(SenderStep) /\ SF_vars(SndLock) /\ SF_vars(SndSend)

FairSpec == Spec /\ Fairness

-----------------------------------------------------------------------------
(* Types. *)

\* Every variable has the type the C declaration and the protocol give it; in
\* particular head and tail stay inside the array.
TypeOK ==
  /\ lock \in Threads \union {Nobody}
  /\ dbMutex \in Clients \union {Nobody}
  /\ slots \in [0..(Capacity - 1) -> Entry \union {NoEntry}]
  /\ head \in 0..(Capacity - 1)
  /\ tail \in 0..(Capacity - 1)
  /\ pc \in [Clients -> {"idle", "call", "check", "advance", "unlock"}]
  /\ job \in [Clients -> Seq(Entry)]
  /\ replays \in [Clients -> Users \union {NoUser}]
  /\ sndPc \in {"lock", "pop", "lookup", "send", "save", "unlock"}
  /\ hand \in Entry \union {NoEntry}
  /\ online \subseteq Users
  /\ stalled \subseteq Users
  /\ wire \in [Users -> Seq(Chats \union Notices)]
  /\ offline \in Seq(Entry)
  /\ jobs \in 0..MaxJobs

-----------------------------------------------------------------------------
(* Safety. *)

InCritical(t) == pc[t] \in {"check", "advance", "unlock"}

\* Whoever reads or writes the ring owns queue_lock, whichever of the early
\* returns other threads have taken: two threads are never between the lock
\* and the unlock of send_message_by_username and send_thread_function.
RingUnderLock ==
  /\ \A t \in Clients : InCritical(t) => lock = t
  /\ sndPc # "lock" => lock = Sender

\* The slots the send thread has still to read: from head up to tail, round
\* the end of the array when tail has wrapped.
InWindow(i) == IF head <= tail THEN head <= i /\ i < tail ELSE head <= i \/ i < tail

\* Every slot between head and tail holds a whole message: none is read before
\* it was written, and the tail is moved only over the slot just filled.  With
\* the types and the lock discipline this is preserved by every step, so it is
\* the induction hypothesis of the proofs in SendQueueProofs.
WindowFilled ==
  /\ \A i \in 0..(Capacity - 1) : InWindow(i) => slots[i] \in Entry
  /\ sndPc \in {"lookup", "send", "save"} => hand \in Entry
  /\ \A t \in Clients :
       /\ InCritical(t) => job[t] # <<>>
       /\ pc[t] = "advance" => ~RingFull /\ slots[tail] = Head(job[t])

QueueInv == TypeOK /\ RingUnderLock /\ WindowFilled

\* A client thread left send_message_by_username with queue_lock.
Leaked == lock \in Clients /\ ~InCritical(lock)

\* The send thread owns queue_lock and waits for the mutex of the connection;
\* the client thread that owns that one is in a callback that has to enqueue.
Inverted ==
  /\ sndPc = "save" /\ hand.msg \in Chats
  /\ dbMutex \in Clients
  /\ pc[dbMutex] = "call" /\ job[dbMutex] # <<>>

Wedged == Leaked \/ Inverted

\* What a login that has replayed its rows may still do to the table.
RowsOnlyErased ==
  offline' \in {offline} \union {WithoutRowsFor(offline, u) : u \in Users}

\* Either way of wedging the queue is for ever, and from then on nothing is
\* accepted, sent or stored: no later step of any thread repairs it, and the
\* table offlinemsg can only lose rows.
WedgeIsPermanent ==
  [][Wedged => Wedged' /\ UNCHANGED <<lock, ring, wire>> /\ RowsOnlyErased]_vars

\* The accepted messages that are still to be dispatched: the one in the send
\* thread's hand, then the ring from head to tail.
Undispatched ==
  IF sndPc \in {"lookup", "send", "save"} THEN <<hand>> \o Contents ELSE Contents

Promise == INSTANCE MessageQueue WITH queue <- Undispatched

\* Under every interleaving the ring, its lock and its threads are a bounded
\* first-in first-out queue: no accepted message is overwritten, skipped,
\* dispatched twice or out of order, and a message that was not accepted
\* (ring full) leaves no trace.
ImplementsMessageQueue == Promise!Spec

-----------------------------------------------------------------------------
(* Liveness. *)

\* The send thread owns queue_lock and waits for a peer that does not read.
Blocked == sndPc = "send" /\ hand.user \in stalled

\* The two wedges, and a peer that never reads again while the send thread is
\* sending to it, are the only ways the queue stops draining: there is no
\* other deadlock and no lost unlock among the threads.
DrainsUnlessStopped == ~RingEmpty ~> (RingEmpty \/ Wedged \/ []Blocked)

\* A request that has messages to enqueue gets through with them unless one of
\* the two wedges happens or such a peer stops the send thread: the send
\* thread, as long as it runs, can delay a client thread and not stop it.
EnqueueReturnsUnlessStopped ==
  \A t \in Clients : pc[t] = "call" ~> (pc[t] = "idle" \/ Wedged \/ []Blocked)

\* send_thread_function, "take a message out of the queue and send/store the
\* message": whatever was accepted is dispatched in the end.
QueueDrains == ~RingEmpty ~> RingEmpty

\* send_message_by_username "just enqueue"s: a request that has messages to
\* enqueue gets through with them.
EnqueueReturns == \A t \in Clients : pc[t] = "call" ~> pc[t] = "idle"
=============================================================================
