---------------------------- MODULE MessageQueue ----------------------------
(***************************************************************************)
(* What the send queue of server.c promises, with no ring, no lock and no   *)
(* threads: messages leave in the order they were accepted, and each one    *)
(* that leaves is put on the wire, stored for later, lost in an insert that *)
(* failed, or (a receipt for a user without a connection) thrown away.      *)
(* Stored rows go when a login has replayed them.  SendQueue implements it. *)
(***************************************************************************)
EXTENDS StoredRows

CONSTANTS Users,     \* account names
          Chats,     \* chat messages, one-to-one and group
          Notices,   \* every other message of the server: receipts and lists
          Capacity   \* MAX_SEND_QUEUE_SIZE

Entry == [user : Users, msg : Chats \union Notices]

VARIABLES queue,     \* accepted and not yet dispatched, oldest first
          wire,      \* wire[u]: what was sent on the connection of u
          offline    \* the rows of table offlinemsg, oldest first

vars == <<queue, wire, offline>>

Init == /\ queue = <<>>
        /\ wire = [u \in Users |-> <<>>]
        /\ offline = <<>>

Put(e) == /\ Len(queue) < Capacity - 1
          /\ queue' = Append(queue, e)
          /\ UNCHANGED <<wire, offline>>

Send == /\ queue # <<>>
        /\ wire' = [wire EXCEPT ![Head(queue).user] = Append(@, Head(queue).msg)]
        /\ queue' = Tail(queue)
        /\ UNCHANGED offline

Store == /\ queue # <<>>
         /\ Head(queue).msg \in Chats
         /\ offline' = Append(offline, Head(queue))
         /\ queue' = Tail(queue)
         /\ UNCHANGED wire

Discard == /\ queue # <<>>
           /\ Head(queue).msg \notin Chats
           /\ queue' = Tail(queue)
           /\ UNCHANGED <<wire, offline>>

\* The insert of a chat message fails, and nobody looks at its result.
Lose == /\ queue # <<>>
        /\ Head(queue).msg \in Chats
        /\ queue' = Tail(queue)
        /\ UNCHANGED <<wire, offline>>

\* The delete at the end of a replay.
Erase(u) == /\ offline' = WithoutRowsFor(offline, u)
            /\ UNCHANGED <<queue, wire>>

Next ==
  \/ \E e \in Entry : Put(e)
  \/ Send
  \/ Store
  \/ Discard
  \/ Lose
  \/ \E u \in Users : Erase(u)

Spec == Init /\ [][Next]_vars
=============================================================================
