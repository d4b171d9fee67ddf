# SkyQ in TLA+

SkyQ is a chat program: one server process (`src/server/server.c`) and GTK clients
(`src/client/`).  Clients and server exchange JSON objects in fixed 2048-byte records over TCP;
the server keeps accounts, contacts, groups and undelivered messages in an SQLite file.
This directory holds TLA+ models of the server's core and of the client, TLC runs on small instances, and proofs
checked by TLAPS.  Line numbers below are those of `server.c` unless a file is named.

Contents: 1 the system, 2 the models, 3 the runs, 4 the proofs, 5 findings, 6 what is left out and
why, 7 the plan.

## 1. The system

### Threads and shared state

The server runs a listen thread (558), one thread per connection (531), one send thread (573) and a
console thread (784).  They share

| state | guarded by | written by |
|---|---|---|
| `client_prop[16]`: descriptor and user name per slot (21-31) | nothing | listen thread, every client thread (also for the slot of another client, 139) |
| `send_queue`, `send_q_head`, `send_q_tail` (39-46) | `queue_lock` | client threads (append), send thread (remove) |
| the database `server.db` (80) | the mutex SQLite keeps per connection; no transactions | client threads, send thread (`offlinemsg`) |
| the descriptor table of the process | the kernel | `accept` (561), `close` (691) |

### Components

| component | state | operations | what makes it correct |
|---|---|---|---|
| Send queue and send thread | ring, `queue_lock`, the send thread's `msg` | `send_message_by_username`, `send_thread_function`, `save_offline_message` | a bounded FIFO queue under any interleaving; used under the lock only; drains and lets an enqueue return, as long as nobody keeps the lock |
| Connection table | `client_prop` | `add_client`, `delete_client`, `get_user_prop`, `get_user_fd`, `user_login`, `user_logout` | a thread uses its own connection only; a name in a slot was verified there; one session per user; slots come back; a message for u goes to u |
| Offline messages | table `offlinemsg` | `save_offline_message`, `send_offline_message` | an accepted chat message is in exactly one place until it is sent, over logins and restarts, but for named races and failures |
| Directory | tables `alluser`, `contacts`, `grouplist`, `groupmember` | `user_register`, `add_contact`, `create_group`, `join_group`, `quit_group`; lists and profiles read | no row twice, no dangling row, receipts true, a creator joins the group just created |
| Request dispatch | none | `handle_client_message` | each request reaches one handler; handlers of two connections interleave |
| Server console | none | `exec_cmd`, `exit_server` | the tables survive it |
| Framing | `send_buffer` of the client, the socket | `send_function`, `recv` of up to 2048 bytes | a request arrives whole, once and in order |
| Client protocol engine | `main.c`: `current_username`, chat target, record database, view | `exec_cmd`, `handle_message`, `recv_thread`, `auto_update_thread` | each chat ends in one place; the view is the record of the open conversation; a login is answered, but for named obstacles |
| Client lists | `list.c`: received lists, rows, focus, pane | `update_*list`, `moveto_*`, `leave_*`, `focusin_*`, `str2int`, `int2str` | one highlighted row, that of the chosen name; a row opens the conversation on its label |
| Client windows | `cmUI.c`, `login.c`, `regist.c`, `new_small_window.c`, `mainUI_notebook.c` | clicks, dialogs, tabs, text and stickers | what is typed is what is asked for and shown; an account that registers can log in |
| Password check | none | `password_check` | the same for registration and login |
| Log and time helpers | a file | `util.c` | formatting only |
| cJSON, SQLite, SQLite shell | vendored | | taken as given |

How they interact: a client thread parses a record and calls a handler; a handler reads or writes
tables and enqueues answers and chat messages (`send_message_by_username`), some of it from a row
callback, that is, with the mutex of the SQLite connection held.  The send thread takes an entry,
looks its user up in `client_prop`, and either sends on the descriptor or inserts the message into
`offlinemsg`.  A login looks for the name in `client_prop`, writes it, and moves the user's rows of
`offlinemsg` back into the queue.

The client has three threads: GTK's (events, under the GTK lock), the receive thread (takes the lock for what
touches a widget, not for the lists it unpacks) and the timer thread (asks for the lists every few seconds).
All three call `send_function`.  A friend chat is recorded where it is written, a group chat when the server sends it
back; both threads redraw the open conversation from the record.

What is hard here: two locks taken in both orders (queue then SQLite, SQLite then queue); an early
return that keeps a lock; a send that blocks under the lock until its peer reads; statements whose failure nobody
looks at; a table of connections with no lock at all; descriptor numbers that are
reused between a lookup and a send; select, enqueue and delete as separate statements; look-then-insert
without keys; the process ending between any two steps; one unlocked buffer for three threads; records
over a byte stream; rows that point into a list being rewritten; answers that meet a second login or another
conversation than the one they were asked for.  `PROJECT.json` lists each hazard at its line
with the properties that cover it.

## 2. The models

`MC*.tla` define the small sets for TLC; `*Proofs.tla` hold the theorems.  A definition called
`Faulty...` is its namesake with a plausible bug; no action uses it.  Putting it in the place of its
namesake makes TLC find a violation of the property it belongs to, which shows that the property
depends on that line of the code.

### StoredRows and MessageQueue (abstract specification)

StoredRows has the rows of `offlinemsg` as a sequence: `RowsFor` is what a select for one user finds, `WithoutRowsFor` what a
delete leaves.  Both are `Kept`, a sequence at some of its positions, defined without recursion so that it can be
reasoned about.

MessageQueue is what the queue promises: `Put` accepts an entry while fewer than `Capacity - 1` are waiting, and the
oldest leaves by `Send` (put on its user's wire), `Store` (a chat message, into `offlinemsg`), `Lose` (its insert
failed) or `Discard` (a receipt or a list for somebody without a connection).  `Erase` is the delete at the end of a replay.

### SendQueue (implements MessageQueue)

| variables | code |
|---|---|
| `slots`, `head`, `tail` | `send_queue`, `send_q_head`, `send_q_tail` |
| `lock`, `dbMutex` | owner of `queue_lock`; owner of the recursive mutex of the SQLite connection |
| `pc`, `job`, `replays` | where a client thread is inside `send_message_by_username`; the enqueues its request has still to make; whose stored rows those are, in a login |
| `sndPc`, `hand` | where the send thread is; its local `msg` |
| `online`, `stalled` | users `get_user_fd` finds (changes at any time); those of them whose socket takes no more bytes |
| `wire`, `offline` | what was sent, table `offlinemsg` |

`Acquire`, `ReturnFull`, `StoreSlot`, `AdvanceTail`, `Release` are the statements of
`send_message_by_username`; `ReturnFull` is the early return at 652, which drops the message and
keeps the lock.  `Snd*` are the statements of `send_thread_function` and `save_offline_message`.  `SndSend` is the blocking
`send` at 590, inside the lock: it returns when its peer reads or is gone, and a peer in `stalled` does neither.
`SndSave` inserts the message or, when the insert fails, does not; nothing tells the two apart.
`Start*` are the requests, seen as the enqueues they make and whether they make them inside a row
callback: an answer (one enqueue, no callback), a chat message to one user, a group message (one
enqueue per member row, in any order, a member possibly twice, because nothing keeps a name from being
in `groupmember` twice), a created group (two receipts in one callback), and a login that replays the rows of its
user (`StartReplay`, an enqueue per row, outside any callback, and `ReplayErase`, the delete, which may fail).  A row
callback runs with `dbMutex` held until the last row; `SndSave` and `ReplayErase` need `dbMutex`.

### Sessions

`clientFd`, `username` are the fields of `client_prop`; `owner` is the kernel's descriptor table
(`Accept` takes the lowest free number, `CloseFd` frees it); `accepted`, `connectfd` are the listen
thread's connection on its way to a slot; `pc`, `slotOf`, `who`, `other` belong to the client threads;
`sndPc`, `sndUser`, `sndSlot`, `sndFd` to the send thread; `verified` is a history variable (who has logged in on
a connection).  No lock protects the table, so each read and each write is a step: `user_login` looks at one slot after the
other (`LoginLook`), ends in `LoginFound` or `LoginNotFound`, and then writes (`LoginSet`); `user_logout` is a
comparison (`LogoutMatch`, `LogoutMismatch`) then `LogoutWipe`, also when it is called on the slot of another thread;
`delete_client` is `CloseFd`, `FreeSlot`, `ClearName`.  The send thread looks a user up slot by slot (`SndNext`,
`SndMatch`), reads the descriptor after the name (`SndRead`), and sends on it later (`SndSend`).

A handler that takes `queue_lock`, waits for SQLite or sends can stay in that call for ever.  The steps that leave such a call are `Handled`
(any request but login and logout), `Notified` (the notice and the receipt of a login that found another session),
`Replayed` (`send_offline_message` at 145) and `Receipt` (the send at 152).

### OfflineDelivery (composes MessageQueue with the login and the table)

Uses MessageQueue's actions for the queue, which SendQueue implements, and reduces the connection table
to `name[c]`.  `SndLookup`, `SndSend`, `SndSave` are the send thread; `LoginFound`, `LoginNotFound`,
`LoginSet`, `ReplaySelect`, `ReplayRow`, `ReplayErase` are `user_login` and `send_offline_message`
statement by statement; `Leave` is a logout or a closed connection; `Restart` is `exit` (or a crash) and a new
start: the queue and the sessions are gone, the table stays.

What goes wrong: `SndSaveFails` and `ReplayEraseFails` are the insert at 621 and the delete at 643 with their results ignored;
`Drop` is an enqueue on a full ring, by a replay too: the row is dropped, the thread goes on and in the end deletes it from
the table, and nobody gets the lock again (`halted`).  Receipts share the ring and are not in this module, so `Drop` may
also happen, as a fault, while chats alone do not fill it.  `Halt` is the lock kept for any other reason (the inversion, a blocked
send).  History variables: `addressee` (to whom a message was accepted) and `atRisk`, the
messages that met one of the named races or faults: saved between the select and the delete of a login of their user; selected by two
logins at a time; in memory when the server stopped; given to a full ring; insert failed; delete failed.

### Directory

`accounts`, `contacts`, `grouplist`, `groupmember` are the four tables; `contacts[u][v]` and
`groupmember[g][u]` count equal rows, since the tables have no unique key.  Each SQL statement of
`add_contact`, `create_group`, `join_group` and `quit_group` is an action with a successful and, where
it writes, a failing outcome; `pc`, `who`, `friend`, `group`, `status` are the locals of the handler.
`create_group_callback` runs inside `sqlite3_exec`, so from `Announce` to the receipt of the join the
thread keeps `dbMutex` and every other statement waits (`Statement`).  History: `made`, the group this
request has inserted; `overlap`, the users who have had two requests in progress at a time.  `Restart`
may come between any two statements.

### RecordStream and RequestPath (implements RecordStream)

RecordStream is what the connection can be relied on for: order and no duplicates, but any request may be
missing.  RequestPath is the way of a request from `exec_cmd` to `handle_client_message`: `Clear`, `Copy`
(a piece at a time) and `Send` are the three statements of `send_function`, on one `sendBuffer` without a lock;
`wire` holds the records on the connection, and `taken` says how many pieces of the oldest have been received.
`Receive(n)` is one `recv` that returns n pieces (`Arrived` are those there to be read, `Taken` the n that are,
`Consume` what they leave), and `Handle` what `handle_client_message` makes of them: the
request a buffer begins with, nothing, or the end of the server (text that parses without being a request lacks the
member whose `valuestring` is read).  A record is `Pieces` pieces, and the text fills the first of them, since a
parser stops at the null byte.  History: `overlapped` (two threads have been in `send_function` together), `split`
(a `recv` took part of a record since the connection was last empty).

### ClientLists, ClientInput, Client

| module | variables | code |
|---|---|---|
| ClientLists | `userdata`, `friendListSize`, `groupdata`, `groupListSize` | the lists as received |
| | `friendRows`, `groupRows` | `attribute_friend` (a pointer into `userdata`, here an index), `attribute_group`, the labels and colours of the event boxes |
| | `lastfocusFriend`, `focusUser`, `lastfocus`, `focusGroup`, `talkUser`, `talkGroup` | the variables of the same names; 0 for -1 |
| | `tab`, `membersShown`, `memberList`, `logoShown` | `now_id`; visibility of `scwinlist`, of what is in it, of `cmeventbox2` |
| ClientInput | `window`, `popup`, `groupDialog`, `friendDialog`, `warnings` | the windows on screen |
| | `entry`, `stickers`, `printed` | `view2_buffer`, the sticker popup, what `print_msg` inserted last |
| Client | `toServer`, `inbox`, `conn` | the two directions of the connection and its state; "refused" is a connection left open without a slot (679-682) |
| | `named`, `stage`, `rows`, `picked` | the sessions (this one, others of the user) whose slot has the name; where `user_login` is for each; the stored rows it has selected and not yet enqueued, and all it has selected (history) |
| | `queue`, `route`, `stuck` | the entries of `send_queue` for the user; where the send thread's lookup of the first one leads; `queue_lock` is kept for good |
| | `stored`, `accounts`, `contacts`, `joined`, `groupCount` | the user's part of the tables |
| | `loggedIn`, `recvPc`, `inHand` | `current_username`/`db`; the receive thread |
| | `record`, `view`, `members` | rows of `chatrecord_*`, `view1_buffer`, the group whose members are listed |

ClientLists has an action per handler of a row or tab event and per step of the receive thread on a list: the entries
of a friend list are written one at a time and without the lock (`FriendEntry`), the rows are rebuilt under it
(`UpdateFriendlist`).  ClientInput has the windows, `PasswordCheck`, the number conversions as folds and the
text of a message as bytes (`PrintContent`).  Client puts the two together with the rest of `main.c`: `Receive*`
are the branches of `handle_message`, `ShowMain`, `AskFriends`, `AskGroups` the rest of `login_action`, `Timer`
the timer thread, and one action per click that reaches the protocol.  A handler of a GTK event is one step; a
handler that makes two requests with `sleep(1)` between them (`ConfirmGroup`, `ConfirmFriend`) sends both in that
step, since the GTK lock is held meanwhile and the receive thread cannot draw.

The server end is what this user meets of it, in the steps at which something can come between.  `Handle*` is one handler; answers
by descriptor go to this connection, answers by name through the queue.  A login is `HandleLogin` (password and
`get_user_prop`), `SetName`, `SelectStored`, `ReplayRow` for each row, `EraseStored` and `LoginReceipt`; it runs for this
session and for another one of the same user.  The send thread is `SndLookup`, then `SndSend` or `SndSave` on what the
lookup found.  `OtherLogin` is a login elsewhere: the first one takes the name away and fails, the next one gets it.
`Exit` is every way the process ends, and `Start` a new one on a new connection, which may be refused.

What goes wrong happens as often as a `Budget` says, which also says what there is at first and how much the user, the
timer and the others do:

| | |
|---|---|
| `Fails` | a statement of SQLite: registration, contact, member, offline message, delete of a replay, the client's record (`Save`), `db_init` (`ReceiveLogin`); `CreateFails` ends the server, which writes its answer through a bad pointer (280-286) |
| `LoseMessage`, `OverwriteRequest` | what RequestPath shows of requests, and a split `recv` of a record in the client (main.c:654): a message is lost, or one of two neighbouring requests of two threads is sent twice and the other not at all |
| `WipeName` | the `delete_client` of the slot's previous connection clears a fresh name (692) |
| `Wedge` | `queue_lock` is kept for good, with the last message dropped or not |
| `ServerStops` | the process of the server ends |
| `Misprints` | what `sprintf` makes of a text from its first percent sign on (main.c:235, 271), in `Copies` |

`sendtime` is the clock of the writer in whole seconds: the time of a chat is any of `budget.times`, in any order, so chats
of one second, and chats that arrive in another order than their times, occur.  `Before` is the order of the
query: by time, and as saved within a second.

History: `made`; `settled`, what became of chats outside the record (received before login, lost, delivered to another session, or not
recorded because the insert failed); `atRisk`, chats that a race or a fault may have doubled; `asked`; `mishaps`, what befell the
name of this process and its stored chats; `lost`, the types of messages of this process that were lost.

## 3. The runs

| run | instance | distinct states | shows |
|---|---|---|---|
| `queue` | 2 client threads, 2 users of whom one may stop reading, 1 chat, 1 notice, 3 slots, 2 requests; fair | 91 000 | the ring is used under the lock only; its window holds whole messages; it implements MessageQueue; the two wedges (a leaked lock, a lock inversion) are permanent; they and a send to a peer that never reads again are the only ways the queue stops draining or an enqueue does not return |
| `queue_full` | receipts only, 2 slots | violation | `EnqueueReturns`: after one enqueue on a full ring no thread gets the lock |
| `queue_inversion` | 6 slots, never full, everybody reads | violation | `QueueDrains`: send thread and row callback wait for each other |
| `sessions` | 3 connections, 1 user, 2 slots, 4 descriptors | 861 000 | each thread keeps to its own connection; names belong to the connection of their slot outside `delete_client` |
| `sessions_live` | 3 connections, 1 slot; fair | 103 000 | a slot comes back when its peer has hung up, unless the thread stays for ever in a call that waits for somebody else |
| `sessions_twice` | 2 connections, 1 user | violation | `OneSessionPerUser` |
| `sessions_misdelivery` | 2 connections, 1 user | violation | `DeliveredToUser` |
| `offline` | 2 users, 2 connections, 2 chats, 3 slots, 2 logins, 1 restart, 1 fault; fair | 373 000 | exactly once but for the named races and faults; rows a login has selected are sent unless the queue stops |
| `offline_loss` | 1 user, 2 connections, 1 chat, 3 logins, no restart, no fault | violation | `NothingLost` |
| `directory` | 2 threads, 2 users, 2 groups | 1 190 000 | no row twice and true receipts for users without overlapping requests; no dangling row; a creator joins the new group |
| `requests` | 3 threads, 4 requests of 1 to 3 pieces, records of 3 pieces, 3 records in flight; fair | 120 000 | whole and once unless threads overlap; never out of order; lost only after a split `recv`, and no longer once the connection was empty; all handled if neither happens; implements RecordStream |
| `client` | 1 user, 2 possible contacts, groups 1 to 11 and two new ones, 22 budgets; fair | 318 000 | each chat in one place or with a named end; view, members, highlight, labels and pane agree with the data behind them; numbers, names and texts come out as they went in; logins are answered and contacts appear, but for the obstacles the properties name |

`CHECK_DEADLOCK FALSE` everywhere: with their bounds used up the systems do stop, and in `queue` a
wedged server really stops; whether it may is what the liveness properties decide.

### Bounds

- `MaxJobs = 2` requests on `Capacity = 3` slots (two usable).  With `MaxMembers = 1` a created group has two enqueues, which
  fill the ring, and two of them overfill it and take `tail` round its end; a request on a wedged queue follows one that
  wedged it.  `queue_full` has groups of two rows, with one name twice.  A replay needs a stored row, hence a request before it.  One user in
  `MayStall` is enough for one send thread to wait for.  A third client thread would only wait for the same two
  mutexes.  The safety part is proved for all values.
- In `queue_inversion` the ring has more slots than all requests have messages, so the violation cannot come
  from a full ring.
- Three connections on two slots: one waits for a slot, or is refused, while the other two log in and
  hang up; slots and descriptors are reused.  A connection is used once.  Four descriptors are one more
  than can be open.  `sessions` has one user because its races are about one name; the theorems
  cover any number.
- `MaxLogins = 2`, `MaxRestarts = 1`, two chats: two logins of one user at a time, of two users, or one after
  the other; a restart within a replay and a login after it.  `Capacity = 3` in `offline`: two chats fill the ring, and a third entry,
  which a replay makes of a stored one, is dropped.  `MaxFaults = 1` is one failed statement, one ring filled by receipts or one halt, together
  with the races; the theorem is for any number.
- `MaxGroups = 2`: a group of one's own and another's, and two of one's own.  `MaxRows = 2`: a second equal
  row can occur; no request that adds to a row starts once there are two of it.  The constraint
  `OneOverlap` leaves out behaviours in which both users have overlapping requests, for which only the
  unconditional properties say anything; these are proved without it.
- `requests`: a text of three pieces fills its record, one of one piece does not; three pieces let a `recv` begin
  and end inside a text.  Two requests of one thread are needed for an order, one each of the others for an overlap.
- `client`: the outside of a behaviour (other logins, chats of others, restarts, stops of the server, clicks, typing, failures,
  losses) is bounded by a budget, chosen in `Init` from 22 records of `MCClient`, each for one part of the client
  (chats that meet two second logins, a server that stops with a chat under way, a statement that fails, a request that is
  lost, lists that change under the pointer, ...).  Parts that share no state are not multiplied with each other; the parts
  that do (a conversation and the chats that arrive, a login and a restart) are in one budget.  Each kind of fault is in at least one budget, once (twice in
  `FailingTwice`, where a registration and a login fail).  `ShowLimit = 2` stands for fifty, so that
  three chats pass it; times are 0 and 1, so that three chats have two of one second and any order of arrival.  `TextLimit = 8` stands for 1024, between two and three letters of three bytes.  `Misprints` are nothing and a byte that was
  not written: less and more than the text.  Groups are
  numbered as the table numbers its rows, without gaps; the user is in 1, 11, both or neither, and creates 12 and 13: numbers of
  one and two digits, of which 12 and 13 do not read the same backwards.  `Groups` ends at 13, which bounds `HandleCreate`.
  The budget in which no number is typed is one of its own, since `JoinedAsAsked` says nothing of it.
- Symmetry is used in `sessions` and `directory` only, which check invariants.

### Fairness

- Client threads, the listen thread and the send thread are scheduled by the kernel: weak fairness of the steps that wait for
  nobody.  Nothing makes a peer connect, write, read, log in or leave.
- `queue_lock` is a default pthread mutex, which promises no order.  Strong fairness of `Acquire` and of
  `SndLock` says that a thread waiting for it gets it if it is free again and again.  The code leaves it free
  for a second at a time (`sleep(1)` at 602, outside the lock) whenever the ring is empty, and a model
  behaviour has finitely many requests.
- The `send` at 590 returns when its peer reads: strong fairness of `SndSend` is about a peer that reads again and
  again.  Of a peer that does not read nothing is assumed, and `DrainsUnlessStopped` and `EnqueueReturnsUnlessStopped` name it
  (`[]Blocked`).
- In `sessions_live` the calls that may wait for ever (`Handled`, `Notified`, `Replayed`, `Receipt`) are not fair, but for a
  `Receipt` to a peer that has hung up, whose send returns.
- In `offline` the send thread and a login that has begun are fair until the queue stops (`halted`).
- In `requests` the client's threads and the server's thread are scheduled; in `client` the receive thread, and this
  connection's server thread and the send thread unless the queue is stuck.  The timer, the user, other users and the end
  of a process are not fair.
- There is no fairness for `Start*`, `Connect`, `Disconnect`, `Stall`, `Resume`, `HangUp`, `Accept`, `Leave`, `Restart`,
  faults and new logins.

## 4. The proofs

All are for arbitrary values of the constants, under the named assumptions of the modules
(`Capacity > 1`; thread names, user names and null values are different; bounds are natural numbers).

- **SendQueueProofs.**  `QueueInv` is the inductive invariant: types, the lock discipline
  (`RingUnderLock`), and `WindowFilled`: every slot from head up to tail holds an entry, the send thread
  has a message in hand when it needs one, a thread that is about to advance the tail has filled the slot
  under it and the ring is not full.  The types are not inductive without the other two: that
  `msg = send_queue[head]` is an entry needs the window, and that the window is not disturbed needs the
  lock.  From it follow `TypeCorrect`, `RingProtected`, `SlotsFilled`, `WedgeForever` (the two ways of wedging
  are never undone, and after one the table can only lose rows) and `Refinement` (`Spec => Promise!Spec`).  `KeptTyped` says that what a
  delete leaves are still entries.  The refinement maps the abstract queue
  to the message in hand followed by what `Read` finds between head and tail; the lemmas `ReadStore`,
  `ReadAdvance` and `ReadPop` say what writing the slot at the tail, moving the tail and moving the head do
  to that sequence, and `DistanceValue` and `SlotIndex` take the modulus out of the index arithmetic.
- **SessionsProofs.**  `TableInv` adds `SlotInv` to the types and to `NameMatchesConnection`: threads that have
  not given their slot back hold different slots with open descriptors, each its own, and a
  connection that `accept` has returned has an open descriptor and no thread yet.
  `OwnConnectionHolds`, `NamesVerified` and `SessionsTypeCorrect` follow.
- **DirectoryProofs.**  `DirectoryInv` adds to the properties what each request has found out so far
  (`Requests`: its account, contact and group exist; `Findings`: the row it is about to insert is absent, its
  new group is its creator's newest) and `Alone`: two requests in progress are of different users, except for
  users in `overlap`.  A finding stays true because only requests of the same user write those rows and
  accounts and groups are never deleted.  `RowsUnique`, `ReferencesHold`, `ReceiptsTrue`,
  `OwnGroupAnnounced` and `DirectoryTypeCorrect` follow.

- **OfflineDeliveryProofs.**  `DeliveryInv` is the types, `AddressInv` (an entry is addressed to the user its message
  was accepted for, wherever it is), `RowsInv` (a login replays rows of its own user) and `PlaceInv`: a message that
  met no race and no fault is at one position of the queue, of the wire of its user, or waiting.  Waiting once (`WaitingOnce`)
  says more than the property does: rows a login has selected belong to no second login and are still in the table.  Without
  that, neither the delete of one login nor the select of another could be seen to leave the other's rows
  alone.  A dropped entry, a failed insert and a failed delete put only their own messages at risk, so a step that fails
  leaves every other message where it was (`EnqueueCases`, `PlaceQueue`, `PlaceTable`).  `OneCopy` reads the counts
  of `ExactlyOnceButForRaces` as positions (`CountEntries`, `CountSent`);
  `KeptEntries` says what a select and a delete keep.  `OfflineTypeCorrect` is the types.
- **RequestPathProofs.**  `PathInv` is the types (a record is in part received only while it is on the connection),
  `InFunction` (where a thread is agrees with what it has copied), `AlignedInv` and `SplitInv` (a record of which a part was
  taken is known to `split`).  `Untouched` are the requests whose records nothing has been received of; with it
  `StreamRefinement` maps the path to RecordStream, and `LossesExplained` follows.  `OrderInv` orders requests of one thread
  over the server, the wire and the buffer; it dates a record by its first piece, since a mixed one has pieces of
  several requests.  `IntactInv` holds until two threads overlap: at most one thread is inside (`Alone`) and the
  buffer holds what it has copied (`BufferInv`).  `RequestTypeCorrect`, `OrderKept` and `RequestsIntact` follow.
- **ClientProofs.**  Each result has its own invariant over few variables, and lemmas that name the actions which
  touch them (`...Frame`).  `PaneInv` for the list of members shown or hidden; `JoinInv`: a join under way is for
  a number that was typed, also after requests were lost or written over each other (`ToServerFrame`); `AccountInv`: a registration
  under way passed the check.  `BudgetInv` says that what is spent stays a budget.
- **Counting and ListsProofs.**  `ListsInv` follows a list from the tables to the rows: what the server holds has no entry
  twice (`TablesInv`), a list that was sent is the beginning of it (`SentInv`), lists get no shorter on their way (`GrowingInv`:
  on the inbox, on the queue, and from the one to the other), what was received agrees with it up to the length of the newest list
  (`FriendDataInv`, `GroupDataInv`), and each row shows such an entry (`FriendRowsInv`, `GroupRowsInv`).  The
  order matters: a shorter list after a longer one would leave rows that point past its end; a lost record or request only takes
  an element out of a rising sequence (`RisingRemove`, `OrderRemoved`).  `OnePerRank`
  (of finitely many things each two of which are ordered, exactly one has k - 1 before it) makes the sorts permutations, and
  `NoLonger` bounds the contacts by the users there are.  `LabelsLead`, `RowOfFocus` and `OneRowChosen` follow, and, with `OtherTypes`
  (windows, connection, logins at the server) and `PaneInv`, `ClientTypeCorrect`.  `OnePerRank` also says what `Shown` selects from the record
  (`ShownFacts`, `OldestFirst`):
  `Before` orders any two rows of a conversation, by time and then by position, whatever the clocks were.
  `ViewInv`, the view is what would be read from the record now, is kept by a save to another conversation because ranks only depend on
  the rows of one (`ShownKept`); `ViewIsRecord` follows.

  What recursive functions and folds compute needs an induction.  The one of the library takes an operator as a
  parameter; `SetInduction` says the same of a set and is proved from finite sets: adding 1 would map the part of Nat below a
  number the set lacks into itself, one to one and not onto.  With it a recursive function has the values its
  equation gives (`FoldExists`, `Flattened`, `WrittenDigits`, `ContentDefined`).  `ReadAppend` (one more digit) and
  `ReverseAppend` make `ReadsBack`: a number of at most eight digits is read back as it was written, and
  `NumbersAreRead` follows, since `GroupRowsInv` has the numbers of the rows in `Groups`.  For `PrintContent`, `Shows` gives
  each piece its position in the text and each code its sticker, for any text; `Keeps` says that the pieces
  leave nothing out, which needs the text cut between letters only (`Uncut`, `Boundary`).  `ContentStep` is one step of the recursion,
  `ShownBefore` counts the bytes before a piece, and `PrintedRight` follows because what is written stays whole (`EntryInv`) and
  because the copy of a text without a percent sign is the text (`Copies`).

The assumptions are the named ones of the modules: a blank piece is no piece of a text; limits are positive; the account
of the user passes the check of the login window; every budget is one of `Budget` (in which texts consist of whole letters, as a GTK
text buffer does); there are finitely many users to be contacts, and finitely many groups, numbered from 1.

`NumbersAreRead` has a hypothesis besides: fewer than 100 000 000 groups, since `str2int` refuses a number of nine digits.

Only model-checked: the liveness properties (`DrainsUnlessStopped`, `EnqueueReturnsUnlessStopped`, `SlotGivenBack`,
`ReplayedRowsAreSent`, `AllHandled`, `LoginAnswered`, `ContactAppears`), since fairness and ENABLED are out of the prover's reach, and
three safety properties of Client: `Placed`, `MembersCurrent` and `StoredOnlyIfMishap`.

## 5. Findings

Each is a run whose property states what the repository says of the program, and which the code violates
(`PROJECT.json` quotes both).

1. `queue_full`: on a full ring `send_message_by_username` returns with `queue_lock` (652).
2. `queue_inversion`: the send thread inserts an offline message while it owns `queue_lock` (596); a row
   callback enqueues while `sqlite3_exec` owns the mutex of the connection (166, 266, 409).
3. `sessions_twice`: two logins of one user both pass the check at 133 before either writes its name at 144.
4. `sessions_misdelivery`: a descriptor looked up at 581 is closed (691), handed to a new connection (561) and
   used at 590.
5. `offline_loss`: a message inserted between the select (628) and the delete (643) of a login is gone.

Noted and not a finding, because no document promises otherwise: a user whose requests overlap can be in a
group twice and then can never quit it (358 asks for exactly one row); a refused connection stays open without
a thread (679-682), and a login sent on it is never answered; one peer that does not read stops the queue for everybody (590);
when `db_init` fails the main window is shown to nobody (main.c:190-199); a percent sign in a message is read as a
conversion when the message is shown (main.c:235, 271).

## 6. What is left out, and what is assumed

- SQLite is in its default serialized mode: a statement is atomic, and the mutex of the connection is
  held while row callbacks run.  Reads do not fail; writes may (the disk is full, an apostrophe in a text).
- JSON, SQL text, logging and formatting: messages and names are model values.  Wrong passwords and unknown users of a
  login change nothing; they are left out of Sessions and OfflineDelivery, and answered in Client.
- A message is delivered, for the properties of the server, when `send` has returned; what becomes of it in the socket is
  RequestPath's subject for requests and `LoseMessage`'s in Client.
- A send on a connection that has been reset raises SIGPIPE, which ends the server: `Restart`, `ServerStops`.  So does a
  record that is garbled in a way the parser does not survive; in the client that is `Quit`.
- `is_online` is written and never read.  `PRESSURE_TEST` is 0, which compiles the console's welcome
  command out of use.
- `add_client` on a full table reads one element past the array (679); it is taken to hold something other
  than -1, the value that would make the code write there.
- `quit_group` calls `group_exist` twice; groups are never deleted, so the second call has no step of its own.
- Friend list, group list and group profile read tables and enqueue one answer; for the queue they are
  `StartAnswer`, in Directory they would change nothing.
- In Directory a receipt is a step of the handler; that it may then be lost in the queue is SendQueue's subject.
- In Client the user logs in with one account.  Only the thread of this connection writes the user's rows of `contacts` and
  `groupmember` (a second session of the user could write some at the same time; Directory has that, with the equal rows it can
  lead to), so lists have no row twice and only grow.  `queue` has the entries for this user; those for others show only
  in `Wedge`.  `stuck` lasts until the server ends.  A request is written over only when two of them are
  neighbours on the connection and one of the two asks for a list, as the timer and the receive thread do; handlers of
  GTK events run one after the other.
- In Client text is opaque where it is sent and recorded: that an apostrophe makes the insert fail is `Fails`, and a
  percent sign matters only where the text is shown (`Copies`).
- In Client `Start` waits until the server has handled what the old process sent.  A send on an old descriptor that has
  become that of the user's next connection counts as delivered to another session.
- `recv` that fills the buffer writes a null byte past its end (547); the byte is taken to be unused.
- Requests no window makes (logout, quitting a group, raw text: `exec_cmd` 3, 11 and 0) are in the server's modules
  where they change state, and not in Client.
- Not modelled: construction and layout of widgets, the log and time helpers (formatting and file output), cJSON,
  SQLite and its shell.  The last two are vendored and taken as given: of the repository's C files of more than
  31 000 lines, about 3 450 are the program's own (`server.c`, `src/client/*.c`, two `util.c`), and a third of
  those build widgets.

## 7. The plan

Done, in this order: StoredRows, MessageQueue and SendQueue with their proofs; Sessions with its proofs; OfflineDelivery over
MessageQueue; Directory with its proofs; RecordStream and RequestPath; ClientLists, ClientInput and Client; the proofs of
RequestPath, of the client and its lists, and of OfflineDelivery.  The modules use recursive functions and folds and
declare no RECURSIVE operator.

Next: `Placed`, `StoredOnlyIfMishap` and `MembersCurrent` of Client are checked and not proved.  The last is about what a
profile list under way is of; the first two are about races between a login and the send thread.  A proof needs an invariant over the stages of two logins, the rows each has selected and the send
thread's lookup; `PlaceInv` of OfflineDeliveryProofs is its model.
