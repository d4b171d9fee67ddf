--------------------------- MODULE SendQueueProofs ---------------------------
(* Proofs about SendQueue for any number of threads, users and slots. *)
EXTENDS SendQueue, Counting

-----------------------------------------------------------------------------
(* The ring as a sequence. *)

USE CapacityAssumption

\* (i + 1) % MAX_SEND_QUEUE_SIZE stays in the array and wraps at its end.
LEMMA NextIndexValue ==
  ASSUME NEW i \in 0..(Capacity - 1)
  PROVE  /\ NextIndex(i) \in 0..(Capacity - 1)
         /\ NextIndex(i) = IF i + 1 = Capacity THEN 0 ELSE i + 1
  BY SMT DEF NextIndex

Index == 0..(Capacity - 1)

\* The distance from head to tail round the ring, without the modulus.
LEMMA DistanceValue ==
  ASSUME NEW h \in Index, NEW t \in Index
  PROVE  /\ Distance(h, t) \in Index
         /\ Distance(h, t) = IF h <= t THEN t - h ELSE t + Capacity - h
  BY SMT DEF Distance, Index

\* The index of the i-th slot after head, without the modulus.
LEMMA SlotIndex ==
  ASSUME NEW h \in Index, NEW i \in 1..(Capacity - 1)
  PROVE  /\ (h + i - 1) % Capacity \in Index
         /\ (h + i - 1) % Capacity
              = IF h + i - 1 < Capacity THEN h + i - 1 ELSE h + i - 1 - Capacity
  BY SMT DEF Index

\* What is read is a sequence of what the slots hold, as long as the distance.
LEMMA ReadTyped ==
  ASSUME NEW X, NEW s \in [Index -> X], NEW h \in Index, NEW t \in Index
  PROVE  Read(s, h, t) \in Seq(X) /\ Len(Read(s, h, t)) = Distance(h, t)
  <1>0. Distance(h, t) \in Index
    BY DistanceValue
  <1>1. Distance(h, t) \in Nat /\ Distance(h, t) <= Capacity - 1
    BY <1>0 DEF Index
  <1>2. \A i \in 1..Distance(h, t) : s[(h + i - 1) % Capacity] \in X
    BY <1>1, SlotIndex
  <1> QED BY <1>1, <1>2 DEF Read

\* Nothing lies between an index and itself.
LEMMA ReadEmpty ==
  ASSUME NEW s, NEW h \in Index
  PROVE  Read(s, h, h) = <<>>
  <1>1. Distance(h, h) = 0
    BY DistanceValue DEF Index
  <1> QED BY <1>1 DEF Read

\* Writing the slot at the tail changes nothing between head and tail.
LEMMA ReadStore ==
  ASSUME NEW X, NEW s \in [Index -> X], NEW h \in Index, NEW t \in Index, NEW v
  PROVE  Read([s EXCEPT ![t] = v], h, t) = Read(s, h, t)
  <1>1. /\ Distance(h, t) \in Index
        /\ Distance(h, t) = IF h <= t THEN t - h ELSE t + Capacity - h
    BY DistanceValue
  <1>2. ASSUME NEW i \in 1..Distance(h, t)
        PROVE  (h + i - 1) % Capacity # t /\ (h + i - 1) % Capacity \in Index
    <2>1. i \in 1..(Capacity - 1)
      BY <1>1 DEF Index
    <2>2. /\ (h + i - 1) % Capacity \in Index
          /\ (h + i - 1) % Capacity
               = IF h + i - 1 < Capacity THEN h + i - 1 ELSE h + i - 1 - Capacity
      BY <2>1, SlotIndex
    <2> QED BY <1>1, <2>1, <2>2 DEF Index
  <1> QED BY <1>2 DEF Read

\* Moving the tail over one slot appends what it holds.
LEMMA ReadAdvance ==
  ASSUME NEW X, NEW s \in [Index -> X], NEW h \in Index, NEW t \in Index,
         NextIndex(t) # h
  PROVE  /\ Read(s, h, NextIndex(t)) = Append(Read(s, h, t), s[t])
         /\ Len(Read(s, h, t)) < Capacity - 1
  <1>1. NextIndex(t) \in Index /\ NextIndex(t) = IF t + 1 = Capacity THEN 0 ELSE t + 1
    BY NextIndexValue DEF Index
  <1>a. /\ Distance(h, t) \in Index
        /\ Distance(h, t) = IF h <= t THEN t - h ELSE t + Capacity - h
    BY DistanceValue
  <1>b. /\ Distance(h, NextIndex(t)) \in Index
        /\ Distance(h, NextIndex(t))
             = IF h <= NextIndex(t) THEN NextIndex(t) - h ELSE NextIndex(t) + Capacity - h
    BY <1>1, DistanceValue
  <1>2. /\ Distance(h, t) \in Nat
        /\ Distance(h, t) < Capacity - 1
        /\ Distance(h, NextIndex(t)) = Distance(h, t) + 1
    BY <1>1, <1>a, <1>b DEF Index
  <1>3. (h + (Distance(h, t) + 1) - 1) % Capacity = t
    <2>1. Distance(h, t) + 1 \in 1..(Capacity - 1)
      BY <1>2
    <2>2. (h + (Distance(h, t) + 1) - 1) % Capacity
            = IF h + (Distance(h, t) + 1) - 1 < Capacity
                THEN h + (Distance(h, t) + 1) - 1
                ELSE h + (Distance(h, t) + 1) - 1 - Capacity
      BY <2>1, SlotIndex
    <2> QED BY <1>2, <1>a, <2>2 DEF Index
  <1>c. Read(s, h, t) \in Seq(X) /\ Len(Read(s, h, t)) = Distance(h, t)
    BY ReadTyped
  <1>d. /\ Read(s, h, NextIndex(t)) \in Seq(X)
        /\ Len(Read(s, h, NextIndex(t))) = Distance(h, NextIndex(t))
    BY <1>1, ReadTyped
  <1>4. Len(Read(s, h, NextIndex(t))) = Len(Append(Read(s, h, t), s[t]))
    BY <1>2, <1>c, <1>d
  <1>5. ASSUME NEW i \in 1..(Distance(h, t) + 1)
        PROVE  Read(s, h, NextIndex(t))[i] = Append(Read(s, h, t), s[t])[i]
    BY <1>2, <1>3, <1>c DEF Read
  <1>6. s[t] \in X
    OBVIOUS
  <1> QED BY <1>2, <1>4, <1>5, <1>6, <1>c, <1>d

\* Moving the head over one slot takes off the oldest.
LEMMA ReadPop ==
  ASSUME NEW X, NEW s \in [Index -> X], NEW h \in Index, NEW t \in Index, h # t
  PROVE  Read(s, h, t) = <<s[h]>> \o Read(s, NextIndex(h), t)
  <1>1. NextIndex(h) \in Index /\ NextIndex(h) = IF h + 1 = Capacity THEN 0 ELSE h + 1
    BY NextIndexValue DEF Index
  <1>a. /\ Distance(h, t) \in Index
        /\ Distance(h, t) = IF h <= t THEN t - h ELSE t + Capacity - h
    BY DistanceValue
  <1>b. /\ Distance(NextIndex(h), t) \in Index
        /\ Distance(NextIndex(h), t)
             = IF NextIndex(h) <= t THEN t - NextIndex(h) ELSE t + Capacity - NextIndex(h)
    BY <1>1, DistanceValue
  <1>2. /\ Distance(NextIndex(h), t) \in Nat
        /\ Distance(NextIndex(h), t) < Capacity - 1
        /\ Distance(h, t) = Distance(NextIndex(h), t) + 1
    BY <1>1, <1>a, <1>b DEF Index
  <1>c. Read(s, h, t) \in Seq(X) /\ Len(Read(s, h, t)) = Distance(h, t)
    BY ReadTyped
  <1>d. /\ Read(s, NextIndex(h), t) \in Seq(X)
        /\ Len(Read(s, NextIndex(h), t)) = Distance(NextIndex(h), t)
    BY <1>1, ReadTyped
  <1>4. Read(s, h, t)[1] = s[h]
    <2>1. (h + 1 - 1) % Capacity = h
      BY SMT DEF Index
    <2>2. 1 \in 1..Distance(h, t)
      BY <1>2
    <2> QED BY <2>1, <2>2 DEF Read
  <1>5. ASSUME NEW i \in 1..Distance(NextIndex(h), t)
        PROVE  Read(s, h, t)[i + 1] = Read(s, NextIndex(h), t)[i]
    <2>1. i \in 1..(Capacity - 1) /\ i + 1 \in 1..(Capacity - 1)
      BY <1>2
    <2>2. (h + (i + 1) - 1) % Capacity
            = IF h + (i + 1) - 1 < Capacity THEN h + (i + 1) - 1
                                            ELSE h + (i + 1) - 1 - Capacity
      BY <2>1, SlotIndex
    <2>3. (NextIndex(h) + i - 1) % Capacity
            = IF NextIndex(h) + i - 1 < Capacity THEN NextIndex(h) + i - 1
                                                 ELSE NextIndex(h) + i - 1 - Capacity
      BY <1>1, <2>1, SlotIndex
    <2>4. (h + (i + 1) - 1) % Capacity = (NextIndex(h) + i - 1) % Capacity
      BY <1>1, <2>1, <2>2, <2>3 DEF Index
    <2> QED BY <1>2, <2>4 DEF Read
  <1>6. s[h] \in X
    OBVIOUS
  <1> QED BY <1>2, <1>4, <1>5, <1>6, <1>c, <1>d

-----------------------------------------------------------------------------
(* The rows of a table at some of its positions. *)

\* As many rows as positions, each one a row of the table.
LEMMA KeptTyped ==
  ASSUME NEW X, NEW s \in Seq(X), NEW I \in SUBSET (DOMAIN s)
  PROVE  Kept(s, I) \in Seq(X)
  <1>1. Len(s) \in Nat /\ DOMAIN s = 1..Len(s)
    BY LenProperties
  <1>2. /\ Cardinality(I) \in Nat
        /\ \A k \in 1..Cardinality(I) : \E i \in I : Cardinality({j \in I : j < i}) = k - 1
    BY <1>1, NumbersRanked
  <1>3. ASSUME NEW k \in 1..Cardinality(I)
        PROVE  s[CHOOSE i \in I : Cardinality({j \in I : j < i}) = k - 1] \in X
    <2>1. (CHOOSE i \in I : Cardinality({j \in I : j < i}) = k - 1) \in I
      BY <1>2
    <2> QED BY <1>1, <2>1
  <1> DEFINE n == Cardinality(I)
             row(k) == s[CHOOSE i \in I : Cardinality({j \in I : j < i}) = k - 1]
  <1>4. Kept(s, I) = [k \in 1..n |-> row(k)]
    BY DEF Kept
  <1>5. n \in Nat /\ \A k \in 1..n : row(k) \in X
    BY <1>2, <1>3
  <1> HIDE DEF n, row
  <1> QED BY <1>4, <1>5

\* What is selected, and what a delete leaves, are rows of the table.
LEMMA RowsTyped ==
  ASSUME NEW table \in Seq(Entry), NEW u
  PROVE  RowsFor(table, u) \in Seq(Entry) /\ WithoutRowsFor(table, u) \in Seq(Entry)
  BY KeptTyped DEF RowsFor, WithoutRowsFor

-----------------------------------------------------------------------------
(* What a request enqueues. *)

USE BoundsAssumption, ThreadAssumption, NoEntryAssumption, NoUserAssumption

\* The rows of a select, each paired with the message, are entries.
LEMMA RelayTyped ==
  ASSUME NEW rows \in Seq(Users), NEW m \in Chats
  PROVE  Relay(rows, m) \in Seq(Entry)
  <1>1. \A i \in 1..Len(rows) : [user |-> rows[i], msg |-> m] \in Entry
    BY DEF Entry
  <1> QED BY <1>1 DEF Relay

\* Whatever a request is, it starts with a list of entries to enqueue, and it
\* takes the mutex of the connection only when nobody has it.
LEMMA StartTyped ==
  ASSUME TypeOK, NEW t \in Clients, StartRequest(t)
  PROVE  /\ \E calls \in Seq(Entry) : Start(t, calls)
         /\ dbMutex' \in {dbMutex, t}
         /\ replays' \in [Clients -> Users \union {NoUser}]
  <1> USE DEF TypeOK
  <1>1. CASE StartAnswer(t)
    <2>1. PICK u \in Users, m \in Notices : Start(t, <<[user |-> u, msg |-> m]>>)
      BY <1>1 DEF StartAnswer
    <2>2. [user |-> u, msg |-> m] \in Entry
      BY DEF Entry
    <2>3. <<[user |-> u, msg |-> m]>> \in Seq(Entry)
      BY <2>2
    <2> QED BY <1>1, <2>1, <2>3 DEF StartAnswer
  <1>2. CASE StartSingle(t)
    <2>1. PICK m \in Chats :
            \/ StartCallback(t, <<>>)
            \/ \E u \in Users : StartCallback(t, Relay(<<u>>, m))
      BY <1>2 DEF StartSingle
    <2>2. ASSUME NEW u \in Users PROVE Relay(<<u>>, m) \in Seq(Entry)
      <3>1. <<u>> \in Seq(Users)
        OBVIOUS
      <3> QED BY <3>1, RelayTyped
    <2>3. CASE StartCallback(t, <<>>)
      <3>1. <<>> \in Seq(Entry)
        OBVIOUS
      <3> QED BY <2>3, <3>1 DEF StartCallback
    <2>4. CASE \E u \in Users : StartCallback(t, Relay(<<u>>, m))
      BY <2>2, <2>4 DEF StartCallback
    <2> QED BY <2>1, <2>3, <2>4
  <1>3. CASE StartGroup(t)
    <2>1. PICK m \in Chats, rows \in MemberRows : StartCallback(t, Relay(rows, m))
      BY <1>3 DEF StartGroup
    <2>2. PICK n \in 0..MaxMembers : rows \in [1..n -> Users]
      BY DEF MemberRows
    <2>3. rows \in Seq(Users)
      BY <2>2
    <2>4. Relay(rows, m) \in Seq(Entry)
      BY <2>3, RelayTyped
    <2> QED BY <2>1, <2>4 DEF StartCallback
  <1>4. CASE StartCreate(t)
    <2>1. PICK u \in Users, created \in Notices, joined \in Notices :
            StartCallback(t, <<[user |-> u, msg |-> created], [user |-> u, msg |-> joined]>>)
      BY <1>4 DEF StartCreate
    <2>2. [user |-> u, msg |-> created] \in Entry /\ [user |-> u, msg |-> joined] \in Entry
      BY DEF Entry
    <2>3. <<[user |-> u, msg |-> created], [user |-> u, msg |-> joined]>> \in Seq(Entry)
      BY <2>2
    <2> QED BY <2>1, <2>3 DEF StartCallback
  <1>5. ASSUME NEW u \in Users, StartReplay(t, u)
        PROVE  /\ \E calls \in Seq(Entry) : Start(t, calls)
               /\ dbMutex' \in {dbMutex, t}
               /\ replays' \in [Clients -> Users \union {NoUser}]
    <2>1. RowsFor(offline, u) \in Seq(Entry)
      BY RowsTyped
    <2> QED BY <1>5, <2>1 DEF StartReplay
  <1> QED BY <1>1, <1>2, <1>3, <1>4, <1>5 DEF StartRequest

-----------------------------------------------------------------------------
(* The inductive invariant. *)

\* An empty ring that nobody works on satisfies the invariant.
LEMMA InitInv == Init => QueueInv
  BY DEF Init, QueueInv, TypeOK, RingUnderLock, WindowFilled, InCritical,
         InWindow, Threads


\* Every step of the client threads, the send thread and the users keeps
\* QueueInv.
LEMMA StepInv == QueueInv /\ [Next]_vars => QueueInv'
  <1> SUFFICES ASSUME QueueInv, [Next]_vars PROVE QueueInv'
    OBVIOUS
  <1> USE DEF QueueInv, TypeOK, RingUnderLock, WindowFilled, InCritical, Threads,
              mutexes, ring, threads, links, outside
  <1>1. ASSUME NEW t \in Clients, StartRequest(t) PROVE QueueInv'
    <2>1. PICK calls \in Seq(Entry) : Start(t, calls)
      BY <1>1, StartTyped
    <2>2. dbMutex' \in {dbMutex, t} /\ replays' \in [Clients -> Users \union {NoUser}]
      BY <1>1, StartTyped
    <2>3. TypeOK'
      <3>1. /\ pc' \in [Clients -> {"idle", "call", "check", "advance", "unlock"}]
            /\ job' \in [Clients -> Seq(Entry)]
            /\ jobs' \in 0..MaxJobs
        BY <2>1 DEF Start
      <3>2. /\ UNCHANGED <<lock, slots, head, tail, sndPc, hand, online, stalled, wire, offline>>
            /\ dbMutex' \in Clients \union {Nobody}
        BY <2>1, <2>2 DEF Start
      <3> QED BY <2>2, <3>1, <3>2
    <2>4. (RingUnderLock /\ WindowFilled)'
      BY <2>1 DEF Start, InWindow, RingFull, NextIndex
    <2> QED BY <2>3, <2>4
  <1>2. ASSUME NEW t \in Clients, Acquire(t) PROVE QueueInv'
    BY <1>2 DEF Acquire, InWindow, RingFull, NextIndex
  <1>3. ASSUME NEW t \in Clients, ReturnFull(t) PROVE QueueInv'
    BY <1>3 DEF ReturnFull, InWindow, RingFull, NextIndex
  <1>4. ASSUME NEW t \in Clients, StoreSlot(t) PROVE QueueInv'
    <2>1. Head(job[t]) \in Entry
      BY <1>4 DEF StoreSlot
    <2> QED BY <1>4, <2>1 DEF StoreSlot, InWindow, RingFull, NextIndex
  <1>5. ASSUME NEW t \in Clients, AdvanceTail(t) PROVE QueueInv'
    <2>1. slots[tail] \in Entry
      BY <1>5 DEF AdvanceTail
    <2>2. /\ tail' \in 0..(Capacity - 1)
          /\ tail' = IF tail + 1 = Capacity THEN 0 ELSE tail + 1
          /\ tail' # head
      BY <1>5, NextIndexValue DEF AdvanceTail, RingFull
    <2>3. \A i \in 0..(Capacity - 1) : InWindow(i)' => InWindow(i) \/ i = tail
      BY <1>5, <2>2 DEF AdvanceTail, InWindow
    <2>4. (\A i \in 0..(Capacity - 1) : InWindow(i) => slots[i] \in Entry)'
      BY <1>5, <2>1, <2>3 DEF AdvanceTail
    <2> QED BY <1>5, <2>2, <2>4 DEF AdvanceTail
  <1>6. ASSUME NEW t \in Clients, Release(t) PROVE QueueInv'
    BY <1>6 DEF Release, InWindow, RingFull, NextIndex
  <1>7. ASSUME NEW t \in Clients, Finish(t) PROVE QueueInv'
    BY <1>7 DEF Finish, InWindow, RingFull, NextIndex
  <1>8. CASE SndLock
    BY <1>8 DEF SndLock, InWindow, RingFull, NextIndex
  <1>9. CASE SndEmpty
    BY <1>9 DEF SndEmpty, InWindow, RingFull, NextIndex
  <1>10. CASE SndPop
    <2>1. slots[head] \in Entry
      BY <1>10 DEF SndPop, RingEmpty, InWindow
    <2>2. /\ head' \in 0..(Capacity - 1)
          /\ head' = IF head + 1 = Capacity THEN 0 ELSE head + 1
      BY <1>10, NextIndexValue DEF SndPop
    <2>3. \A i \in 0..(Capacity - 1) : InWindow(i)' => InWindow(i)
      BY <1>10, <2>2 DEF SndPop, RingEmpty, InWindow
    <2>4. \A t \in Clients : ~InCritical(t)
      BY <1>10 DEF SndPop
    <2> QED BY <1>10, <2>1, <2>2, <2>3, <2>4 DEF SndPop
  <1>11. CASE SndLookup
    BY <1>11 DEF SndLookup, InWindow, RingFull, NextIndex
  <1>12. CASE SndSend
    <2>1. hand.user \in Users /\ hand.msg \in Chats \union Notices
      BY <1>12 DEF SndSend, Entry
    <2>2. wire' \in [Users -> Seq(Chats \union Notices)]
      BY <1>12, <2>1 DEF SndSend
    <2> QED BY <1>12, <2>2 DEF SndSend, InWindow, RingFull, NextIndex
  <1>13. CASE SndDiscard
    BY <1>13 DEF SndDiscard, InWindow, RingFull, NextIndex
  <1>14. CASE SndSave
    <2>1. offline' \in Seq(Entry)
      <3>1. hand \in Entry /\ offline \in Seq(Entry)
        BY <1>14 DEF SndSave
      <3>2. offline' = Append(offline, hand) \/ offline' = offline
        BY <1>14 DEF SndSave
      <3>3. Append(offline, hand) \in Seq(Entry)
        BY <3>1, AppendProperties
      <3> QED BY <3>1, <3>2, <3>3
    <2> QED BY <1>14, <2>1 DEF SndSave, InWindow, RingFull, NextIndex
  <1>15. CASE SndUnlock
    BY <1>15 DEF SndUnlock, InWindow, RingFull, NextIndex
  <1>16. ASSUME NEW u \in Users, Outside(u) PROVE QueueInv'
    BY <1>16 DEF Outside, Connect, Disconnect, Stall, Resume, InWindow, RingFull, NextIndex
  <1>17. CASE UNCHANGED vars
    BY <1>17 DEF vars, InWindow, RingFull, NextIndex
  <1>18. ASSUME NEW t \in Clients, ReplayErase(t) PROVE QueueInv'
    <2>1. offline' \in Seq(Entry)
      BY <1>18, RowsTyped DEF ReplayErase
    <2> QED BY <1>18, <2>1 DEF ReplayErase, InWindow, RingFull, NextIndex
  <1> QED
    BY <1>1, <1>2, <1>3, <1>4, <1>5, <1>6, <1>7, <1>8, <1>9, <1>10, <1>11, <1>12,
       <1>13, <1>14, <1>15, <1>16, <1>17, <1>18 DEF Next, Enqueue, SenderStep

\* QueueInv is an invariant: it holds initially and every step preserves it.
THEOREM QueueInvariant == Spec => []QueueInv
  <1> QED BY InitInv, StepInv, PTL DEF Spec

\* The type invariant, for any number of threads, users and slots.
THEOREM TypeCorrect == Spec => []TypeOK
  <1>1. QueueInv => TypeOK
    BY DEF QueueInv
  <1> QED BY <1>1, QueueInvariant, PTL

\* Mutual exclusion on the ring: no thread touches it without queue_lock, even
\* after threads have returned with the lock.
THEOREM RingProtected == Spec => []RingUnderLock
  <1>1. QueueInv => RingUnderLock
    BY DEF QueueInv
  <1> QED BY <1>1, QueueInvariant, PTL

\* No slot is read before it was filled, and none is given to the send thread
\* that does not hold an accepted message.
THEOREM SlotsFilled == Spec => []WindowFilled
  <1>1. QueueInv => WindowFilled
    BY DEF QueueInv
  <1> QED BY <1>1, QueueInvariant, PTL

-----------------------------------------------------------------------------
(* A wedged queue stays wedged. *)

\* In a wedged queue the threads can only run up to the lock they will never get.
LEMMA WedgeStep ==
  QueueInv /\ [Next]_vars /\ Wedged => Wedged' /\ UNCHANGED <<lock, ring, wire>> /\ RowsOnlyErased
  <1> SUFFICES ASSUME QueueInv, [Next]_vars, Wedged
               PROVE  Wedged' /\ UNCHANGED <<lock, ring, wire>> /\ RowsOnlyErased
    OBVIOUS
  <1> USE DEF QueueInv, TypeOK, RingUnderLock, InCritical, Threads, Wedged, Leaked,
              Inverted, RowsOnlyErased, mutexes, ring, threads, links, outside
  <1>1. lock # Nobody
    OBVIOUS
  <1>2. ASSUME NEW t \in Clients, StartRequest(t)
        PROVE Wedged' /\ UNCHANGED <<lock, ring, wire>> /\ RowsOnlyErased
    <2>1. PICK calls \in Seq(Entry) : Start(t, calls)
      BY <1>2, StartTyped
    <2>2. dbMutex' \in {dbMutex, t} /\ (dbMutex # Nobody => dbMutex' = dbMutex)
      BY <1>2, StartTyped
         DEF StartRequest, StartAnswer, StartSingle, StartGroup, StartCreate,
             StartCallback, StartReplay
    <2> QED BY <2>1, <2>2 DEF Start
  <1>3. ASSUME NEW t \in Clients, Enqueue(t)
        PROVE Wedged' /\ UNCHANGED <<lock, ring, wire>> /\ RowsOnlyErased
    <2>1. ~Acquire(t)
      BY <1>1 DEF Acquire
    <2>2. ~InCritical(t)
      OBVIOUS
    <2>3. Finish(t) \/ ReplayErase(t)
      BY <1>3, <2>1, <2>2 DEF Enqueue, ReturnFull, StoreSlot, AdvanceTail, Release
    <2>4. CASE Finish(t)
      BY <2>4 DEF Finish
    <2>5. CASE ReplayErase(t)
      BY <2>5 DEF ReplayErase
    <2> QED BY <2>3, <2>4, <2>5
  <1>4. CASE SenderStep
    <2>1. ~SndLock
      BY <1>1 DEF SndLock
    <2>2. ~Leaked
      BY <1>4, <2>1 DEF SenderStep, SndEmpty, SndPop, SndLookup, SndSend, SndDiscard,
                        SndSave, SndUnlock
    <2> QED
      BY <1>4, <2>1, <2>2 DEF SenderStep, SndEmpty, SndPop, SndLookup, SndSend,
                              SndDiscard, SndSave, SndUnlock
  <1>5. ASSUME NEW u \in Users, Outside(u)
        PROVE Wedged' /\ UNCHANGED <<lock, ring, wire>> /\ RowsOnlyErased
    BY <1>5 DEF Outside, Connect, Disconnect, Stall, Resume
  <1>6. CASE UNCHANGED vars
    BY <1>6 DEF vars
  <1> QED BY <1>2, <1>3, <1>4, <1>5, <1>6 DEF Next

\* Once a client thread has returned with queue_lock, or the two locks are held
\* in opposite orders, no step of any thread ends it, and nothing more is
\* accepted, sent or stored: for any number of threads and any ring size.
THEOREM WedgeForever == Spec => WedgeIsPermanent
  <1>1. QueueInv /\ [Next]_vars
          => [Wedged => Wedged' /\ UNCHANGED <<lock, ring, wire>> /\ RowsOnlyErased]_vars
    BY WedgeStep
  <1> QED BY <1>1, QueueInvariant, PTL DEF Spec, WedgeIsPermanent

-----------------------------------------------------------------------------
(* The ring, its lock and its threads implement MessageQueue. *)

\* What the ring holds between its ends is a sequence of entries.
LEMMA ContentsTyped ==
  ASSUME TypeOK
  PROVE  Contents \in Seq(Entry \union {NoEntry})
  BY ReadTyped DEF TypeOK, Contents, Index

\* The empty ring maps to the empty queue.
LEMMA InitImplements == Init => Promise!Init
  <1> SUFFICES ASSUME Init PROVE Promise!Init
    OBVIOUS
  <1>1. 0 \in Index /\ head = 0 /\ tail = 0
    BY DEF Init, Index
  <1>2. Contents = <<>>
    BY <1>1, ReadEmpty DEF Contents
  <1> QED BY <1>2 DEF Init, Promise!Init, Undispatched

\* Every step maps to a step of MessageQueue or to a stutter: tail's advance to
\* Put, the send thread's last step to Send, Store or Discard.
LEMMA StepImplements == QueueInv /\ [Next]_vars => [Promise!Next]_Promise!vars
  <1> SUFFICES ASSUME QueueInv, [Next]_vars
               PROVE  Promise!Next \/ UNCHANGED Promise!vars
    OBVIOUS
  <1> USE DEF mutexes, ring, threads, links, outside
  <1>1. /\ slots \in [Index -> Entry \union {NoEntry}]
        /\ head \in Index /\ tail \in Index
    BY DEF QueueInv, TypeOK, Index
  <1>2. Contents \in Seq(Entry \union {NoEntry})
    BY ContentsTyped DEF QueueInv
  <1>3. ASSUME UNCHANGED <<ring, sndPc, hand, wire, offline>>
        PROVE  UNCHANGED Promise!vars
    BY <1>3 DEF Promise!vars, Undispatched, Contents
  <1>4. ASSUME UNCHANGED <<ring, wire, offline>>,
               sndPc \in {"lock", "pop", "unlock"}, sndPc' \in {"lock", "pop", "unlock"}
        PROVE  UNCHANGED Promise!vars
    BY <1>4 DEF Promise!vars, Undispatched, Contents
  <1>5. ASSUME NEW t \in Clients, StartRequest(t) PROVE UNCHANGED Promise!vars
    BY <1>3, <1>5, StartTyped DEF Start, QueueInv
  <1>6. ASSUME NEW t \in Clients, Acquire(t) \/ ReturnFull(t) \/ Release(t) \/ Finish(t)
        PROVE  UNCHANGED Promise!vars
    BY <1>3, <1>6 DEF Acquire, ReturnFull, Release, Finish
  <1>7. ASSUME NEW t \in Clients, StoreSlot(t) PROVE UNCHANGED Promise!vars
    <2>1. Contents' = Contents
      BY <1>1, <1>7, ReadStore DEF StoreSlot, Contents
    <2> QED BY <1>7, <2>1 DEF StoreSlot, Promise!vars, Undispatched
  <1>8. ASSUME NEW t \in Clients, AdvanceTail(t) PROVE \E e \in Entry : Promise!Put(e)
    <2>1. /\ NextIndex(tail) # head
          /\ slots[tail] \in Entry
          /\ sndPc = "lock"
      <3>1. pc[t] = "advance" /\ InCritical(t) /\ lock = t
        BY <1>8 DEF AdvanceTail, InCritical, QueueInv, RingUnderLock
      <3>2. ~RingFull /\ slots[tail] = Head(job[t]) /\ job[t] # <<>> /\ job[t] \in Seq(Entry)
        BY <3>1 DEF QueueInv, TypeOK, WindowFilled
      <3>3. sndPc = "lock"
        BY <3>1, ThreadAssumption DEF QueueInv, RingUnderLock
      <3> QED BY <3>2, <3>3 DEF RingFull
    <2>2. /\ Contents' = Append(Contents, slots[tail])
          /\ Len(Contents) < Capacity - 1
      BY <1>1, <1>8, <2>1, ReadAdvance DEF AdvanceTail, Contents
    <2>3. Promise!Put(slots[tail])
      BY <1>8, <2>1, <2>2 DEF AdvanceTail, Promise!Put, Undispatched
    <2> QED BY <2>1, <2>3
  <1>9. ASSUME SndLock \/ SndEmpty \/ SndUnlock PROVE UNCHANGED Promise!vars
    BY <1>4, <1>9 DEF SndLock, SndEmpty, SndUnlock
  <1>10. ASSUME SndPop PROVE UNCHANGED Promise!vars
    <2>1. Contents = <<slots[head]>> \o Contents'
      BY <1>1, <1>10, ReadPop DEF SndPop, RingEmpty, Contents
    <2> QED BY <1>10, <2>1 DEF SndPop, Promise!vars, Undispatched
  <1>11. ASSUME SndLookup PROVE UNCHANGED Promise!vars
    BY <1>11 DEF SndLookup, Promise!vars, Undispatched, Contents
  <1>12. ASSUME sndPc \in {"send", "save"}, sndPc' = "unlock", UNCHANGED <<ring, hand>>
         PROVE  /\ Undispatched # <<>>
                /\ Head(Undispatched) = hand
                /\ Undispatched' = Tail(Undispatched)
    <2>1. Undispatched = <<hand>> \o Contents /\ Undispatched' = Contents
      BY <1>12 DEF Undispatched, Contents
    <2>2. hand \in Entry \union {NoEntry}
      BY DEF QueueInv, TypeOK
    <2> QED BY <1>2, <2>1, <2>2
  <1>13. ASSUME SndSend PROVE Promise!Send
    <2>1. /\ Undispatched # <<>> /\ Head(Undispatched) = hand
          /\ Undispatched' = Tail(Undispatched)
      BY <1>12, <1>13 DEF SndSend
    <2> QED BY <1>13, <2>1 DEF SndSend, Promise!Send
  <1>14. ASSUME SndDiscard PROVE Promise!Discard
    <2>1. /\ Undispatched # <<>> /\ Head(Undispatched) = hand
          /\ Undispatched' = Tail(Undispatched)
      BY <1>12, <1>14 DEF SndDiscard
    <2> QED BY <1>14, <2>1 DEF SndDiscard, Promise!Discard
  <1>15. ASSUME SndSave PROVE Promise!Store \/ Promise!Lose
    <2>1. /\ Undispatched # <<>> /\ Head(Undispatched) = hand
          /\ Undispatched' = Tail(Undispatched)
      BY <1>12, <1>15 DEF SndSave
    <2> QED BY <1>15, <2>1 DEF SndSave, Promise!Store, Promise!Lose
  <1>16. ASSUME NEW u \in Users, Outside(u) PROVE UNCHANGED Promise!vars
    BY <1>3, <1>16 DEF Outside, Connect, Disconnect, Stall, Resume
  <1>17. ASSUME UNCHANGED vars PROVE UNCHANGED Promise!vars
    BY <1>3, <1>17 DEF vars
  <1>20. ASSUME NEW t \in Clients, ReplayErase(t)
         PROVE  (\E u \in Users : Promise!Erase(u)) \/ UNCHANGED Promise!vars
    <2>1. /\ UNCHANGED <<ring, sndPc, hand, wire>>
          /\ \E u \in Users : offline' \in {WithoutRowsFor(offline, u), offline}
      BY <1>20 DEF ReplayErase, QueueInv, TypeOK
    <2>2. UNCHANGED <<Undispatched, wire>>
      BY <2>1 DEF Undispatched, Contents
    <2>3. \A u : Promise!WithoutRowsFor(offline, u) = WithoutRowsFor(offline, u)
      BY Zenon DEF WithoutRowsFor, Kept, Promise!WithoutRowsFor, Promise!Kept,
                   Cardinality, Promise!Cardinality
    <2>4. ASSUME offline' = offline PROVE UNCHANGED Promise!vars
      BY <2>2, <2>4 DEF Promise!vars
    <2>5. ASSUME NEW u \in Users, offline' = WithoutRowsFor(offline, u)
          PROVE  Promise!Erase(u)
      BY <2>2, <2>3, <2>5 DEF Promise!Erase
    <2> QED BY <2>1, <2>4, <2>5
  <1>18. ASSUME NEW t \in Clients, Enqueue(t) PROVE Promise!Next \/ UNCHANGED Promise!vars
    <2>1. CASE Acquire(t) \/ ReturnFull(t) \/ Release(t) \/ Finish(t)
      BY <1>6, <2>1
    <2>2. CASE StoreSlot(t)
      BY <1>7, <2>2
    <2>3. CASE AdvanceTail(t)
      BY <1>8, <2>3 DEF Promise!Next, Promise!Entry, Entry
    <2>4. CASE ReplayErase(t)
      BY <1>20, <2>4 DEF Promise!Next
    <2> QED BY <1>18, <2>1, <2>2, <2>3, <2>4 DEF Enqueue
  <1>19. ASSUME SenderStep PROVE Promise!Next \/ UNCHANGED Promise!vars
    <2>1. CASE SndLock \/ SndEmpty \/ SndUnlock \/ SndPop \/ SndLookup
      BY <1>9, <1>10, <1>11, <2>1
    <2>2. CASE SndSend
      BY <1>13, <2>2 DEF Promise!Next
    <2>3. CASE SndDiscard
      BY <1>14, <2>3 DEF Promise!Next
    <2>4. CASE SndSave
      BY <1>15, <2>4 DEF Promise!Next
    <2> QED BY <1>19, <2>1, <2>2, <2>3, <2>4 DEF SenderStep
  <1> QED BY <1>5, <1>16, <1>17, <1>18, <1>19 DEF Next

\* The queue of server.c, with its ring and its lock, is a bounded first-in
\* first-out queue for any number of client threads and any ring size: every
\* accepted message is dispatched at most once, in order, whole, and a message
\* leaves only by being sent, stored or (a receipt) discarded.
THEOREM Refinement == Spec => ImplementsMessageQueue
  <1> QED
    BY InitImplements, StepImplements, QueueInvariant, PTL
       DEF Spec, ImplementsMessageQueue, Promise!Spec

=============================================================================
