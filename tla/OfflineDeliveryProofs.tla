----------------------- MODULE OfflineDeliveryProofs -----------------------
(***************************************************************************)
(* Theorems about OfflineDelivery: types, and that outside the named races  *)
(* an accepted chat message is in exactly one place.  A place is a position *)
(* in the queue, on a wire, in the table or among the selected rows; the    *)
(* counts of ExactlyOnceButForRaces are read as "no position" and "one      *)
(* position".                                                               *)
(***************************************************************************)
EXTENDS OfflineDelivery, Counting

-----------------------------------------------------------------------------
(* Positions of a message. *)

\* No entry of s carries m.
Absent(s, m) == \A i \in 1..Len(s) : s[i].msg # m

\* One entry of s carries m.
OnceIn(s, m) == \E i \in 1..Len(s) : \A j \in 1..Len(s) : s[j].msg = m <=> j = i

\* The same of a wire, which carries messages.
NeverSent(w, m) == \A i \in 1..Len(w) : w[i] # m

SentOnce(w, m) == \E i \in 1..Len(w) : \A j \in 1..Len(w) : w[j] = m <=> j = i

\* Entries are pairs of a user and a chat message.
LEMMA EntryIs == Entry = [user : Users, msg : Chats]
  BY DEF Entry, Queue!Entry

\* An entry put at the end of a queue or of the table.
LEMMA AppendEntry ==
  ASSUME NEW s \in Seq(Entry), NEW e \in Entry
  PROVE  /\ Append(s, e) \in Seq(Entry) /\ Append(s, e) # <<>>
         /\ Len(Append(s, e)) = Len(s) + 1
         /\ \A i \in 1..(Len(s) + 1) : Append(s, e)[i] = IF i = Len(s) + 1 THEN e ELSE s[i]
         /\ \A m : e.msg # m => /\ Absent(Append(s, e), m) <=> Absent(s, m)
                                /\ OnceIn(s, m) => OnceIn(Append(s, e), m)
         /\ \A m : ~Absent(s, m) => ~Absent(Append(s, e), m)
         /\ Absent(s, e.msg) => OnceIn(Append(s, e), e.msg)
  <1> DEFINE t == Append(s, e)
  <1>1. /\ t \in Seq(Entry) /\ t # <<>> /\ Len(t) = Len(s) + 1 /\ Len(s) \in Nat
        /\ \A i \in 1..(Len(s) + 1) : t[i] = IF i = Len(s) + 1 THEN e ELSE s[i]
    BY AppendProperties, LenProperties
  <1> HIDE DEF t
  <1>2. \A i \in 1..(Len(s) + 1) : i \in 1..Len(s) \/ i = Len(s) + 1
    BY <1>1
  <1>3. Len(s) + 1 \in 1..(Len(s) + 1) /\ \A i \in 1..Len(s) : i \in 1..(Len(s) + 1) /\ i # Len(s) + 1
    BY <1>1
  <1>4. \A m : e.msg # m => (Absent(t, m) <=> Absent(s, m))
    BY <1>1, <1>2, <1>3 DEF Absent
  <1>5. ASSUME NEW m, e.msg # m, OnceIn(s, m) PROVE OnceIn(t, m)
    <2>1. PICK i \in 1..Len(s) : \A j \in 1..Len(s) : s[j].msg = m <=> j = i
      BY <1>5 DEF OnceIn
    <2>2. \A j \in 1..(Len(s) + 1) : t[j].msg = m <=> j = i
      BY <1>1, <1>2, <1>3, <1>5, <2>1
    <2> QED BY <1>1, <1>3, <2>2 DEF OnceIn
  <1>6. \A m : ~Absent(s, m) => ~Absent(t, m)
    BY <1>1, <1>3 DEF Absent
  <1>7. Absent(s, e.msg) => OnceIn(t, e.msg)
    <2> HAVE Absent(s, e.msg)
    <2>1. \A j \in 1..(Len(s) + 1) : t[j].msg = e.msg <=> j = Len(s) + 1
      BY <1>1, <1>2, <1>3 DEF Absent
    <2> QED BY <1>1, <1>3, <2>1 DEF OnceIn
  <1> QED BY <1>1, <1>4, <1>5, <1>6, <1>7 DEF t

\* A message put on a wire.
LEMMA AppendSent ==
  ASSUME NEW w \in Seq(Chats), NEW x \in Chats
  PROVE  /\ \A i \in 1..Len(Append(w, x)) :
              Append(w, x)[i] = x \/ (i \in 1..Len(w) /\ Append(w, x)[i] = w[i])
         /\ \A m : x # m => /\ NeverSent(w, m) => NeverSent(Append(w, x), m)
                            /\ SentOnce(w, m) => SentOnce(Append(w, x), m)
         /\ NeverSent(w, x) => SentOnce(Append(w, x), x)
  <1> DEFINE t == Append(w, x)
  <1>1. /\ Len(t) = Len(w) + 1 /\ Len(w) \in Nat
        /\ \A i \in 1..(Len(w) + 1) : t[i] = IF i = Len(w) + 1 THEN x ELSE w[i]
    BY AppendProperties, LenProperties
  <1> HIDE DEF t
  <1>2. \A i \in 1..(Len(w) + 1) : i \in 1..Len(w) \/ i = Len(w) + 1
    BY <1>1
  <1>3. Len(w) + 1 \in 1..(Len(w) + 1) /\ \A i \in 1..Len(w) : i \in 1..(Len(w) + 1) /\ i # Len(w) + 1
    BY <1>1
  <1>4. \A i \in 1..Len(t) : t[i] = x \/ (i \in 1..Len(w) /\ t[i] = w[i])
    BY <1>1, <1>2
  <1>5. \A m : x # m => (NeverSent(w, m) => NeverSent(t, m))
    BY <1>4 DEF NeverSent
  <1>6. ASSUME NEW m, x # m, SentOnce(w, m) PROVE SentOnce(t, m)
    <2>1. PICK i \in 1..Len(w) : \A j \in 1..Len(w) : w[j] = m <=> j = i
      BY <1>6 DEF SentOnce
    <2>2. \A j \in 1..(Len(w) + 1) : t[j] = m <=> j = i
      BY <1>1, <1>2, <1>3, <1>6, <2>1
    <2> QED BY <1>1, <1>3, <2>2 DEF SentOnce
  <1>7. NeverSent(w, x) => SentOnce(t, x)
    <2> HAVE NeverSent(w, x)
    <2>1. \A j \in 1..(Len(w) + 1) : t[j] = x <=> j = Len(w) + 1
      BY <1>1, <1>2, <1>3 DEF NeverSent
    <2> QED BY <1>1, <1>3, <2>1 DEF SentOnce
  <1> QED BY <1>4, <1>5, <1>6, <1>7 DEF t

\* The oldest entry taken from a queue.
LEMMA TakeEntry ==
  ASSUME NEW s \in Seq(Entry), s # <<>>
  PROVE  /\ Tail(s) \in Seq(Entry) /\ Head(s) \in Entry
         /\ Len(s) \in Nat /\ 1 \in 1..Len(s) /\ Head(s) = s[1] /\ Len(Tail(s)) = Len(s) - 1
         /\ \A i \in 1..Len(Tail(s)) : i + 1 \in 1..Len(s) /\ Tail(s)[i] = s[i + 1]
         /\ \A m : Head(s).msg # m => /\ Absent(s, m) => Absent(Tail(s), m)
                                      /\ OnceIn(s, m) => OnceIn(Tail(s), m)
         /\ \A m : Absent(s, m) => Absent(Tail(s), m)
         /\ OnceIn(s, Head(s).msg) => Absent(Tail(s), Head(s).msg)
         /\ ~Absent(s, Head(s).msg)
  <1> DEFINE t == Tail(s)
  <1>1. /\ t \in Seq(Entry) /\ Head(s) \in Entry /\ Head(s) = s[1] /\ Len(t) = Len(s) - 1
        /\ \A i \in 1..Len(t) : t[i] = s[i + 1]
    BY HeadTailProperties
  <1>2. Len(s) \in Nat \ {0}
    BY EmptySeq
  <1> HIDE DEF t
  <1>3. /\ 1 \in 1..Len(s)
        /\ \A i \in 1..Len(t) : i + 1 \in 1..Len(s) /\ i + 1 # 1
        /\ \A i \in 1..Len(s) : i = 1 \/ (i - 1 \in 1..Len(t) /\ (i - 1) + 1 = i)
    BY <1>1, <1>2
  <1>4. \A m : Absent(s, m) => Absent(t, m)
    BY <1>1, <1>3 DEF Absent
  <1>5. ASSUME NEW m, s[1].msg # m, OnceIn(s, m) PROVE OnceIn(t, m)
    <2>1. PICK i \in 1..Len(s) : \A j \in 1..Len(s) : s[j].msg = m <=> j = i
      BY <1>5 DEF OnceIn
    <2>2. i - 1 \in 1..Len(t) /\ (i - 1) + 1 = i
      BY <1>3, <1>5, <2>1
    <2>3. \A j \in 1..Len(t) : t[j].msg = m <=> j = i - 1
      <3> TAKE j \in 1..Len(t)
      <3>1. t[j].msg = m <=> j + 1 = i
        BY <1>1, <1>3, <2>1
      <3> QED BY <3>1
    <2> QED BY <2>2, <2>3 DEF OnceIn
  <1>6. OnceIn(s, s[1].msg) => Absent(t, s[1].msg)
    <2> HAVE OnceIn(s, s[1].msg)
    <2>1. PICK i \in 1..Len(s) : \A j \in 1..Len(s) : s[j].msg = s[1].msg <=> j = i
      BY DEF OnceIn
    <2>2. i = 1
      BY <1>3, <2>1
    <2> QED BY <1>1, <1>3, <2>1, <2>2 DEF Absent
  <1>7. ~Absent(s, s[1].msg)
    BY <1>3 DEF Absent
  <1> QED BY <1>1, <1>2, <1>3, <1>4, <1>5, <1>6, <1>7 DEF t

\* What a select or a delete leaves: the entries at some positions, each once.
LEMMA KeptEntries ==
  ASSUME NEW s \in Seq(Entry), NEW I \in SUBSET (1..Len(s))
  PROVE  /\ Kept(s, I) \in Seq(Entry)
         /\ \A k \in 1..Len(Kept(s, I)) : \E i \in I : Kept(s, I)[k] = s[i]
         /\ \A m : (\A i \in I : s[i].msg # m) => Absent(Kept(s, I), m)
         /\ \A m : Absent(s, m) => Absent(Kept(s, I), m)
         /\ \A m : (\A i \in 1..Len(s) : s[i].msg = m => i \in I) =>
                     /\ Absent(Kept(s, I), m) => Absent(s, m)
                     /\ OnceIn(s, m) => OnceIn(Kept(s, I), m)
  <1> DEFINE n == Cardinality(I)
             rank(i) == Cardinality({j \in I : j < i})
             at == [k \in 1..n |-> CHOOSE i \in I : rank(i) = k - 1]
             t == Kept(s, I)
  <1>1. Len(s) \in Nat /\ \A i \in 1..Len(s) : s[i] \in Entry
    BY LenProperties, ElementOfSeq
  <1>2. IsFiniteSet(I) /\ n \in Nat
    <2>1. IsFiniteSet(1..Len(s))
      BY <1>1, FS_Interval
    <2> QED BY <2>1, FS_Subset, FS_CardinalityType
  <1>3. I \subseteq Nat
    BY <1>1
  <1>6. /\ \A i \in I : rank(i) + 1 \in 1..n
        /\ \A i, j \in I : rank(i) = rank(j) => i = j
        /\ \A k \in 1..n : \E i \in I : rank(i) = k - 1
        /\ \A i \in I : rank(i) \in Nat
    <2>1. /\ \A i \in I : rank(i) \in 0..(n - 1)
          /\ \A i, j \in I : rank(i) = rank(j) => i = j
          /\ \A k \in 1..n : \E i \in I : rank(i) = k - 1
      BY <1>1, NumbersRanked
    <2> HIDE DEF rank, n
    <2> QED BY <1>2, <2>1
  <1>7. t = [k \in 1..n |-> s[at[k]]]
    BY DEF Kept
  <1> HIDE DEF n, rank, t
  <1>8. \A k \in 1..n : at[k] \in I /\ rank(at[k]) = k - 1
    BY <1>6
  <1>9. \A i \in I : at[rank(i) + 1] = i
    <2> TAKE i \in I
    <2>1. rank(i) + 1 \in 1..n /\ rank(i) \in Nat
      BY <1>6
    <2>2. at[rank(i) + 1] \in I /\ rank(at[rank(i) + 1]) = rank(i)
      <3> HIDE DEF at
      <3> QED BY <1>8, <2>1
    <2> QED BY <1>6, <2>2
  <1> HIDE DEF at
  <1>10. t \in Seq(Entry) /\ Len(t) = n /\ \A k \in 1..n : t[k] = s[at[k]]
    <2>1. \A k \in 1..n : s[at[k]] \in Entry
      BY <1>1, <1>8
    <2> QED BY <1>2, <1>7, <2>1
  <1>11. \A m : (\A i \in I : s[i].msg # m) => Absent(t, m)
    BY <1>8, <1>10 DEF Absent
  <1>12. \A m : Absent(s, m) => Absent(t, m)
    BY <1>11 DEF Absent
  <1>13. ASSUME NEW m, \A i \in 1..Len(s) : s[i].msg = m => i \in I
         PROVE  /\ Absent(t, m) => Absent(s, m)
                /\ OnceIn(s, m) => OnceIn(t, m)
    <2>1. ASSUME Absent(t, m), NEW i \in 1..Len(s), s[i].msg = m PROVE FALSE
      <3>1. i \in I /\ rank(i) + 1 \in 1..n
        BY <1>6, <1>13, <2>1
      <3>2. t[rank(i) + 1] = s[i]
        BY <1>9, <1>10, <3>1
      <3> QED BY <1>10, <2>1, <3>1, <3>2 DEF Absent
    <2>2. ASSUME OnceIn(s, m) PROVE OnceIn(t, m)
      <3>1. PICK i \in 1..Len(s) : \A j \in 1..Len(s) : s[j].msg = m <=> j = i
        BY <2>2 DEF OnceIn
      <3>2. i \in I /\ rank(i) + 1 \in 1..n /\ rank(i) \in Nat
        BY <1>6, <1>13, <3>1
      <3>3. \A k \in 1..n : t[k].msg = m <=> k = rank(i) + 1
        <4> TAKE k \in 1..n
        <4>1. t[k].msg = m <=> at[k] = i
          BY <1>8, <1>10, <3>1
        <4>2. at[k] = i => k = rank(i) + 1
          BY <1>2, <1>8, <3>2
        <4>3. k = rank(i) + 1 => at[k] = i
          BY <1>9, <3>2
        <4> QED BY <4>1, <4>2, <4>3
      <3> QED BY <1>10, <3>2, <3>3 DEF OnceIn
    <2> QED BY <2>1, <2>2 DEF Absent
  <1> QED BY <1>8, <1>10, <1>11, <1>12, <1>13 DEF t

\* The messages that entries carry.
LEMMA CarriedChats ==
  ASSUME NEW s \in Seq(Entry)
  PROVE  ChatsIn(s) \subseteq Chats /\ \A m : m \in ChatsIn(s) <=> ~Absent(s, m)
  <1>1. DOMAIN s = 1..Len(s) /\ \A i \in 1..Len(s) : s[i] \in Entry
    BY LenProperties, ElementOfSeq
  <1>2. \A i \in 1..Len(s) : s[i].msg \in Chats
    BY <1>1, EntryIs
  <1> QED BY <1>1, <1>2 DEF ChatsIn, Absent

\* What a select of the rows of u, and what their delete, makes of the table.
LEMMA SelectedRows ==
  ASSUME TypeOK, NEW u
  PROVE  /\ RowsOf(u) \in Seq(Entry) /\ RowsOfOthers(u) \in Seq(Entry)
         /\ \A k \in 1..Len(RowsOf(u)) :
              \E i \in 1..Len(offline) : RowsOf(u)[k] = offline[i] /\ offline[i].user = u
         /\ \A k \in 1..Len(RowsOfOthers(u)) :
              \E i \in 1..Len(offline) : RowsOfOthers(u)[k] = offline[i]
         /\ \A m : Absent(offline, m) => Absent(RowsOf(u), m) /\ Absent(RowsOfOthers(u), m)
         /\ \A m : (\A i \in 1..Len(offline) : offline[i].msg = m => offline[i].user = u) =>
                     /\ Absent(RowsOf(u), m) => Absent(offline, m)
                     /\ OnceIn(offline, m) => OnceIn(RowsOf(u), m)
                     /\ Absent(RowsOfOthers(u), m)
         /\ \A m : (\A i \in 1..Len(offline) : offline[i].msg = m => offline[i].user # u) =>
                     /\ Absent(RowsOfOthers(u), m) => Absent(offline, m)
                     /\ OnceIn(offline, m) => OnceIn(RowsOfOthers(u), m)
         /\ \A m : m \in ChatsIn(RowsOf(u)) <=> ~Absent(RowsOf(u), m)
  <1> DEFINE I == {i \in DOMAIN offline : offline[i].user = u}
             J == {i \in DOMAIN offline : offline[i].user # u}
  <1>1. offline \in Seq(Entry) /\ DOMAIN offline = 1..Len(offline)
    BY LenProperties DEF TypeOK
  <1>2. /\ I \in SUBSET (1..Len(offline)) /\ J \in SUBSET (1..Len(offline))
        /\ \A i \in 1..Len(offline) : i \in I <=> offline[i].user = u
        /\ \A i \in 1..Len(offline) : i \in J <=> offline[i].user # u
    BY <1>1
  <1>3. RowsOf(u) = Kept(offline, I) /\ RowsOfOthers(u) = Kept(offline, J)
    BY DEF RowsOf, RowsOfOthers, RowsFor, WithoutRowsFor
  <1> HIDE DEF I, J
  <1>4. /\ RowsOf(u) \in Seq(Entry)
        /\ \A k \in 1..Len(RowsOf(u)) : \E i \in I : RowsOf(u)[k] = offline[i]
        /\ \A m : Absent(offline, m) => Absent(RowsOf(u), m)
        /\ \A m : (\A i \in 1..Len(offline) : offline[i].msg = m => i \in I) =>
                     /\ Absent(RowsOf(u), m) => Absent(offline, m)
                     /\ OnceIn(offline, m) => OnceIn(RowsOf(u), m)
    BY <1>1, <1>2, <1>3, KeptEntries
  <1>5. /\ RowsOfOthers(u) \in Seq(Entry)
        /\ \A k \in 1..Len(RowsOfOthers(u)) : \E i \in J : RowsOfOthers(u)[k] = offline[i]
        /\ \A m : (\A i \in J : offline[i].msg # m) => Absent(RowsOfOthers(u), m)
        /\ \A m : Absent(offline, m) => Absent(RowsOfOthers(u), m)
        /\ \A m : (\A i \in 1..Len(offline) : offline[i].msg = m => i \in J) =>
                     /\ Absent(RowsOfOthers(u), m) => Absent(offline, m)
                     /\ OnceIn(offline, m) => OnceIn(RowsOfOthers(u), m)
    BY <1>1, <1>2, <1>3, KeptEntries
  <1>6. \A m : m \in ChatsIn(RowsOf(u)) <=> ~Absent(RowsOf(u), m)
    BY <1>4, CarriedChats
  <1>7. /\ \A k \in 1..Len(RowsOf(u)) :
             \E i \in 1..Len(offline) : RowsOf(u)[k] = offline[i] /\ offline[i].user = u
        /\ \A k \in 1..Len(RowsOfOthers(u)) :
             \E i \in 1..Len(offline) : RowsOfOthers(u)[k] = offline[i]
    BY <1>2, <1>4, <1>5
  <1>8. ASSUME NEW m, \A i \in 1..Len(offline) : offline[i].msg = m => offline[i].user = u
        PROVE  /\ Absent(RowsOf(u), m) => Absent(offline, m)
               /\ OnceIn(offline, m) => OnceIn(RowsOf(u), m)
               /\ Absent(RowsOfOthers(u), m)
    <2>1. \A i \in 1..Len(offline) : offline[i].msg = m => i \in I
      BY <1>2, <1>8
    <2>2. \A i \in J : offline[i].msg # m
      BY <1>2, <1>8
    <2> QED BY <1>4, <1>5, <2>1, <2>2
  <1>9. \A m : (\A i \in 1..Len(offline) : offline[i].msg = m => offline[i].user # u) =>
              /\ Absent(RowsOfOthers(u), m) => Absent(offline, m)
              /\ OnceIn(offline, m) => OnceIn(RowsOfOthers(u), m)
    BY <1>2, <1>5
  <1> QED BY <1>4, <1>5, <1>6, <1>7, <1>8, <1>9

-----------------------------------------------------------------------------
(* Types. *)

\* An entry is accepted and well-formed, or it is dropped.
LEMMA EnqueueCases ==
  ASSUME NEW e \in Entry, Enqueue(e)
  PROVE  /\ decision = "none" /\ decision' = "none"
         /\ UNCHANGED <<wire, offline, logins, restarts>>
         /\ \/ queue' = Append(queue, e) /\ Len(queue) < Capacity - 1 /\ UNCHANGED <<halted, atRisk, faults>>
            \/ /\ queue' = queue /\ halted' = TRUE /\ atRisk' = atRisk \union {e.msg}
               /\ faults' = faults \/ (faults < MaxFaults /\ faults' = faults + 1)
  BY DEF Enqueue, QueueFree, Accept, Drop, Fault, Queue!Put, store

\* Either way the types are kept.
LEMMA EnqueueTypes ==
  ASSUME TypeOK, NEW e \in Entry, Enqueue(e)
  PROVE  /\ queue' \in Seq(Entry) /\ Len(queue') < Capacity
         /\ decision' = "none" /\ halted' \in BOOLEAN
         /\ atRisk' \subseteq Chats /\ faults' \in 0..MaxFaults
         /\ UNCHANGED <<wire, offline, logins, restarts>>
  <1>1. /\ Append(queue, e) \in Seq(Entry) /\ Len(Append(queue, e)) = Len(queue) + 1
        /\ Len(queue) \in Nat
    BY AppendEntry, LenProperties DEF TypeOK
  <1>2. e.msg \in Chats
    BY EntryIs
  <1>3. /\ decision' = "none"
        /\ UNCHANGED <<wire, offline, logins, restarts>>
        /\ \/ queue' = Append(queue, e) /\ Len(queue) < Capacity - 1 /\ UNCHANGED <<halted, atRisk, faults>>
           \/ /\ queue' = queue /\ halted' = TRUE /\ atRisk' = atRisk \union {e.msg}
              /\ faults' = faults \/ (faults < MaxFaults /\ faults' = faults + 1)
    BY EnqueueCases
  <1>4. queue' \in Seq(Entry) /\ Len(queue') < Capacity
    <2>1. CASE queue' = queue
      BY <2>1 DEF TypeOK
    <2>2. CASE queue' = Append(queue, e) /\ Len(queue) < Capacity - 1
      BY <1>1, <2>2, CapacityAssumption
    <2> QED BY <1>3, <2>1, <2>2
  <1>5. faults' \in 0..MaxFaults
    BY <1>3, BoundsAssumption DEF TypeOK
  <1> QED BY <1>2, <1>3, <1>4, <1>5 DEF TypeOK

\* What the send thread does with the oldest entry keeps the store's types.
LEMMA TakeTypes ==
  ASSUME TypeOK, Queue!Send \/ Queue!Store \/ Queue!Lose
  PROVE  /\ queue' \in Seq(Entry) /\ Len(queue') < Capacity /\ Head(queue).msg \in Chats
         /\ wire' \in [Users -> Seq(Chats)] /\ offline' \in Seq(Entry)
  <1>1. queue # <<>> /\ queue' = Tail(queue)
    BY DEF Queue!Send, Queue!Store, Queue!Lose
  <1>a. /\ Tail(queue) \in Seq(Entry) /\ Head(queue) \in Entry
        /\ Len(Tail(queue)) = Len(queue) - 1 /\ Len(queue) \in Nat
    BY <1>1, TakeEntry DEF TypeOK
  <1>2. /\ Tail(queue) \in Seq(Entry) /\ Head(queue) \in Entry
        /\ Len(Tail(queue)) < Capacity /\ Head(queue).msg \in Chats
    BY <1>a, EntryIs, CapacityAssumption DEF TypeOK
  <1>3. CASE Queue!Send
    <2>1. /\ wire' = [wire EXCEPT ![Head(queue).user] = Append(@, Head(queue).msg)]
          /\ offline' = offline
      BY <1>3 DEF Queue!Send
    <2>2. Head(queue).user \in Users /\ Head(queue).msg \in Chats
      BY <1>2, EntryIs
    <2>3. Append(wire[Head(queue).user], Head(queue).msg) \in Seq(Chats)
      BY <2>2, AppendProperties DEF TypeOK
    <2> QED BY <1>1, <1>2, <2>1, <2>2, <2>3 DEF TypeOK
  <1>4. CASE Queue!Store
    <2>1. offline' = Append(offline, Head(queue)) /\ wire' = wire
      BY <1>4 DEF Queue!Store
    <2> QED BY <1>1, <1>2, <2>1, AppendEntry DEF TypeOK
  <1>5. CASE Queue!Lose
    BY <1>1, <1>2, <1>5 DEF Queue!Lose, TypeOK
  <1> QED BY <1>3, <1>4, <1>5

\* Every action keeps the types.
LEMMA TypeStep == TypeOK /\ [Next]_vars => TypeOK'
  <1> SUFFICES ASSUME TypeOK, [Next]_vars PROVE TypeOK'
    OBVIOUS
  <1> USE DEF TypeOK
  <1>1. ASSUME NEW m \in Chats, NEW u \in Users, Relay(m, u) PROVE TypeOK'
    <2>1. [user |-> u, msg |-> m] \in Entry
      BY EntryIs
    <2>2. /\ queue' \in Seq(Entry) /\ Len(queue') < Capacity
          /\ decision' = "none" /\ halted' \in BOOLEAN
          /\ atRisk' \subseteq Chats /\ faults' \in 0..MaxFaults
          /\ UNCHANGED <<wire, offline, logins, restarts>>
      BY <1>1, <2>1, EnqueueTypes DEF Relay
    <2> QED BY <1>1, <2>2 DEF Relay, login
  <1>2. CASE SndLookup
    BY <1>2 DEF SndLookup, store, login, history, counts
  <1>3. CASE SndSend
    BY <1>3, TakeTypes DEF SndSend, login, history, counts
  <1>4. CASE SndSave
    BY <1>4, TakeTypes DEF SndSave, login, counts
  <1>14. CASE SndSaveFails
    <2>1. faults' \in 0..MaxFaults
      BY <1>14, BoundsAssumption DEF SndSaveFails, Fault
    <2> QED BY <1>14, <2>1, TakeTypes DEF SndSaveFails, login
  <1>15. CASE Halt
    <2>1. faults' \in 0..MaxFaults
      BY <1>15, BoundsAssumption DEF Halt, Fault
    <2> QED BY <1>15, <2>1 DEF Halt, store, login, history
  <1>5. ASSUME NEW c \in Conns, NEW b \in Conns, LoginFound(c, b) PROVE TypeOK'
    BY <1>5 DEF LoginFound, store, sender, history, counts
  <1>6. ASSUME NEW c \in Conns, NEW u \in Users, LoginNotFound(c, u) PROVE TypeOK'
    BY <1>6, BoundsAssumption DEF LoginNotFound, store, sender, history
  <1>7. ASSUME NEW c \in Conns, LoginSet(c) PROVE TypeOK'
    BY <1>7 DEF LoginSet, store, sender, history, counts
  <1>8. ASSUME NEW c \in Conns, ReplaySelect(c) PROVE TypeOK'
    <2>1. RowsOf(who[c]) \in Seq(Entry)
      BY SelectedRows
    <2>2. ChatsIn(RowsOf(who[c])) \subseteq Chats
      BY <2>1, CarriedChats
    <2> QED BY <1>8, <2>1, <2>2 DEF ReplaySelect, store, sender, counts
  <1>9. ASSUME NEW c \in Conns, ReplayRow(c) PROVE TypeOK'
    <2>1. Head(rows[c]) \in Entry /\ Tail(rows[c]) \in Seq(Entry)
      BY <1>9, TakeEntry DEF ReplayRow
    <2>2. /\ queue' \in Seq(Entry) /\ Len(queue') < Capacity
          /\ decision' = "none" /\ halted' \in BOOLEAN
          /\ atRisk' \subseteq Chats /\ faults' \in 0..MaxFaults
          /\ UNCHANGED <<wire, offline, logins, restarts>>
      BY <1>9, <2>1, EnqueueTypes DEF ReplayRow
    <2> QED BY <1>9, <2>1, <2>2 DEF ReplayRow
  <1>10. ASSUME NEW c \in Conns, ReplayErase(c) PROVE TypeOK'
    BY <1>10, SelectedRows DEF ReplayErase, sender, history, counts
  <1>11. ASSUME NEW c \in Conns, Leave(c) PROVE TypeOK'
    BY <1>11 DEF Leave, store, sender, history, counts
  <1>12. CASE Restart
    <2>1. ChatsIn(queue) \subseteq Chats
      BY CarriedChats
    <2>2. \A u : ChatsIn(RowsOf(u)) \subseteq Chats
      BY SelectedRows, CarriedChats
    <2>3. atRisk' \subseteq Chats
      BY <1>12, <2>1, <2>2 DEF Restart
    <2>4. queue' \in Seq(Entry) /\ Len(queue') < Capacity
      <3>1. queue' = <<>>
        BY <1>12 DEF Restart
      <3> QED BY <3>1, CapacityAssumption
    <2>5. restarts' \in 0..MaxRestarts
      BY <1>12, BoundsAssumption DEF Restart
    <2>6. rows' \in [Conns -> Seq(Entry)]
      BY <1>12 DEF Restart
    <2> QED BY <1>12, <2>3, <2>4, <2>5, <2>6 DEF Restart
  <1>13. CASE UNCHANGED vars
    BY <1>13 DEF vars, store, sender, login, history, counts
  <1>16. ASSUME NEW c \in Conns, ReplayEraseFails(c) PROVE TypeOK'
    <2>1. ChatsIn(RowsOf(who[c])) \subseteq Chats
      BY SelectedRows, CarriedChats
    <2>2. faults' \in 0..MaxFaults
      BY <1>16, BoundsAssumption DEF ReplayEraseFails, Fault
    <2> QED BY <1>16, <2>1, <2>2 DEF ReplayEraseFails, store, sender
  <1> QED BY <1>1, <1>2, <1>3, <1>4, <1>5, <1>6, <1>7, <1>8, <1>9, <1>10, <1>11, <1>12, <1>13,
             <1>14, <1>15, <1>16
          DEF Next, SenderStep, LoginStep

\* The types hold at first.
LEMMA TypeInit == Init => TypeOK
  <1> SUFFICES ASSUME Init PROVE TypeOK
    OBVIOUS
  <1>1. queue = <<>> /\ offline = <<>> /\ wire = [u \in Users |-> <<>>]
    BY DEF Init, Queue!Init
  <1>2. <<>> \in Seq(Entry) /\ <<>> \in Seq(Chats)
    BY EmptySeq
  <1>3. Len(queue) < Capacity
    BY <1>1, CapacityAssumption
  <1>4. queue \in Seq(Entry) /\ offline \in Seq(Entry) /\ wire \in [Users -> Seq(Chats)]
    BY <1>1, <1>2
  <1>5. logins \in 0..MaxLogins /\ restarts \in 0..MaxRestarts /\ faults \in 0..MaxFaults
    BY BoundsAssumption DEF Init
  <1>6. rows \in [Conns -> Seq(Entry)]
    BY <1>2 DEF Init
  <1> QED BY <1>3, <1>4, <1>5, <1>6 DEF Init, TypeOK

\* The variables keep their types, for any number of connections, users, chats,
\* logins and restarts: what the send thread has decided about is there.
THEOREM OfflineTypeCorrect == Spec => []TypeOK
  BY TypeInit, TypeStep, PTL DEF Spec
-----------------------------------------------------------------------------
(* Every accepted message has one place. *)

\* The messages that entries carry are on their way to the users named in them.
Addressed(s, to) == \A i \in 1..Len(s) : to[s[i].msg] = s[i].user

AddressInv ==
  /\ Addressed(queue, addressee)
  /\ Addressed(offline, addressee)
  /\ \A c \in Conns : Addressed(rows[c], addressee)
  /\ \A u \in Users : \A i \in 1..Len(wire[u]) : addressee[wire[u][i]] = u

\* A login replays rows of its own user only.
RowsInv ==
  \A c \in Conns : pc[c] = "replay" => \A i \in 1..Len(rows[c]) : rows[c][i].user = who[c]

\* m is not waiting for a login of u: it is not in the table or, if the rows of
\* u have been selected, not among those still to be enqueued.
NotWaiting(m, u) ==
  IF Replaying(u) = {} THEN Absent(offline, m)
                       ELSE \A c \in Replaying(u) : Absent(rows[c], m)

\* m is waiting once.  If it has been selected, then by one login only, and it
\* is still in the table.
WaitingOnce(m, u) ==
  IF Replaying(u) = {} THEN OnceIn(offline, m)
                       ELSE /\ ~Absent(offline, m)
                            /\ \E c \in Conns : Replaying(u) = {c} /\ OnceIn(rows[c], m)

OnePlace(m, u) ==
  \/ OnceIn(queue, m) /\ NeverSent(wire[u], m) /\ NotWaiting(m, u)
  \/ Absent(queue, m) /\ SentOnce(wire[u], m) /\ NotWaiting(m, u)
  \/ Absent(queue, m) /\ NeverSent(wire[u], m) /\ WaitingOnce(m, u)

PlaceInv ==
  \A m \in Chats, u \in Users : addressee[m] = u /\ m \notin atRisk => OnePlace(m, u)

DeliveryInv == TypeOK /\ AddressInv /\ RowsInv /\ PlaceInv

\* Where the entries of a longer or a shorter sequence are going.
LEMMA AddressedEntries ==
  ASSUME NEW s \in Seq(Entry), NEW to, Addressed(s, to)
  PROVE  /\ \A e \in Entry : to[e.msg] = e.user => Addressed(Append(s, e), to)
         /\ s # <<>> => Addressed(Tail(s), to) /\ to[Head(s).msg] = Head(s).user
  <1>1. ASSUME NEW e \in Entry, to[e.msg] = e.user PROVE Addressed(Append(s, e), to)
    <2>1. /\ Len(Append(s, e)) = Len(s) + 1 /\ Len(s) \in Nat
          /\ \A i \in 1..(Len(s) + 1) : Append(s, e)[i] = IF i = Len(s) + 1 THEN e ELSE s[i]
      BY AppendEntry, LenProperties
    <2>2. \A i \in 1..(Len(s) + 1) : i = Len(s) + 1 \/ i \in 1..Len(s)
      BY <2>1
    <2> QED BY <1>1, <2>1, <2>2 DEF Addressed
  <1>2. s # <<>> => Addressed(Tail(s), to) /\ to[Head(s).msg] = Head(s).user
    BY TakeEntry DEF Addressed
  <1> QED BY <1>1, <1>2

\* A message nobody has accepted is nowhere.
LEMMA Nowhere ==
  ASSUME TypeOK, AddressInv, NEW m \in Chats, addressee[m] = NoUser
  PROVE  /\ Absent(queue, m) /\ Absent(offline, m) /\ \A c \in Conns : Absent(rows[c], m)
         /\ \A u \in Users : NeverSent(wire[u], m)
  <1>1. ASSUME NEW s \in Seq(Entry), Addressed(s, addressee) PROVE Absent(s, m)
    <2>1. \A i \in 1..Len(s) : s[i] \in Entry
      BY ElementOfSeq
    <2>2. \A i \in 1..Len(s) : s[i].user \in Users
      BY <2>1, EntryIs
    <2> QED BY <1>1, <2>2, NoUserAssumption DEF Addressed, Absent
  <1>2. \A u \in Users : NeverSent(wire[u], m)
    BY NoUserAssumption DEF AddressInv, NeverSent
  <1> QED BY <1>1, <1>2 DEF TypeOK, AddressInv

\* Every action keeps what is under way addressed, and a login to its user.
LEMMA AddressStep ==
  TypeOK /\ AddressInv /\ RowsInv /\ [Next]_vars => AddressInv' /\ RowsInv'
  <1> SUFFICES ASSUME TypeOK, AddressInv, RowsInv, [Next]_vars PROVE AddressInv' /\ RowsInv'
    OBVIOUS
  <1>0. /\ queue \in Seq(Entry) /\ offline \in Seq(Entry) /\ \A c \in Conns : rows[c] \in Seq(Entry)
        /\ \A m \in Chats : addressee[m] \in Users \union {NoUser}
        /\ rows \in [Conns -> Seq(Entry)] /\ pc \in [Conns -> {"recv", "set", "select", "replay"}]
        /\ who \in [Conns -> Users \union {NoUser}] /\ wire \in [Users -> Seq(Chats)]
    BY DEF TypeOK
  <1>1. ASSUME NEW m \in Chats, NEW u \in Users, Relay(m, u) PROVE AddressInv' /\ RowsInv'
    <2>0. [user |-> u, msg |-> m] \in Entry
      BY EntryIs
    <2>1. /\ addressee[m] = NoUser /\ addressee' = [addressee EXCEPT ![m] = u]
          /\ queue' \in {queue, Append(queue, [user |-> u, msg |-> m])}
          /\ UNCHANGED <<wire, offline, rows, pc, who>>
      BY <1>1, <2>0, EnqueueCases DEF Relay, login
    <2>2. addressee' \in [Chats -> Users \union {NoUser}]
      BY <1>1, TypeStep, <2>1 DEF TypeOK
    <2>3. addressee'[m] = u /\ \A x \in Chats : x # m => addressee'[x] = addressee[x]
      BY <2>1 DEF TypeOK
    <2>4. ASSUME NEW s \in Seq(Entry), Addressed(s, addressee), Absent(s, m) PROVE Addressed(s, addressee')
      <3>1. \A i \in 1..Len(s) : s[i] \in Entry
        BY ElementOfSeq
      <3>2. \A i \in 1..Len(s) : s[i].msg \in Chats
        BY <3>1, EntryIs
      <3> QED BY <2>3, <2>4, <3>2 DEF Addressed, Absent
    <2>5. /\ Absent(queue, m) /\ Absent(offline, m) /\ \A c \in Conns : Absent(rows[c], m)
          /\ \A v \in Users : NeverSent(wire[v], m)
      BY <2>1, Nowhere
    <2>6. /\ Addressed(queue, addressee') /\ Addressed(offline, addressee')
          /\ \A c \in Conns : Addressed(rows[c], addressee')
      BY <1>0, <2>4, <2>5 DEF AddressInv
    <2>7. Addressed(queue', addressee')
      <3>1. Addressed(Append(queue, [user |-> u, msg |-> m]), addressee')
        BY <1>0, <2>0, <2>3, <2>6, AddressedEntries
      <3> QED BY <2>1, <2>6, <3>1
    <2>8. \A v \in Users : \A i \in 1..Len(wire[v]) : addressee'[wire[v][i]] = v
      <3>1. \A v \in Users : \A i \in 1..Len(wire[v]) : wire[v][i] \in Chats
        BY <1>0, ElementOfSeq
      <3> QED BY <2>3, <2>5, <3>1 DEF AddressInv, NeverSent
    <2> QED BY <2>1, <2>6, <2>7, <2>8 DEF AddressInv, RowsInv
  <1>2. CASE SndLookup
    BY <1>2 DEF SndLookup, store, login, history, AddressInv, RowsInv
  <1>3. CASE SndSend
    <2>1. /\ queue # <<>> /\ queue' = Tail(queue)
          /\ wire' = [wire EXCEPT ![Head(queue).user] = Append(@, Head(queue).msg)]
          /\ UNCHANGED <<offline, rows, addressee, pc, who>>
      BY <1>3 DEF SndSend, Queue!Send, login, history
    <2>2. Head(queue) \in Entry
      BY <1>0, <2>1, TakeEntry
    <2>3. Head(queue).user \in Users /\ Head(queue).msg \in Chats
      BY <2>2, EntryIs
    <2>4. Addressed(Tail(queue), addressee) /\ addressee[Head(queue).msg] = Head(queue).user
      BY <1>0, <2>1, AddressedEntries DEF AddressInv
    <2>5. ASSUME NEW u \in Users, NEW i \in 1..Len(wire'[u]) PROVE addressee[wire'[u][i]] = u
      <3>1. CASE u = Head(queue).user
        <4>1. wire'[u] = Append(wire[u], Head(queue).msg) /\ wire[u] \in Seq(Chats)
          BY <1>0, <2>1, <3>1
        <4>2. wire'[u][i] = Head(queue).msg \/ (i \in 1..Len(wire[u]) /\ wire'[u][i] = wire[u][i])
          BY <2>3, <2>5, <4>1, AppendSent
        <4> QED BY <2>4, <3>1, <4>2 DEF AddressInv
      <3>2. CASE u # Head(queue).user
        BY <1>0, <2>1, <2>5, <3>2 DEF AddressInv
      <3> QED BY <3>1, <3>2
    <2> QED BY <2>1, <2>4, <2>5 DEF AddressInv, RowsInv
  <1>4. CASE SndSave
    <2>1. /\ queue # <<>> /\ queue' = Tail(queue) /\ offline' = Append(offline, Head(queue))
          /\ UNCHANGED <<wire, rows, addressee, pc, who>>
      BY <1>4 DEF SndSave, Queue!Store, login
    <2>2. Head(queue) \in Entry
      BY <1>0, <2>1, TakeEntry
    <2>3. Addressed(Tail(queue), addressee) /\ addressee[Head(queue).msg] = Head(queue).user
      BY <1>0, <2>1, AddressedEntries DEF AddressInv
    <2>4. Addressed(Append(offline, Head(queue)), addressee)
      BY <1>0, <2>2, <2>3, AddressedEntries DEF AddressInv
    <2> QED BY <2>1, <2>3, <2>4 DEF AddressInv, RowsInv
  <1>14. CASE SndSaveFails
    <2>1. /\ queue # <<>> /\ queue' = Tail(queue)
          /\ UNCHANGED <<wire, offline, rows, addressee, pc, who>>
      BY <1>14 DEF SndSaveFails, Queue!Lose, login
    <2>2. Addressed(Tail(queue), addressee)
      BY <1>0, <2>1, AddressedEntries DEF AddressInv
    <2> QED BY <2>1, <2>2 DEF AddressInv, RowsInv
  <1>15. CASE Halt
    BY <1>15 DEF Halt, store, login, history, AddressInv, RowsInv
  <1>16. ASSUME NEW c \in Conns, ReplayEraseFails(c) PROVE AddressInv' /\ RowsInv'
    <2>1. /\ pc' = [pc EXCEPT ![c] = "recv"] /\ who' = [who EXCEPT ![c] = NoUser]
          /\ UNCHANGED <<queue, wire, offline, rows, addressee>>
      BY <1>16 DEF ReplayEraseFails, store
    <2>2. \A b \in Conns : pc'[b] = "replay" => b # c /\ pc[b] = "replay" /\ who'[b] = who[b]
      BY <1>0, <2>1
    <2> QED BY <2>1, <2>2 DEF AddressInv, RowsInv
  <1>5. ASSUME NEW c \in Conns, NEW b \in Conns, LoginFound(c, b) PROVE AddressInv' /\ RowsInv'
    BY <1>5 DEF LoginFound, store, history, AddressInv, RowsInv
  <1>6. ASSUME NEW c \in Conns, NEW u \in Users, LoginNotFound(c, u) PROVE AddressInv' /\ RowsInv'
    BY <1>0, <1>6 DEF LoginNotFound, store, history, AddressInv, RowsInv
  <1>7. ASSUME NEW c \in Conns, LoginSet(c) PROVE AddressInv' /\ RowsInv'
    BY <1>0, <1>7 DEF LoginSet, store, history, AddressInv, RowsInv
  <1>8. ASSUME NEW c \in Conns, ReplaySelect(c) PROVE AddressInv' /\ RowsInv'
    <2>1. /\ rows' = [rows EXCEPT ![c] = RowsOf(who[c])] /\ pc' = [pc EXCEPT ![c] = "replay"]
          /\ UNCHANGED <<queue, wire, offline, who, addressee>>
      BY <1>8 DEF ReplaySelect, store
    <2>2. \A k \in 1..Len(RowsOf(who[c])) :
            \E i \in 1..Len(offline) : RowsOf(who[c])[k] = offline[i] /\ offline[i].user = who[c]
      BY SelectedRows
    <2>3. /\ Addressed(RowsOf(who[c]), addressee)
          /\ \A k \in 1..Len(RowsOf(who[c])) : RowsOf(who[c])[k].user = who[c]
      BY <2>2 DEF Addressed, AddressInv
    <2>4. \A b \in Conns : rows'[b] = IF b = c THEN RowsOf(who[c]) ELSE rows[b]
      BY <1>0, <2>1
    <2>5. \A b \in Conns : b # c => pc'[b] = pc[b]
      BY <1>0, <2>1
    <2> QED BY <2>1, <2>3, <2>4, <2>5 DEF AddressInv, RowsInv
  <1>9. ASSUME NEW c \in Conns, ReplayRow(c) PROVE AddressInv' /\ RowsInv'
    <2>0. pc[c] = "replay" /\ rows[c] # <<>> /\ Head(rows[c]) \in Entry
      BY <1>0, <1>9, TakeEntry DEF ReplayRow
    <2>1. /\ pc[c] = "replay" /\ rows[c] # <<>>
          /\ queue' \in {queue, Append(queue, Head(rows[c]))}
          /\ rows' = [rows EXCEPT ![c] = Tail(@)] /\ UNCHANGED <<wire, offline, who, addressee, pc>>
      BY <1>9, <2>0, EnqueueCases DEF ReplayRow
    <2>2. /\ Head(rows[c]) \in Entry /\ Addressed(Tail(rows[c]), addressee)
          /\ addressee[Head(rows[c]).msg] = Head(rows[c]).user
          /\ \A i \in 1..Len(Tail(rows[c])) : i + 1 \in 1..Len(rows[c]) /\ Tail(rows[c])[i] = rows[c][i + 1]
      BY <1>0, <2>1, TakeEntry, AddressedEntries DEF AddressInv
    <2>3. Addressed(Append(queue, Head(rows[c])), addressee)
      BY <1>0, <2>2, AddressedEntries DEF AddressInv
    <2>4. \A b \in Conns : rows'[b] = IF b = c THEN Tail(rows[c]) ELSE rows[b]
      BY <1>0, <2>1
    <2>5. \A i \in 1..Len(Tail(rows[c])) : Tail(rows[c])[i].user = who[c]
      BY <2>1, <2>2 DEF RowsInv
    <2>6. Addressed(queue', addressee)
      BY <2>1, <2>3 DEF AddressInv
    <2> QED BY <2>1, <2>2, <2>4, <2>5, <2>6 DEF AddressInv, RowsInv
  <1>10. ASSUME NEW c \in Conns, ReplayErase(c) PROVE AddressInv' /\ RowsInv'
    <2>1. /\ offline' = RowsOfOthers(who[c]) /\ pc' = [pc EXCEPT ![c] = "recv"]
          /\ who' = [who EXCEPT ![c] = NoUser] /\ UNCHANGED <<queue, wire, rows, addressee>>
      BY <1>10 DEF ReplayErase, history
    <2>2. \A k \in 1..Len(RowsOfOthers(who[c])) :
            \E i \in 1..Len(offline) : RowsOfOthers(who[c])[k] = offline[i]
      BY SelectedRows
    <2>3. Addressed(RowsOfOthers(who[c]), addressee)
      BY <2>2 DEF Addressed, AddressInv
    <2>4. \A b \in Conns : pc'[b] = "replay" => b # c /\ pc[b] = "replay" /\ who'[b] = who[b]
      BY <1>0, <2>1
    <2> QED BY <2>1, <2>3, <2>4 DEF AddressInv, RowsInv
  <1>11. ASSUME NEW c \in Conns, Leave(c) PROVE AddressInv' /\ RowsInv'
    BY <1>11 DEF Leave, store, history, AddressInv, RowsInv
  <1>12. CASE Restart
    <2>1. /\ queue' = <<>> /\ rows' = [c \in Conns |-> <<>>] /\ pc' = [c \in Conns |-> "recv"]
          /\ UNCHANGED <<wire, offline, addressee>>
      BY <1>12 DEF Restart
    <2>2. Addressed(<<>>, addressee)
      BY DEF Addressed
    <2> QED BY <2>1, <2>2 DEF AddressInv, RowsInv
  <1>13. CASE UNCHANGED vars
    BY <1>13 DEF vars, store, login, history, AddressInv, RowsInv
  <1> QED BY <1>1, <1>2, <1>3, <1>4, <1>5, <1>6, <1>7, <1>8, <1>9, <1>10, <1>11, <1>12, <1>13,
             <1>14, <1>15, <1>16
          DEF Next, SenderStep, LoginStep

\* Whether m is waiting depends on the table, the logins that replay for u and
\* their rows.
LEMMA WaitingSame ==
  ASSUME NEW m, NEW u, Replaying(u)' = Replaying(u), offline' = offline,
         \A c \in Replaying(u) : rows'[c] = rows[c]
  PROVE  (NotWaiting(m, u) => NotWaiting(m, u)') /\ (WaitingOnce(m, u) => WaitingOnce(m, u)')
  BY DEF NotWaiting, WaitingOnce

\* A message for u that is in the table is in a row of u.
LEMMA RowsOfUser ==
  ASSUME AddressInv, NEW m, NEW u, addressee[m] = u
  PROVE  \A i \in 1..Len(offline) : offline[i].msg = m => offline[i].user = u
  BY DEF AddressInv, Addressed

\* What Relay, the send thread and ReplayRow, which touch the queue, do to the
\* place of m.
LEMMA PlaceQueue ==
  ASSUME TypeOK, AddressInv, RowsInv, PlaceInv, NEW m \in Chats, NEW u \in Users,
         addressee'[m] = u, m \notin atRisk',
         \/ \E x \in Chats, v \in Users : Relay(x, v)
         \/ SndSend \/ SndSave \/ SndSaveFails
         \/ \E c \in Conns : ReplayRow(c)
  PROVE  OnePlace(m, u)'
  <1>0. /\ queue \in Seq(Entry) /\ offline \in Seq(Entry) /\ \A c \in Conns : rows[c] \in Seq(Entry)
        /\ rows \in [Conns -> Seq(Entry)] /\ addressee \in [Chats -> Users \union {NoUser}]
        /\ wire \in [Users -> Seq(Chats)]
    BY DEF TypeOK
  <1>1. ASSUME NEW x \in Chats, NEW v \in Users, Relay(x, v) PROVE OnePlace(m, u)'
    <2> DEFINE e == [user |-> v, msg |-> x]
    <2>2. e \in Entry /\ e.msg = x
      BY EntryIs
    <2>1. /\ addressee[x] = NoUser /\ addressee' = [addressee EXCEPT ![x] = v]
          /\ (queue' = Append(queue, e) /\ atRisk' = atRisk)
             \/ (queue' = queue /\ atRisk' = atRisk \union {x})
          /\ UNCHANGED <<wire, offline, rows, pc, who>>
      <3>1. Enqueue(e)
        BY <1>1 DEF Relay
      <3> HIDE DEF e
      <3> QED BY <1>1, <2>2, <3>1, EnqueueCases DEF Relay, login
    <2> HIDE DEF e
    <2>3. Replaying(u)' = Replaying(u)
      BY <2>1 DEF Replaying
    <2>4. CASE x = m
      <3>1. Absent(queue, m) /\ NeverSent(wire[u], m) /\ NotWaiting(m, u)
        BY <2>1, <2>4, Nowhere DEF NotWaiting, Replaying
      <3>2. OnceIn(queue', m)
        <4>1. queue' = Append(queue, e)
          BY <2>1, <2>4
        <4> QED BY <1>0, <2>2, <2>4, <3>1, <4>1, AppendEntry
      <3>3. NotWaiting(m, u)'
        BY <2>1, <2>3, <3>1, WaitingSame
      <3> QED BY <2>1, <3>1, <3>2, <3>3 DEF OnePlace
    <2>5. CASE x # m
      <3>1. OnePlace(m, u)
        <4>1. addressee[m] = u /\ m \notin atRisk
          BY <1>0, <2>1, <2>5
        <4> QED BY <4>1 DEF PlaceInv
      <3>2. /\ Absent(queue, m) => Absent(queue', m)
            /\ OnceIn(queue, m) => OnceIn(queue', m)
        <4>1. CASE queue' = Append(queue, e)
          BY <1>0, <2>2, <2>5, <4>1, AppendEntry
        <4>2. CASE queue' = queue
          BY <4>2
        <4> QED BY <2>1, <4>1, <4>2
      <3>3. (NotWaiting(m, u) => NotWaiting(m, u)') /\ (WaitingOnce(m, u) => WaitingOnce(m, u)')
        BY <2>1, <2>3, WaitingSame
      <3> QED BY <2>1, <3>1, <3>2, <3>3 DEF OnePlace
    <2> QED BY <2>4, <2>5
  <1>2. ASSUME SndSend \/ SndSave \/ SndSaveFails PROVE OnePlace(m, u)'
    <2>1. /\ queue # <<>> /\ queue' = Tail(queue) /\ addressee[m] = u /\ m \notin atRisk
          /\ UNCHANGED <<rows, pc, who>>
      BY <1>2 DEF SndSend, SndSave, SndSaveFails, Queue!Send, Queue!Store, Queue!Lose, login, history
    <2>2. OnePlace(m, u)
      BY <2>1 DEF PlaceInv
    <2>3. Replaying(u)' = Replaying(u)
      BY <2>1 DEF Replaying
    <2>4. /\ Head(queue) \in Entry /\ addressee[Head(queue).msg] = Head(queue).user
          /\ Head(queue).user \in Users /\ Head(queue).msg \in Chats
      BY <1>0, <2>1, TakeEntry, AddressedEntries, EntryIs DEF AddressInv
    <2>5. /\ Head(queue).msg # m => /\ Absent(queue, m) => Absent(queue', m)
                                    /\ OnceIn(queue, m) => OnceIn(queue', m)
          /\ Head(queue).msg = m => /\ ~Absent(queue, m)
                                    /\ OnceIn(queue, m) => Absent(queue', m)
      BY <1>0, <2>1, TakeEntry
    <2>6. CASE SndSend
      <3>1. /\ wire' = [wire EXCEPT ![Head(queue).user] = Append(@, Head(queue).msg)]
            /\ offline' = offline
        BY <2>6 DEF SndSend, Queue!Send
      <3>2. wire'[u] = IF Head(queue).user = u THEN Append(wire[u], Head(queue).msg) ELSE wire[u]
        BY <1>0, <3>1
      <3>3. /\ Head(queue).msg # m => /\ NeverSent(wire[u], m) => NeverSent(wire'[u], m)
                                      /\ SentOnce(wire[u], m) => SentOnce(wire'[u], m)
            /\ Head(queue).msg = m => (NeverSent(wire[u], m) => SentOnce(wire'[u], m))
        BY <1>0, <2>1, <2>4, <3>2, AppendSent
      <3>4. (NotWaiting(m, u) => NotWaiting(m, u)') /\ (WaitingOnce(m, u) => WaitingOnce(m, u)')
        BY <2>1, <2>3, <3>1, WaitingSame
      <3> QED BY <2>2, <2>5, <3>3, <3>4 DEF OnePlace
    <2>7. CASE SndSave
      <3>1. /\ offline' = Append(offline, Head(queue)) /\ wire' = wire
            /\ Head(queue).msg = m => Replaying(u) = {}
        BY <2>1, <2>4, <2>7 DEF SndSave, Queue!Store
      <3>2. /\ Head(queue).msg # m => /\ Absent(offline, m) => Absent(offline', m)
                                      /\ OnceIn(offline, m) => OnceIn(offline', m)
            /\ ~Absent(offline, m) => ~Absent(offline', m)
            /\ Head(queue).msg = m => (Absent(offline, m) => OnceIn(offline', m))
        <4>1. offline \in Seq(Entry) /\ Head(queue) \in Entry
          BY <1>0, <2>4
        <4>2. CASE Head(queue).msg # m
          BY <3>1, <4>1, <4>2, AppendEntry
        <4>3. CASE Head(queue).msg = m
          BY <3>1, <4>1, <4>3, AppendEntry
        <4> QED BY <4>2, <4>3
      <3>3. Head(queue).msg # m => /\ NotWaiting(m, u) => NotWaiting(m, u)'
                                   /\ WaitingOnce(m, u) => WaitingOnce(m, u)'
        BY <2>1, <2>3, <3>2 DEF NotWaiting, WaitingOnce
      <3>4. Head(queue).msg = m => (NotWaiting(m, u) => WaitingOnce(m, u)')
        BY <2>3, <3>1, <3>2 DEF NotWaiting, WaitingOnce
      <3> QED BY <2>2, <2>5, <3>1, <3>3, <3>4 DEF OnePlace
    <2>8. CASE SndSaveFails
      <3>1. Head(queue).msg # m /\ wire' = wire /\ offline' = offline
        BY <2>8 DEF SndSaveFails, Queue!Lose
      <3>2. (NotWaiting(m, u) => NotWaiting(m, u)') /\ (WaitingOnce(m, u) => WaitingOnce(m, u)')
        BY <2>1, <2>3, <3>1, WaitingSame
      <3> QED BY <2>2, <2>5, <3>1, <3>2 DEF OnePlace
    <2> QED BY <1>2, <2>6, <2>7, <2>8
  <1>3. ASSUME NEW c \in Conns, ReplayRow(c) PROVE OnePlace(m, u)'
    <2> DEFINE e == Head(rows[c])
    <2>0. rows[c] # <<>> /\ e \in Entry
      BY <1>0, <1>3, TakeEntry DEF ReplayRow
    <2>1. /\ pc[c] = "replay" /\ rows[c] # <<>>
          /\ (queue' = Append(queue, e) /\ atRisk' = atRisk)
             \/ (queue' = queue /\ atRisk' = atRisk \union {e.msg})
          /\ rows' = [rows EXCEPT ![c] = Tail(@)] /\ addressee[m] = u /\ m \notin atRisk
          /\ UNCHANGED <<wire, offline, who, pc>>
      <3>1. Enqueue(e)
        BY <1>3 DEF ReplayRow
      <3>2. /\ (queue' = Append(queue, e) /\ atRisk' = atRisk)
               \/ (queue' = queue /\ atRisk' = atRisk \union {e.msg})
            /\ UNCHANGED <<wire, offline>>
        <4> HIDE DEF e
        <4> QED BY <2>0, <3>1, EnqueueCases
      <3> QED BY <1>3, <3>2 DEF ReplayRow
    <2>2. OnePlace(m, u)
      BY <2>1 DEF PlaceInv
    <2>3. Replaying(u)' = Replaying(u) /\ \A b \in Replaying(u) : b \in Conns
      BY <2>1 DEF Replaying
    <2>4. /\ e \in Entry /\ addressee[e.msg] = e.user /\ e.user = who[c]
      <3>1. 1 \in 1..Len(rows[c]) /\ e = rows[c][1] /\ e \in Entry
        BY <1>0, <2>1, TakeEntry
      <3>2. addressee[e.msg] = e.user
        BY <1>0, <2>1, AddressedEntries DEF AddressInv
      <3> QED BY <2>1, <3>1, <3>2 DEF RowsInv
    <2>5. \A b \in Conns : rows'[b] = IF b = c THEN Tail(rows[c]) ELSE rows[b]
      BY <1>0, <2>1
    <2>6. /\ e.msg # m => /\ Absent(rows[c], m) => Absent(Tail(rows[c]), m)
                          /\ OnceIn(rows[c], m) => OnceIn(Tail(rows[c]), m)
          /\ e.msg = m => /\ ~Absent(rows[c], m)
                          /\ OnceIn(rows[c], m) => Absent(Tail(rows[c]), m)
      BY <1>0, <2>1, TakeEntry
    <2>7. /\ e.msg # m => /\ Absent(queue, m) => Absent(queue', m)
                          /\ OnceIn(queue, m) => OnceIn(queue', m)
          /\ e.msg = m => (Absent(queue, m) => OnceIn(queue', m))
      <3>1. /\ queue \in Seq(Entry) /\ e \in Entry
            /\ queue' = Append(queue, e) \/ (queue' = queue /\ e.msg # m)
        BY <1>0, <2>1, <2>4
      <3> HIDE DEF e
      <3>2. CASE e.msg # m
        <4>1. CASE queue' = Append(queue, e)
          BY <3>1, <3>2, <4>1, AppendEntry
        <4>2. CASE queue' = queue
          BY <3>2, <4>2
        <4> QED BY <3>1, <4>1, <4>2
      <3>3. CASE e.msg = m
        <4>1. queue' = Append(queue, e)
          BY <3>1, <3>3
        <4> QED BY <3>1, <3>3, <4>1, AppendEntry
      <3> QED BY <3>2, <3>3
    <2> HIDE DEF e
    <2>8. CASE e.msg # m
      <3>1. NotWaiting(m, u) => NotWaiting(m, u)'
        BY <2>1, <2>3, <2>5, <2>6, <2>8 DEF NotWaiting
      <3>2. WaitingOnce(m, u) => WaitingOnce(m, u)'
        BY <2>1, <2>3, <2>5, <2>6, <2>8 DEF WaitingOnce
      <3> QED BY <2>1, <2>2, <2>7, <2>8, <3>1, <3>2 DEF OnePlace
    <2>9. CASE e.msg = m
      <3>1. c \in Replaying(u)
        BY <2>1, <2>4, <2>9 DEF Replaying
      <3>2. ~NotWaiting(m, u)
        BY <2>6, <2>9, <3>1 DEF NotWaiting
      <3>3. Absent(queue, m) /\ NeverSent(wire[u], m) /\ WaitingOnce(m, u)
        BY <2>2, <3>2 DEF OnePlace
      <3>4. Replaying(u) = {c} /\ OnceIn(rows[c], m)
        BY <3>1, <3>3 DEF WaitingOnce
      <3>5. NotWaiting(m, u)'
        BY <2>3, <2>5, <2>6, <2>9, <3>4 DEF NotWaiting
      <3> QED BY <2>1, <2>7, <2>9, <3>3, <3>5 DEF OnePlace
    <2> QED BY <2>8, <2>9
  <1> QED BY <1>1, <1>2, <1>3

\* What the select and the delete of a login, and a restart, do to it.
LEMMA PlaceTable ==
  ASSUME TypeOK, AddressInv, PlaceInv, NEW m \in Chats, NEW u \in Users,
         addressee'[m] = u, m \notin atRisk',
         (\E c \in Conns : ReplaySelect(c) \/ ReplayErase(c) \/ ReplayEraseFails(c)) \/ Restart
  PROVE  OnePlace(m, u)'
  <1>0. /\ rows \in [Conns -> Seq(Entry)] /\ pc \in [Conns -> {"recv", "set", "select", "replay"}]
        /\ who \in [Conns -> Users \union {NoUser}] /\ queue \in Seq(Entry)
    BY DEF TypeOK
  <1>1. ASSUME NEW c \in Conns, ReplaySelect(c) PROVE OnePlace(m, u)'
    <2>1. /\ pc[c] = "select" /\ rows' = [rows EXCEPT ![c] = RowsOf(who[c])]
          /\ pc' = [pc EXCEPT ![c] = "replay"]
          /\ atRisk' = IF Replaying(who[c]) # {} THEN atRisk \union ChatsIn(RowsOf(who[c])) ELSE atRisk
          /\ addressee[m] = u /\ UNCHANGED <<queue, wire, offline, who>>
      BY <1>1 DEF ReplaySelect, store
    <2>2. OnePlace(m, u)
      BY <2>1 DEF PlaceInv
    <2>3. \A b \in Conns : b # c => rows'[b] = rows[b] /\ pc'[b] = pc[b]
      BY <1>0, <2>1
    <2>4. pc'[c] = "replay" /\ rows'[c] = RowsOf(who[c])
      BY <1>0, <2>1
    <2>5. \A b \in Replaying(u) : b \in Conns /\ b # c
      BY <2>1 DEF Replaying
    <2>6. CASE who[c] # u
      <3>1. Replaying(u)' = Replaying(u)
        BY <2>1, <2>3, <2>6 DEF Replaying
      <3>2. (NotWaiting(m, u) => NotWaiting(m, u)') /\ (WaitingOnce(m, u) => WaitingOnce(m, u)')
        BY <2>1, <2>3, <2>5, <3>1, WaitingSame
      <3> QED BY <2>1, <2>2, <3>2 DEF OnePlace
    <2>7. CASE who[c] = u
      <3>1. Replaying(u)' = Replaying(u) \union {c}
        BY <2>1, <2>3, <2>4, <2>7 DEF Replaying
      <3>2. /\ Absent(offline, m) => Absent(RowsOf(u), m)
            /\ OnceIn(offline, m) => OnceIn(RowsOf(u), m)
            /\ Absent(RowsOf(u), m) => Absent(offline, m)
            /\ m \in ChatsIn(RowsOf(u)) <=> ~Absent(RowsOf(u), m)
        <4>1. \A i \in 1..Len(offline) : offline[i].msg = m => offline[i].user = u
          BY <2>1, RowsOfUser
        <4> QED BY <4>1, SelectedRows
      <3>3. CASE Replaying(u) = {}
        <4>1. OnceIn(offline, m) => ~Absent(offline, m)
          BY DEF OnceIn, Absent
        <4>2. NotWaiting(m, u) => NotWaiting(m, u)'
          BY <2>4, <2>7, <3>1, <3>2, <3>3 DEF NotWaiting
        <4>3. WaitingOnce(m, u) => WaitingOnce(m, u)'
          BY <2>1, <2>4, <2>7, <3>1, <3>2, <3>3, <4>1 DEF WaitingOnce
        <4> QED BY <2>1, <2>2, <4>2, <4>3 DEF OnePlace
      <3>4. CASE Replaying(u) # {}
        <4>1. Absent(offline, m) /\ Absent(RowsOf(u), m)
          BY <2>1, <2>7, <3>2, <3>4
        <4>2. ~WaitingOnce(m, u)
          BY <3>4, <4>1 DEF WaitingOnce
        <4>3. NotWaiting(m, u) => NotWaiting(m, u)'
          BY <2>3, <2>4, <2>5, <2>7, <3>1, <3>4, <4>1 DEF NotWaiting
        <4> QED BY <2>1, <2>2, <4>2, <4>3 DEF OnePlace
      <3> QED BY <3>3, <3>4
    <2> QED BY <2>6, <2>7
  <1>2. ASSUME NEW c \in Conns, ReplayErase(c) PROVE OnePlace(m, u)'
    <2>1. /\ pc[c] = "replay" /\ rows[c] = <<>> /\ offline' = RowsOfOthers(who[c])
          /\ pc' = [pc EXCEPT ![c] = "recv"] /\ who' = [who EXCEPT ![c] = NoUser]
          /\ addressee[m] = u /\ m \notin atRisk /\ UNCHANGED <<queue, wire, rows>>
      BY <1>2 DEF ReplayErase, history
    <2>2. OnePlace(m, u)
      BY <2>1 DEF PlaceInv
    <2>3. /\ \A b \in Conns : b # c => who'[b] = who[b] /\ pc'[b] = pc[b]
          /\ pc'[c] = "recv"
      BY <1>0, <2>1
    <2>4. Replaying(u)' = Replaying(u) \ {c}
      BY <2>3 DEF Replaying
    <2>5. CASE who[c] # u
      <3>1. c \notin Replaying(u)
        BY <2>5 DEF Replaying
      <3>2. \A i \in 1..Len(offline) : offline[i].msg = m => offline[i].user # who[c]
        BY <2>1, <2>5, RowsOfUser
      <3>3. /\ Absent(offline, m) <=> Absent(offline', m)
            /\ OnceIn(offline, m) => OnceIn(offline', m)
        BY <2>1, <3>2, SelectedRows
      <3>4. (NotWaiting(m, u) => NotWaiting(m, u)') /\ (WaitingOnce(m, u) => WaitingOnce(m, u)')
        BY <2>1, <2>4, <3>1, <3>3 DEF NotWaiting, WaitingOnce
      <3> QED BY <2>1, <2>2, <3>4 DEF OnePlace
    <2>6. CASE who[c] = u
      <3>1. c \in Replaying(u)
        BY <2>1, <2>6 DEF Replaying
      <3>2. ~OnceIn(rows[c], m)
        BY <2>1 DEF OnceIn
      <3>3. ~WaitingOnce(m, u)
        BY <3>1, <3>2 DEF WaitingOnce
      <3>4. Absent(offline', m)
        BY <2>1, <2>6, RowsOfUser, SelectedRows
      <3>5. NotWaiting(m, u) => NotWaiting(m, u)'
        BY <2>1, <2>4, <3>1, <3>4 DEF NotWaiting
      <3> QED BY <2>1, <2>2, <3>3, <3>5 DEF OnePlace
    <2> QED BY <2>5, <2>6
  <1>4. ASSUME NEW c \in Conns, ReplayEraseFails(c) PROVE OnePlace(m, u)'
    <2>1. /\ pc[c] = "replay" /\ rows[c] = <<>>
          /\ atRisk' = atRisk \union ChatsIn(RowsOf(who[c]))
          /\ pc' = [pc EXCEPT ![c] = "recv"] /\ who' = [who EXCEPT ![c] = NoUser]
          /\ addressee[m] = u /\ m \notin atRisk /\ UNCHANGED <<queue, wire, offline, rows>>
      BY <1>4 DEF ReplayEraseFails, store
    <2>2. OnePlace(m, u)
      BY <2>1 DEF PlaceInv
    <2>3. /\ \A b \in Conns : b # c => who'[b] = who[b] /\ pc'[b] = pc[b]
          /\ pc'[c] = "recv"
      BY <1>0, <2>1
    <2>4. Replaying(u)' = Replaying(u) \ {c}
      BY <2>3 DEF Replaying
    <2>5. CASE who[c] # u
      <3>1. c \notin Replaying(u)
        BY <2>5 DEF Replaying
      <3>2. Replaying(u)' = Replaying(u)
        BY <2>4, <3>1
      <3>3. (NotWaiting(m, u) => NotWaiting(m, u)') /\ (WaitingOnce(m, u) => WaitingOnce(m, u)')
        BY <2>1, <3>2, WaitingSame
      <3> QED BY <2>1, <2>2, <3>3 DEF OnePlace
    <2>6. CASE who[c] = u
      <3>1. c \in Replaying(u)
        BY <2>1, <2>6 DEF Replaying
      <3>2. ~OnceIn(rows[c], m)
        BY <2>1 DEF OnceIn
      <3>3. ~WaitingOnce(m, u)
        BY <3>1, <3>2 DEF WaitingOnce
      <3>4. Absent(offline, m)
        <4>1. m \notin ChatsIn(RowsOf(u))
          BY <2>1, <2>6
        <4>2. \A i \in 1..Len(offline) : offline[i].msg = m => offline[i].user = u
          BY <2>1, RowsOfUser
        <4>3. /\ Absent(RowsOf(u), m) => Absent(offline, m)
              /\ m \in ChatsIn(RowsOf(u)) <=> ~Absent(RowsOf(u), m)
          BY <4>2, SelectedRows
        <4> QED BY <4>1, <4>3
      <3>5. NotWaiting(m, u) => NotWaiting(m, u)'
        BY <2>1, <2>4, <3>1, <3>4 DEF NotWaiting
      <3> QED BY <2>1, <2>2, <3>3, <3>5 DEF OnePlace
    <2> QED BY <2>5, <2>6
  <1>3. CASE Restart
    <2>1. /\ queue' = <<>> /\ pc' = [c \in Conns |-> "recv"] /\ UNCHANGED <<wire, offline>>
          /\ addressee[m] = u
          /\ atRisk' = atRisk \union ChatsIn(queue)
                          \union UNION {ChatsIn(RowsOf(x)) : x \in {v \in Users : Replaying(v) # {}}}
      BY <1>3 DEF Restart
    <2>2. OnePlace(m, u)
      BY <2>1 DEF PlaceInv
    <2>3. Absent(queue', m) /\ ~OnceIn(queue, m)
      <3>1. Absent(queue, m)
        BY <1>0, <2>1, CarriedChats
      <3> QED BY <2>1, <3>1 DEF Absent, OnceIn
    <2>4. Replaying(u)' = {}
      BY <2>1 DEF Replaying
    <2>5. Replaying(u) # {} => Absent(offline, m)
      <3>1. Replaying(u) # {} => m \notin ChatsIn(RowsOf(u))
        BY <2>1
      <3>2. /\ Absent(RowsOf(u), m) => Absent(offline, m)
            /\ m \in ChatsIn(RowsOf(u)) <=> ~Absent(RowsOf(u), m)
        BY <2>1, RowsOfUser, SelectedRows
      <3> QED BY <3>1, <3>2
    <2>6. (NotWaiting(m, u) => NotWaiting(m, u)') /\ (WaitingOnce(m, u) => WaitingOnce(m, u)')
      BY <2>1, <2>4, <2>5 DEF NotWaiting, WaitingOnce
    <2> QED BY <2>1, <2>2, <2>3, <2>6 DEF OnePlace
  <1> QED BY <1>1, <1>2, <1>3, <1>4

\* What the other actions do: they leave every message where it is.
LEMMA PlaceElsewhere ==
  ASSUME TypeOK, PlaceInv, NEW m \in Chats, NEW u \in Users, addressee'[m] = u, m \notin atRisk',
         \/ SndLookup \/ Halt \/ UNCHANGED vars
         \/ \E c \in Conns : \/ LoginSet(c) \/ Leave(c) \/ \E b \in Conns : LoginFound(c, b)
                             \/ \E v \in Users : LoginNotFound(c, v)
  PROVE  OnePlace(m, u)'
  <1>1. /\ UNCHANGED <<queue, wire, offline, rows, addressee, atRisk>>
        /\ \/ UNCHANGED <<pc, who>>
           \/ \E c \in Conns : /\ pc[c] = "set" /\ pc' = [pc EXCEPT ![c] = "select"]
                               /\ who' = who
           \/ \E c \in Conns, v \in Users : /\ pc[c] = "recv" /\ pc' = [pc EXCEPT ![c] = "set"]
                                            /\ who' = [who EXCEPT ![c] = v]
    BY DEF SndLookup, Halt, LoginSet, Leave, LoginFound, LoginNotFound, vars, store, login, history, counts
  <1>2. Replaying(u)' = Replaying(u)
    <2>1. /\ pc \in [Conns -> {"recv", "set", "select", "replay"}]
          /\ who \in [Conns -> Users \union {NoUser}]
      BY DEF TypeOK
    <2> QED BY <1>1, <2>1 DEF Replaying
  <1>3. OnePlace(m, u)
    BY <1>1 DEF PlaceInv
  <1>4. (NotWaiting(m, u) => NotWaiting(m, u)') /\ (WaitingOnce(m, u) => WaitingOnce(m, u)')
    BY <1>1, <1>2, WaitingSame
  <1> QED BY <1>1, <1>3, <1>4 DEF OnePlace

\* At first nothing has been accepted.
LEMMA DeliveryInit == Init => DeliveryInv
  <1> SUFFICES ASSUME Init PROVE DeliveryInv
    OBVIOUS
  <1>1. TypeOK
    BY TypeInit
  <1>2. /\ queue = <<>> /\ offline = <<>> /\ wire = [u \in Users |-> <<>>]
        /\ rows = [c \in Conns |-> <<>>] /\ pc = [c \in Conns |-> "recv"]
        /\ addressee = [m \in Chats |-> NoUser]
    BY DEF Init, Queue!Init
  <1>3. AddressInv /\ RowsInv
    BY <1>2 DEF AddressInv, RowsInv, Addressed
  <1>4. PlaceInv
    BY <1>2, NoUserAssumption DEF PlaceInv
  <1> QED BY <1>1, <1>3, <1>4 DEF DeliveryInv

\* Every step keeps the invariant.
LEMMA DeliveryStep == DeliveryInv /\ [Next]_vars => DeliveryInv'
  <1> SUFFICES ASSUME DeliveryInv, [Next]_vars PROVE DeliveryInv'
    OBVIOUS
  <1>1. TypeOK /\ AddressInv /\ RowsInv /\ PlaceInv
    BY DEF DeliveryInv
  <1>2. TypeOK' /\ AddressInv' /\ RowsInv'
    BY <1>1, TypeStep, AddressStep
  <1>3. ASSUME NEW m \in Chats, NEW u \in Users, addressee'[m] = u, m \notin atRisk'
        PROVE  OnePlace(m, u)'
    <2>1. \/ (\E x \in Chats, v \in Users : Relay(x, v)) \/ SndSend \/ SndSave \/ SndSaveFails
             \/ \E c \in Conns : ReplayRow(c)
          \/ (\E c \in Conns : ReplaySelect(c) \/ ReplayErase(c) \/ ReplayEraseFails(c)) \/ Restart
          \/ SndLookup \/ Halt \/ UNCHANGED vars
          \/ \E c \in Conns : \/ LoginSet(c) \/ Leave(c) \/ \E b \in Conns : LoginFound(c, b)
                              \/ \E v \in Users : LoginNotFound(c, v)
      BY DEF Next, SenderStep, LoginStep
    <2> QED BY <1>1, <1>3, <2>1, PlaceQueue, PlaceTable, PlaceElsewhere
  <1>4. PlaceInv'
    BY <1>3 DEF PlaceInv
  <1> QED BY <1>2, <1>4 DEF DeliveryInv

\* The inductive invariant: entries are addressed to the user the message was
\* relayed to, a login replays rows of its own user, and every chat message that
\* met none of the accidents ExactlyOnceButForRaces names (the races, a restart, a
\* full ring, a failed insert or delete) is at exactly one position; rows that a
\* login has selected are the only ones of their user to be replayed and are still
\* in the table.
THEOREM DeliveryInvariant == Spec => []DeliveryInv
  BY DeliveryInit, DeliveryStep, PTL DEF Spec

\* How many entries carry a message.
LEMMA CountEntries ==
  ASSUME NEW s \in Seq(Entry), NEW m
  PROVE  /\ Absent(s, m) => Occurrences(s, m) = 0
         /\ OnceIn(s, m) => Occurrences(s, m) = 1
  <1> DEFINE P == {i \in DOMAIN s : s[i].msg = m}
  <1>1. DOMAIN s = 1..Len(s)
    BY LenProperties
  <1>2. ASSUME Absent(s, m) PROVE P = {}
    BY <1>1, <1>2 DEF Absent
  <1>3. ASSUME OnceIn(s, m) PROVE \E i : P = {i}
    <2>1. PICK i \in DOMAIN s : \A j \in DOMAIN s : s[j].msg = m <=> j = i
      BY <1>1, <1>3 DEF OnceIn
    <2>2. P = {i}
      BY <2>1
    <2> QED BY <2>2
  <1> QED BY <1>2, <1>3, FS_EmptySet, FS_Singleton DEF Occurrences

\* How often a message was sent.
LEMMA CountSent ==
  ASSUME NEW u, wire[u] \in Seq(Chats), NEW m
  PROVE  /\ NeverSent(wire[u], m) => OnWire(m, u) = 0
         /\ SentOnce(wire[u], m) => OnWire(m, u) = 1
  <1> DEFINE P == {i \in DOMAIN wire[u] : wire[u][i] = m}
  <1>1. DOMAIN wire[u] = 1..Len(wire[u])
    BY LenProperties
  <1>2. ASSUME NeverSent(wire[u], m) PROVE P = {}
    BY <1>1, <1>2 DEF NeverSent
  <1>3. ASSUME SentOnce(wire[u], m) PROVE \E i : P = {i}
    <2>1. PICK i \in 1..Len(wire[u]) : \A j \in 1..Len(wire[u]) : wire[u][j] = m <=> j = i
      BY <1>3 DEF SentOnce
    <2>2. P = {i}
      BY <1>1, <2>1
    <2> QED BY <2>2
  <1> QED BY <1>2, <1>3, FS_EmptySet, FS_Singleton DEF OnWire

\* Exactly once, but for what is named: a chat message for a user is in one place
\* (the queue, the wire of its user, the table or the rows a login of its user has
\* selected) unless it was saved between the select and the delete of a login,
\* selected by two logins at a time, in memory when the server stopped, given to a
\* full ring, or its insert or the delete of its row failed.
THEOREM OneCopy == Spec => []ExactlyOnceButForRaces
  <1>1. DeliveryInv => ExactlyOnceButForRaces
    <2> SUFFICES ASSUME DeliveryInv, NEW m \in Chats, addressee[m] # NoUser, m \notin atRisk
                 PROVE  Copies(m, addressee[m]) = 1
      BY DEF ExactlyOnceButForRaces
    <2> DEFINE u == addressee[m]
               c == CHOOSE c \in Replaying(u) : TRUE
               waiting == IF Replaying(u) = {} THEN Occurrences(offline, m)
                                               ELSE Occurrences(rows[c], m)
    <2>1. TypeOK /\ u \in Users
      BY DEF DeliveryInv, TypeOK
    <2>2. /\ queue \in Seq(Entry) /\ offline \in Seq(Entry) /\ wire[u] \in Seq(Chats)
          /\ \A b \in Conns : rows[b] \in Seq(Entry)
      BY <2>1 DEF TypeOK
    <2>3. OnePlace(m, u)
      BY <2>1 DEF DeliveryInv, PlaceInv
    <2>4. Copies(m, u) = Occurrences(queue, m) + OnWire(m, u) + waiting
      BY DEF Copies
    <2>5. Replaying(u) # {} => c \in Replaying(u) /\ c \in Conns
      BY DEF Replaying
    <2> HIDE DEF u, c
    <2>6. /\ NotWaiting(m, u) => waiting = 0
          /\ WaitingOnce(m, u) => waiting = 1
      BY <2>2, <2>5, CountEntries DEF NotWaiting, WaitingOnce
    <2>7. /\ Absent(queue, m) => Occurrences(queue, m) = 0
          /\ OnceIn(queue, m) => Occurrences(queue, m) = 1
          /\ NeverSent(wire[u], m) => OnWire(m, u) = 0
          /\ SentOnce(wire[u], m) => OnWire(m, u) = 1
      BY <2>2, CountEntries, CountSent
    <2> HIDE DEF waiting
    <2>8. Copies(m, u) = 1
      BY <2>3, <2>4, <2>6, <2>7 DEF OnePlace
    <2> QED BY <2>8 DEF u
  <1> QED BY <1>1, DeliveryInvariant, PTL
=============================================================================
