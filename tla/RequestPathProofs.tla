-------------------------- MODULE RequestPathProofs --------------------------
(* Proofs about RequestPath for any threads, requests and cut of the records. *)
EXTENDS RequestPath, SequenceTheorems, TLAPS

USE QuotaAssumption, PiecesAssumption, TextAssumption, FlightAssumption, BlankAssumption

-----------------------------------------------------------------------------
(* The inductive invariant. *)

\* A piece stands where strcpy put it: at its own place.
Aligned(rec) == \A i \in 1..Pieces : rec[i] = Blank \/ rec[i][2] = i

\* A thread that copies is not through with its text, and one that copies or
\* sends has begun a request.
InFunction ==
  \A t \in Threads :
    /\ pc[t] # "idle" => made[t] >= 1
    /\ pc[t] = "copy" => copied[t] < TextLen[Current(t)]

AlignedInv ==
  /\ Aligned(sendBuffer)
  /\ \A i \in 1..Len(wire) : Aligned(wire[i])

\* A record is only begun after a recv that took part of a record.
SplitInv == taken # 0 => split

PathInv == TypeOK /\ InFunction /\ AlignedInv /\ SplitInv

\* Of two requests of one thread q was not begun before p.
NotBefore(q, p) == p[1] = q[1] => p[2] <= q[2]

\* The record does not begin with a request that is older than p.
NoneBefore(rec, p) == rec[1] # Blank => NotBefore(rec[1][1], p)

\* A request that has been begun.
Begun(p) == p[2] <= made[p[1]]

\* The request a record begins with has been begun.
Begins(rec) == rec[1] # Blank => Begun(rec[1][1])

\* Requests of one thread stay in order on the whole way: handled, on the
\* connection, in the buffer.  A record is dated by the piece it begins with:
\* only a thread that begins a request writes there.
OrderInv ==
  /\ Begins(sendBuffer)
  /\ \A i \in 1..Len(wire) : Begins(wire[i])
  /\ \A i \in 1..Len(wire) : wire[i][1] # Blank =>
       /\ NoneBefore(sendBuffer, wire[i][1][1])
       /\ \A j \in i..Len(wire) : NoneBefore(wire[j], wire[i][1][1])
  /\ \A i \in 1..Len(handled) :
       /\ Begun(handled[i])
       /\ NoneBefore(sendBuffer, handled[i])
       /\ \A j \in 1..Len(wire) : NoneBefore(wire[j], handled[i])
       /\ \A j \in i..Len(handled) : NotBefore(handled[j], handled[i])

\* One thread at a time.
Alone == \A t, u \in Threads : pc[t] # "idle" /\ pc[u] # "idle" => t = u

\* The buffer begins with what the thread inside send_function has copied.
BufferInv ==
  \A t \in Threads : \A i \in 1..Pieces :
    \/ pc[t] = "copy" /\ i <= copied[t]
    \/ pc[t] = "send" /\ i <= TextLen[Current(t)]
    => sendBuffer[i] = <<Current(t), i>>

\* A request that is not in a send_function any more.
Left(p) == Begun(p) /\ (pc[p[1]] # "idle" => p[2] # made[p[1]])

\* Every request is sent whole and once: none is twice among the requests the
\* server has acted on and the records of which nothing has been received, nor
\* is one of them about to be sent again.
Intact ==
  /\ Alone
  /\ BufferInv
  /\ \A i \in 1..Len(Untouched) : Untouched[i] \in Requests /\ Left(Untouched[i])
  /\ \A i \in 1..Len(handled) : Left(handled[i])
  /\ \A i, j \in 1..Len(Untouched) : i # j => Untouched[i] # Untouched[j]
  /\ \A i, j \in 1..Len(handled) : i # j => handled[i] # handled[j]
  /\ \A i \in 1..Len(Untouched), j \in 1..Len(handled) : Untouched[i] # handled[j]

IntactInv == overlapped \/ Intact

-----------------------------------------------------------------------------
(* Requests, texts and records. *)

\* A request is a thread and a number up to the thread's quota.
LEMMA RequestPairs ==
  /\ \A t \in Threads : \A k \in 1..Quota[t] : <<t, k>> \in Requests
  /\ \A r \in Requests : r = <<r[1], r[2]>> /\ r[1] \in Threads /\ r[2] \in 1..Quota[r[1]]
  BY DEF Requests

\* A thread inside send_function has a request.
LEMMA CurrentIsRequest ==
  ASSUME TypeOK, InFunction, NEW t \in Threads, pc[t] # "idle"
  PROVE  Current(t) \in Requests /\ TextLen[Current(t)] \in 1..Pieces
  BY RequestPairs DEF TypeOK, InFunction, Current

\* A record is no sequence but by its indices; its length is Pieces.
LEMMA RecordLen == \A rec \in Record : Len(rec) = Pieces /\ DOMAIN rec = 1..Pieces
  BY DEF Record

\* A buffer begins with the text of at most one request.
LEMMA OneText ==
  ASSUME NEW buf, NEW r \in Requests, NEW s \in Requests, IsText(buf, r), IsText(buf, s)
  PROVE  r = s
  <1>1. TextLen[r] \in 1..Pieces /\ TextLen[s] \in 1..Pieces
    OBVIOUS
  <1>2. buf[1] = <<r, 1>> /\ buf[1] = <<s, 1>>
    BY <1>1 DEF IsText
  <1> QED BY <1>2

\* Meaning finds the request a record carries, if there is one.
LEMMA MeaningOfText ==
  ASSUME NEW rec, NEW r \in Requests, IsText(rec, r)
  PROVE  Meaning(rec) = r
  BY OneText DEF Meaning

\* A record without the whole text of a request is garbled.
LEMMA MeaningOfNoText ==
  ASSUME NEW rec, \A r \in Requests : ~IsText(rec, r)
  PROVE  Meaning(rec) = Garbled
  BY DEF Meaning

\* A record means a request, whose text it then begins with, or is garbled.
LEMMA MeaningType ==
  ASSUME NEW rec
  PROVE  /\ Meaning(rec) \in Requests \union {Garbled}
         /\ Meaning(rec) \in Requests => IsText(rec, Meaning(rec))
  <1>1. CASE \E r \in Requests : IsText(rec, r)
    BY <1>1, MeaningOfText
  <1>2. CASE \A r \in Requests : ~IsText(rec, r)
    <2>1. Meaning(rec) = Garbled
      BY <1>2, MeaningOfNoText
    <2> QED BY <2>1 DEF Garbled
  <1> QED BY <1>1, <1>2

-----------------------------------------------------------------------------
(* What a recv takes. *)

\* What is received is pieces of records, each from the place it had.
LEMMA TakenPieces ==
  ASSUME TypeOK, AlignedInv, NEW n \in 1..Pieces, Arrived(n)
  PROVE  /\ Len(Taken(n)) = n /\ DOMAIN Taken(n) = 1..n
         /\ taken < Pieces
         /\ Taken(n)[1] = wire[1][taken + 1]
         /\ taken = 0 => \A i \in 1..n : Taken(n)[i] = wire[1][i]
         /\ taken # 0 => Taken(n)[1] = Blank \/ Taken(n)[1][2] = taken + 1
  <1>1. Len(Taken(n)) = n /\ DOMAIN Taken(n) = 1..n
    BY DEF Taken
  <1>2. taken < Pieces /\ taken \in Nat /\ wire # <<>> /\ Len(wire) \in Nat /\ Len(wire) >= 1
    BY DEF Arrived, TypeOK
  <1>3. Taken(n)[1] = wire[1][taken + 1]
    BY <1>2 DEF Taken
  <1>4. taken = 0 => \A i \in 1..n : Taken(n)[i] = wire[1][i]
    BY <1>2 DEF Taken
  <1>5. Aligned(wire[1])
    BY <1>2 DEF AlignedInv
  <1>6. taken # 0 => wire[1][taken + 1] = Blank \/ wire[1][taken + 1][2] = taken + 1
    BY <1>2, <1>5 DEF Aligned
  <1> QED BY <1>1, <1>2, <1>3, <1>4, <1>6

\* Text is only found in what is received from the start of a record, and
\* then it is the text that record carries.
LEMMA TextTaken ==
  ASSUME TypeOK, AlignedInv, NEW n \in 1..Pieces, Arrived(n),
         NEW r \in Requests, IsText(Taken(n), r)
  PROVE  taken = 0 /\ IsText(wire[1], r) /\ wire[1][1] = <<r, 1>>
  <1>1. TextLen[r] \in 1..Pieces
    OBVIOUS
  <1>2. TextLen[r] <= n /\ \A i \in 1..TextLen[r] : Taken(n)[i] = <<r, i>>
    BY TakenPieces DEF IsText
  <1>3. Taken(n)[1] = <<r, 1>>
    BY <1>1, <1>2
  <1>4. taken = 0
    <2> SUFFICES ASSUME taken # 0 PROVE FALSE
      OBVIOUS
    <2>1. Taken(n)[1] # Blank
      BY <1>3
    <2>2. Taken(n)[1][2] = 1
      BY <1>3
    <2>3. taken \in Nat
      BY DEF TypeOK
    <2> QED BY <2>1, <2>2, <2>3, TakenPieces
  <1>5. \A i \in 1..n : Taken(n)[i] = wire[1][i]
    BY <1>4, TakenPieces
  <1>6. wire[1] \in Record
    BY DEF Arrived, TypeOK
  <1>7. IsText(wire[1], r)
    BY <1>1, <1>2, <1>5, <1>6, RecordLen DEF IsText
  <1> QED BY <1>1, <1>2, <1>4, <1>5, <1>7

\* After a recv the connection holds the same records, or all but the first.
LEMMA ConsumeWire ==
  ASSUME TypeOK, NEW n \in 1..Pieces, Arrived(n), Consume(n)
  PROVE  /\ wire' \in Seq(Record) /\ taken' \in 0..(Pieces - 1)
         /\ \/ /\ wire' = wire /\ taken' = taken + n /\ taken' # 0
            \/ /\ wire' = Tail(wire) /\ taken' = taken + n - Pieces
               /\ Len(wire') = Len(wire) - 1
               /\ \A i \in 1..Len(wire') : wire'[i] = wire[i + 1]
         /\ taken' # 0 => wire' # <<>>
  <1>1. taken \in 0..(Pieces - 1) /\ wire \in Seq(Record) /\ Len(wire) \in Nat \ {0} /\ wire # <<>>
    BY EmptySeq DEF Arrived, TypeOK
  <1>2. CASE taken + n < Pieces
    BY <1>1, <1>2 DEF Consume, TypeOK
  <1>3. CASE ~(taken + n < Pieces)
    <2>1. wire' = Tail(wire) /\ taken' = taken + n - Pieces
      BY <1>3 DEF Consume
    <2>2. /\ Tail(wire) \in Seq(Record) /\ Len(Tail(wire)) = Len(wire) - 1
          /\ \A i \in 1..Len(Tail(wire)) : Tail(wire)[i] = wire[i + 1]
      BY <1>1, HeadTailProperties
    <2>3. taken' # 0 => Len(wire) # 1
      BY <1>1, <1>3, <2>1 DEF Arrived
    <2>4. taken' \in 0..(Pieces - 1)
      BY <1>1, <1>3, <2>1
    <2>5. taken' # 0 => Tail(wire) # <<>>
      <3>1. taken' # 0 => Len(Tail(wire)) # 0
        BY <1>1, <2>2, <2>3
      <3> QED BY <3>1, EmptySeq
    <2> QED BY <2>1, <2>2, <2>4, <2>5
  <1> QED BY <1>2, <1>3

-----------------------------------------------------------------------------
(* Types. *)

\* The server acts on a request or not at all, and what it does depends on
\* what the buffer begins with.
LEMMA HandleType ==
  ASSUME TypeOK, NEW buf, Handle(buf)
  PROVE  /\ server' \in {"up", "down"} /\ handled' \in Seq(Requests)
         /\ \/ handled' = handled /\ \A r \in Requests : ~IsText(buf, r)
            \/ \E r \in Requests :
                 /\ IsText(buf, r)
                 /\ handled' = Append(handled, r)
                 /\ Len(handled') = Len(handled) + 1
                 /\ \A i \in 1..Len(handled) : handled'[i] = handled[i]
                 /\ handled'[Len(handled) + 1] = r
  <1>1. handled \in Seq(Requests) /\ server \in {"up", "down"}
    BY DEF TypeOK
  <1>2. CASE \E r \in Requests : IsText(buf, r) /\ handled' = Append(handled, r) /\ server' = server
    BY <1>1, <1>2, AppendProperties
  <1>3. CASE handled' = handled /\ (\A r \in Requests : ~IsText(buf, r)) /\ server' \in {server, "down"}
    BY <1>1, <1>3
  <1> QED BY <1>2, <1>3 DEF Handle

\* The first state satisfies the invariant.
LEMMA PathInit == Init => PathInv
  <1> SUFFICES ASSUME Init PROVE PathInv
    OBVIOUS
  <1>1. sendBuffer \in Record /\ Aligned(sendBuffer)
    BY DEF Init, Record, Piece, Aligned
  <1>2. made \in [Threads -> Nat] /\ \A t \in Threads : made[t] <= Quota[t]
    BY DEF Init
  <1>3. wire \in Seq(Record) /\ handled \in Seq(Requests) /\ taken \in 0..(Pieces - 1) /\ taken = 0
    BY EmptySeq DEF Init
  <1>4. /\ pc \in [Threads -> {"idle", "copy", "send"}] /\ copied \in [Threads -> 0..Pieces]
        /\ server \in {"up", "down"}
    BY DEF Init
  <1>5. {overlapped, split} \subseteq BOOLEAN
    BY Zenon DEF Init
  <1>6. TypeOK
    BY <1>1, <1>2, <1>3, <1>4, <1>5 DEF TypeOK
  <1> QED BY <1>1, <1>6, EmptySeq DEF Init, PathInv, InFunction, AlignedInv, SplitInv

\* memset
LEMMA PathClear ==
  ASSUME PathInv, NEW t \in Threads, Clear(t)
  PROVE  PathInv'
  <1> USE DEF PathInv
  <1>1. sendBuffer' \in Record /\ Aligned(sendBuffer)'
    BY DEF Clear, Record, Piece, Aligned
  <1>2. TypeOK'
    BY <1>1 DEF Clear, TypeOK, connection
  <1>3. InFunction'
    <2> SUFFICES ASSUME NEW u \in Threads, pc'[u] # "idle"
                 PROVE  made'[u] >= 1 /\ (pc'[u] = "copy" => copied'[u] < TextLen[Current(u)'])
      BY DEF InFunction
    <2>1. CASE u = t
      <3>1. made'[t] = made[t] + 1 /\ copied'[t] = 0 /\ made[t] \in Nat /\ made[t] + 1 <= Quota[t]
        BY DEF Clear, TypeOK
      <3>2. Current(t)' \in Requests
        BY <3>1, RequestPairs DEF Current
      <3> QED BY <2>1, <3>1, <3>2
    <2>2. CASE u # t
      <3>1. pc'[u] = pc[u] /\ made'[u] = made[u] /\ copied'[u] = copied[u]
        BY <2>2 DEF Clear, TypeOK
      <3> QED BY <3>1 DEF InFunction, Current
    <2> QED BY <2>1, <2>2
  <1> QED BY <1>1, <1>2, <1>3 DEF Clear, connection, AlignedInv, SplitInv, Aligned

\* strcpy
LEMMA PathCopy ==
  ASSUME PathInv, NEW t \in Threads, Copy(t)
  PROVE  PathInv'
  <1> USE DEF PathInv
  <1>1. /\ pc[t] = "copy" /\ Current(t) \in Requests /\ TextLen[Current(t)] \in 1..Pieces
        /\ copied[t] \in Nat /\ copied[t] < TextLen[Current(t)]
    BY CurrentIsRequest DEF Copy, InFunction, TypeOK
  <1>2. copied[t] + 1 \in 1..Pieces
    BY <1>1
  <1>3. <<Current(t), copied[t] + 1>> \in Piece
    BY <1>1, <1>2 DEF Piece
  <1>4. sendBuffer' \in Record /\ Aligned(sendBuffer)'
    BY <1>2, <1>3 DEF Copy, Record, TypeOK, Aligned, AlignedInv
  <1>5. TypeOK'
    BY <1>2, <1>4 DEF Copy, TypeOK, connection, history
  <1>6. InFunction'
    <2> SUFFICES ASSUME NEW u \in Threads, pc'[u] # "idle"
                 PROVE  made'[u] >= 1 /\ (pc'[u] = "copy" => copied'[u] < TextLen[Current(u)'])
      BY DEF InFunction
    <2>1. made' = made /\ Current(u)' = Current(u)
      BY DEF Copy, Current
    <2>2. CASE u = t
      <3>1. copied'[t] = copied[t] + 1
            /\ pc'[t] = IF copied[t] + 1 < TextLen[Current(t)] THEN pc[t] ELSE "send"
        BY DEF Copy, TypeOK
      <3> QED BY <1>1, <2>1, <2>2, <3>1 DEF InFunction
    <2>3. CASE u # t
      <3>1. pc'[u] = pc[u] /\ copied'[u] = copied[u]
        BY <2>3 DEF Copy, TypeOK
      <3> QED BY <2>1, <3>1 DEF InFunction
    <2> QED BY <2>2, <2>3
  <1> QED BY <1>4, <1>5, <1>6 DEF Copy, connection, history, AlignedInv, SplitInv, Aligned

\* What send puts on the connection goes behind what is there.
LEMMA SendWire ==
  ASSUME TypeOK, NEW t \in Threads, Send(t)
  PROVE  /\ wire' \in Seq(Record) /\ Len(wire') = Len(wire) + 1 /\ Len(wire) \in Nat
         /\ \A i \in 1..Len(wire) : wire'[i] = wire[i]
         /\ wire'[Len(wire) + 1] = sendBuffer
  BY AppendProperties DEF Send, TypeOK

\* send
LEMMA PathSend ==
  ASSUME PathInv, NEW t \in Threads, Send(t)
  PROVE  PathInv'
  <1> USE DEF PathInv
  <1>1. TypeOK'
    BY SendWire, EmptySeq DEF Send, TypeOK, history
  <1>2. InFunction'
    BY DEF Send, InFunction, TypeOK, Current
  <1>3. AlignedInv'
    <2>1. Aligned(sendBuffer)'
      BY DEF Send, AlignedInv, Aligned
    <2>2. ASSUME NEW i \in 1..Len(wire') PROVE Aligned(wire'[i])
      BY SendWire DEF AlignedInv
    <2> QED BY <2>1, <2>2 DEF AlignedInv, Aligned
  <1> QED BY <1>1, <1>2, <1>3 DEF Send, history, SplitInv

\* recv
LEMMA PathReceive ==
  ASSUME PathInv, NEW n \in 1..Pieces, Receive(n)
  PROVE  PathInv'
  <1> USE DEF PathInv
  <1>1. Arrived(n) /\ Handle(Taken(n)) /\ Consume(n) /\ UNCHANGED <<client, overlapped>>
    BY DEF Receive
  <1>2. split' \in BOOLEAN /\ TypeOK
    BY DEF Receive
  <1>3. TypeOK'
    BY <1>1, <1>2, ConsumeWire, HandleType DEF TypeOK, client
  <1>4. InFunction'
    BY <1>1 DEF InFunction, Current, client
  <1>5. AlignedInv'
    <2>1. Len(wire) \in Nat
      BY DEF TypeOK
    <2>2. ASSUME NEW i \in 1..Len(wire') PROVE Aligned(wire'[i])
      <3>1. \E j \in 1..Len(wire) : wire'[i] = wire[j]
        <4>1. CASE wire' = wire
          BY <4>1
        <4>2. CASE Len(wire') = Len(wire) - 1 /\ wire'[i] = wire[i + 1]
          <5>1. i + 1 \in 1..Len(wire)
            BY <2>1, <4>2
          <5> QED BY <4>2, <5>1
        <4> QED BY <1>1, <4>1, <4>2, ConsumeWire
      <3> QED BY <3>1 DEF AlignedInv
    <2> QED BY <1>1, <2>2 DEF AlignedInv, Aligned, client
  <1>6. SplitInv'
    <2> SUFFICES ASSUME taken' # 0 PROVE split'
      BY DEF SplitInv
    <2>1. wire' # <<>>
      BY <1>1, <1>2, ConsumeWire
    <2>2. taken # 0 \/ n # Pieces
      BY <1>1, <1>2, ConsumeWire
    <2> QED BY <2>1, <2>2 DEF Receive, SplitInv
  <1> QED BY <1>3, <1>4, <1>5, <1>6

\* Every step keeps the invariant.
LEMMA PathStep == PathInv /\ [Next]_vars => PathInv'
  <1> SUFFICES ASSUME PathInv, [Next]_vars PROVE PathInv'
    OBVIOUS
  <1>1. ASSUME NEW t \in Threads, ClientStep(t) PROVE PathInv'
    BY <1>1, PathClear, PathCopy, PathSend DEF ClientStep
  <1>2. CASE ServerStep
    BY <1>2, PathReceive DEF ServerStep
  <1>3. CASE UNCHANGED vars
    BY <1>3 DEF vars, client, connection, history, PathInv, TypeOK, InFunction, Current,
                AlignedInv, Aligned, SplitInv
  <1> QED BY <1>1, <1>2, <1>3 DEF Next

\* On every path of requests the types hold.
THEOREM RequestTypeCorrect == Spec => []TypeOK
  <1>1. PathInv => TypeOK
    BY DEF PathInv
  <1> QED BY <1>1, PathInit, PathStep, PTL DEF Spec

-----------------------------------------------------------------------------
(* The refinement of RecordStream. *)

\* Untouched, for any connection: the records w without the first one if k
\* pieces of it have been taken.
Rest(w, k) == LET begun == IF k = 0 THEN 0 ELSE 1
              IN  [i \in 1..(Len(w) - begun) |-> Meaning(w[i + begun])]

\* The rest, record by record.
LEMMA RestIs ==
  ASSUME NEW w \in Seq(Record), NEW k \in Nat, k # 0 => w # <<>>
  PROVE  /\ Rest(w, k) \in Seq(Requests \union {Garbled})
         /\ Len(w) \in Nat
         /\ k = 0 => /\ Len(Rest(w, k)) = Len(w)
                     /\ \A i \in 1..Len(w) : Rest(w, k)[i] = Meaning(w[i])
         /\ k # 0 => /\ Len(w) >= 1
                     /\ Len(Rest(w, k)) = Len(w) - 1
                     /\ \A i \in 1..(Len(w) - 1) : Rest(w, k)[i] = Meaning(w[i + 1])
  <1>1. Len(w) \in Nat /\ (k # 0 => Len(w) >= 1)
    BY EmptySeq
  <1>2. CASE k = 0
    <2>1. Rest(w, k) = [i \in 1..Len(w) |-> Meaning(w[i])]
      BY <1>1, <1>2 DEF Rest
    <2>2. Rest(w, k) \in Seq(Requests \union {Garbled})
      BY <1>1, <2>1, MeaningType
    <2> QED BY <1>1, <1>2, <2>1, <2>2
  <1>3. CASE k # 0
    <2>1. Rest(w, k) = [i \in 1..(Len(w) - 1) |-> Meaning(w[i + 1])]
      BY <1>1, <1>3 DEF Rest
    <2>2. Rest(w, k) \in Seq(Requests \union {Garbled})
      BY <1>1, <1>3, <2>1, MeaningType
    <2> QED BY <1>1, <1>3, <2>1, <2>2
  <1> QED BY <1>2, <1>3

\* A record that is sent joins the rest.
LEMMA RestAppend ==
  ASSUME NEW w \in Seq(Record), NEW k \in Nat, k # 0 => w # <<>>, NEW rec \in Record
  PROVE  Rest(Append(w, rec), k) = Append(Rest(w, k), Meaning(rec))
  <1> DEFINE S == Requests \union {Garbled}
             v == Append(w, rec)
             new == Append(Rest(w, k), Meaning(rec))
  <1>1. /\ v \in Seq(Record) /\ v # <<>> /\ Len(v) = Len(w) + 1 /\ v[Len(w) + 1] = rec
        /\ \A i \in 1..Len(w) : v[i] = w[i]
    BY AppendProperties
  <1>2. Meaning(rec) \in S /\ Rest(w, k) \in Seq(S)
    BY MeaningType, RestIs
  <1>3. /\ new \in Seq(S) /\ Len(new) = Len(Rest(w, k)) + 1 /\ new[Len(Rest(w, k)) + 1] = Meaning(rec)
        /\ \A i \in 1..Len(Rest(w, k)) : new[i] = Rest(w, k)[i]
    BY <1>2, AppendProperties
  <1> HIDE DEF v, new, S
  <1>4. CASE k = 0
    <2>1. /\ Rest(v, k) \in Seq(S) /\ Len(Rest(v, k)) = Len(v)
          /\ \A i \in 1..Len(v) : Rest(v, k)[i] = Meaning(v[i])
      BY <1>1, <1>4, RestIs DEF S
    <2>2. /\ Len(w) \in Nat /\ Len(Rest(w, k)) = Len(w)
          /\ \A i \in 1..Len(w) : Rest(w, k)[i] = Meaning(w[i])
      BY <1>4, RestIs
    <2>3. ASSUME NEW i \in 1..Len(new) PROVE Rest(v, k)[i] = new[i]
      BY <1>1, <1>3, <2>1, <2>2
    <2> QED BY <1>1, <1>3, <2>1, <2>2, <2>3, SeqEqual DEF v, new
  <1>5. CASE k # 0
    <2>1. /\ Rest(v, k) \in Seq(S) /\ Len(Rest(v, k)) = Len(v) - 1
          /\ \A i \in 1..(Len(v) - 1) : Rest(v, k)[i] = Meaning(v[i + 1])
      BY <1>1, <1>5, RestIs DEF S
    <2>2. /\ Len(w) \in Nat /\ Len(w) >= 1 /\ Len(Rest(w, k)) = Len(w) - 1
          /\ \A i \in 1..(Len(w) - 1) : Rest(w, k)[i] = Meaning(w[i + 1])
      BY <1>5, RestIs
    <2>3. ASSUME NEW i \in 1..Len(new) PROVE Rest(v, k)[i] = new[i]
      <3>1. i \in 1..(Len(v) - 1) /\ i + 1 \in 1..Len(v) /\ Rest(v, k)[i] = Meaning(v[i + 1])
        BY <1>1, <1>3, <2>1, <2>2
      <3> QED BY <1>1, <1>3, <2>2, <3>1
    <2>4. Len(Rest(v, k)) = Len(new) /\ DOMAIN Rest(v, k) = 1..Len(new)
      BY <1>1, <1>3, <2>1, <2>2
    <2>5. Rest(v, k) = new
      BY <1>3, <2>1, <2>3, <2>4, SeqEqual
    <2> QED BY <2>5 DEF v, new
  <1> QED BY <1>4, <1>5

\* A recv of whole pieces of the first record only leaves the rest alone, and
\* one that begins a record takes it away.
LEMMA RestBegin ==
  ASSUME NEW w \in Seq(Record), w # <<>>, NEW k \in Nat \ {0}
  PROVE  /\ Rest(w, k) = Tail(Rest(w, 0))
         /\ Rest(Tail(w), 0) = Rest(w, k)
         /\ Rest(w, 0) # <<>> /\ Head(Rest(w, 0)) = Meaning(w[1])
  <1> DEFINE S == Requests \union {Garbled}
             all == Rest(w, 0)
             rest == Rest(w, k)
  <1>1. /\ all \in Seq(S) /\ Len(w) \in Nat /\ Len(all) = Len(w)
        /\ \A i \in 1..Len(w) : all[i] = Meaning(w[i])
    BY RestIs
  <1>2. /\ rest \in Seq(S) /\ Len(w) >= 1 /\ Len(rest) = Len(w) - 1
        /\ \A i \in 1..(Len(w) - 1) : rest[i] = Meaning(w[i + 1])
    BY RestIs
  <1>3. /\ Tail(w) \in Seq(Record) /\ Len(Tail(w)) = Len(w) - 1
        /\ \A i \in 1..Len(Tail(w)) : Tail(w)[i] = w[i + 1]
    BY HeadTailProperties
  <1>4. /\ Rest(Tail(w), 0) \in Seq(S) /\ Len(Rest(Tail(w), 0)) = Len(Tail(w))
        /\ \A i \in 1..Len(Tail(w)) : Rest(Tail(w), 0)[i] = Meaning(Tail(w)[i])
    BY <1>3, RestIs
  <1> HIDE DEF S, all, rest
  <1>5. all # <<>>
    BY <1>1, <1>2, EmptySeq
  <1>6. /\ Tail(all) \in Seq(S) /\ Len(Tail(all)) = Len(all) - 1
        /\ \A i \in 1..Len(Tail(all)) : Tail(all)[i] = all[i + 1]
    BY <1>1, <1>5, HeadTailProperties
  <1>7. rest = Tail(all)
    BY <1>1, <1>2, <1>6, SeqEqual
  <1>8. Rest(Tail(w), 0) = rest
    <2>1. Len(Rest(Tail(w), 0)) = Len(rest)
      BY <1>2, <1>3, <1>4
    <2>2. ASSUME NEW i \in 1..Len(rest) PROVE Rest(Tail(w), 0)[i] = rest[i]
      BY <1>2, <1>3, <1>4
    <2> QED BY <1>2, <1>4, <2>1, <2>2, SeqEqual
  <1>9. Head(all) = all[1] /\ all[1] = Meaning(w[1])
    BY <1>1, <1>2, <1>5
  <1> QED BY <1>5, <1>7, <1>8, <1>9 DEF all, rest

\* A send puts one more record behind the untouched ones.
LEMMA UntouchedSend ==
  ASSUME TypeOK, NEW t \in Threads, Send(t)
  PROVE  Untouched' = Append(Untouched, Meaning(sendBuffer)) /\ handled' = handled
  <1>1. wire \in Seq(Record) /\ sendBuffer \in Record /\ taken \in Nat /\ (taken # 0 => wire # <<>>)
    BY DEF TypeOK
  <1>2. wire' = Append(wire, sendBuffer) /\ taken' = taken /\ handled' = handled
    BY DEF Send
  <1>3. Rest(Append(wire, sendBuffer), taken) = Append(Rest(wire, taken), Meaning(sendBuffer))
    BY <1>1, RestAppend
  <1> QED BY <1>2, <1>3 DEF Untouched, Rest

\* What a recv does to the records of which nothing has been received: nothing,
\* or the first of them is begun.  The server acts on a request only in the
\* second case, and then on the one that record carries.
LEMMA UntouchedReceive ==
  ASSUME PathInv, NEW n \in 1..Pieces, Receive(n)
  PROVE  \/ taken # 0 /\ Untouched' = Untouched /\ handled' = handled
         \/ /\ Untouched # <<>> /\ Untouched' = Tail(Untouched)
            /\ \/ handled' = handled
               \/ /\ Head(Untouched) \in Requests
                  /\ handled' = Append(handled, Head(Untouched))
  <1>1. /\ TypeOK /\ AlignedInv /\ Arrived(n) /\ Handle(Taken(n)) /\ Consume(n)
        /\ wire \in Seq(Record) /\ wire # <<>> /\ taken \in Nat /\ taken < Pieces
    BY DEF PathInv, Receive, Arrived, TypeOK
  <1>2. Untouched = Rest(wire, taken) /\ Untouched' = Rest(wire', taken')
    BY DEF Untouched, Rest
  <1>3. CASE taken = 0
    <2>1. \/ wire' = wire /\ taken' \in Nat \ {0}
          \/ wire' = Tail(wire) /\ taken' = 0
      BY <1>1, <1>3 DEF Consume
    <2>2. Rest(wire', taken') = Tail(Rest(wire, 0)) /\ Rest(wire, 0) # <<>>
          /\ Head(Rest(wire, 0)) = Meaning(wire[1])
      <3>1. CASE wire' = wire /\ taken' \in Nat \ {0}
        BY <1>1, <3>1, RestBegin
      <3>2. CASE wire' = Tail(wire) /\ taken' = 0
        BY <1>1, <3>2, RestBegin, 1 \in Nat \ {0}
      <3> QED BY <2>1, <3>1, <3>2
    <2>3. \/ handled' = handled
          \/ Meaning(wire[1]) \in Requests /\ handled' = Append(handled, Meaning(wire[1]))
      BY <1>1, HandleType, TextTaken, MeaningOfText
    <2> QED BY <1>2, <1>3, <2>2, <2>3
  <1>4. CASE taken # 0
    <2>1. handled' = handled
      BY <1>1, <1>4, HandleType, TextTaken
    <2>2. CASE wire' = wire /\ taken' # 0
      BY <1>2, <1>4, <2>1, <2>2 DEF Rest
    <2>3. CASE wire' = Tail(wire) /\ taken' = 0
      BY <1>1, <1>2, <1>4, <2>1, <2>3, RestBegin
    <2>4. CASE wire' = Tail(wire) /\ taken' # 0 /\ taken' \in Nat
      <3>1. Len(wire) # 1
        BY <1>1, <1>4, <2>4 DEF Consume, Arrived
      <3>2. Tail(wire) \in Seq(Record) /\ Tail(wire) # <<>>
        <4>1. Tail(wire) \in Seq(Record) /\ Len(Tail(wire)) = Len(wire) - 1
          BY <1>1, HeadTailProperties
        <4>2. Len(Tail(wire)) # 0
          BY <3>1, <4>1, <1>1
        <4> QED BY <4>1, <4>2, EmptySeq
      <3>3. Rest(wire, taken) = Rest(Tail(wire), 0)
        BY <1>1, <1>4, RestBegin
      <3>4. /\ Rest(Tail(wire), taken') = Tail(Rest(Tail(wire), 0))
            /\ Rest(Tail(wire), 0) # <<>>
        BY <2>4, <3>2, RestBegin
      <3> QED BY <1>2, <2>1, <2>4, <3>3, <3>4
    <2> QED BY <1>1, <1>4, <2>2, <2>3, <2>4, ConsumeWire
  <1> QED BY <1>1, <1>3, <1>4

\* Every step of the path is a step of RecordStream or leaves its variables
\* alone.
LEMMA StreamStep == PathInv /\ [Next]_vars => [Stream!Next]_(Stream!vars)
  <1> SUFFICES ASSUME PathInv, [Next]_vars PROVE [Stream!Next]_(Stream!vars)
    OBVIOUS
  <1>1. ASSUME UNCHANGED <<connection, handled>> PROVE UNCHANGED Stream!vars
    BY <1>1 DEF Stream!vars, connection, Untouched
  <1>2. ASSUME NEW t \in Threads, ClientStep(t) PROVE [Stream!Next]_(Stream!vars)
    <2>1. CASE Clear(t) \/ Copy(t)
      BY <1>1, <2>1 DEF Clear, Copy
    <2>2. CASE Send(t)
      <3>1. Stream!Put(Meaning(sendBuffer))
        BY <2>2, UntouchedSend DEF Stream!Put, PathInv
      <3> QED BY <3>1, MeaningType DEF Stream!Next
    <2> QED BY <1>2, <2>1, <2>2 DEF ClientStep
  <1>3. ASSUME NEW n \in 1..Pieces, Receive(n) PROVE [Stream!Next]_(Stream!vars)
    <2>1. CASE Untouched' = Untouched /\ handled' = handled
      BY <2>1 DEF Stream!vars
    <2>2. CASE Untouched # <<>> /\ Untouched' = Tail(Untouched) /\ handled' = handled
      BY <2>2 DEF Stream!Next, Stream!Drop
    <2>3. CASE /\ Untouched # <<>> /\ Untouched' = Tail(Untouched)
               /\ Head(Untouched) \in Requests
               /\ handled' = Append(handled, Head(Untouched))
      BY <2>3 DEF Stream!Next, Stream!Deliver
    <2> QED BY <1>3, <2>1, <2>2, <2>3, UntouchedReceive
  <1>4. CASE UNCHANGED vars
    BY <1>1, <1>4 DEF vars
  <1> QED BY <1>2, <1>3, <1>4 DEF Next, ServerStep

\* Whatever the threads of the client do to the one buffer, and however TCP
\* cuts what they send, the server acts on records in the order in which they
\* were sent, on none of them twice, and on nothing that was not sent.
THEOREM StreamRefinement == Spec => ImplementsRecordStream
  <1>1. Init => Stream!Init
    <2> SUFFICES ASSUME Init PROVE Untouched = <<>> /\ handled = <<>>
      BY DEF Stream!Init
    <2>1. Untouched = Rest(<<>>, 0) /\ handled = <<>>
      BY DEF Init, Untouched, Rest
    <2>2. Len(Rest(<<>>, 0)) = 0 /\ Rest(<<>>, 0) \in Seq(Requests \union {Garbled})
      BY RestIs, EmptySeq
    <2> QED BY <2>1, <2>2, EmptySeq
  <1> QED BY <1>1, PathInit, PathStep, StreamStep, PTL
          DEF Spec, ImplementsRecordStream, Stream!Spec

-----------------------------------------------------------------------------
(* Losses. *)

\* A recv of all of a record that carries a request makes the server act on
\* it: to lose one, a record must be split, by this recv or an earlier one.
LEMMA LossStep ==
  PathInv /\ [Next]_vars =>
    (Len(Untouched') < Len(Untouched) /\ handled' = handled /\ Head(Untouched) # Garbled
       => split \/ split')
  <1> SUFFICES ASSUME PathInv, [Next]_vars, Len(Untouched') < Len(Untouched), handled' = handled,
                      Head(Untouched) # Garbled, ~split
               PROVE  split'
    OBVIOUS
  <1>1. TypeOK /\ AlignedInv /\ taken = 0
    BY DEF PathInv, SplitInv
  <1>2. wire \in Seq(Record) /\ sendBuffer \in Record
    BY <1>1 DEF TypeOK
  <1>3. Untouched = Rest(wire, taken) /\ Untouched' = Rest(wire', taken')
    BY DEF Untouched, Rest
  <1>4. Len(Untouched) \in Nat
    BY <1>1, <1>2, <1>3, RestIs
  <1>5. PICK n \in 1..Pieces : Receive(n)
    <2>1. CASE UNCHANGED connection
      BY <1>3, <1>4, <2>1 DEF connection
    <2>2. ASSUME NEW t \in Threads, Send(t) PROVE FALSE
      <3>1. Untouched' = Append(Untouched, Meaning(sendBuffer))
        BY <1>1, <2>2, UntouchedSend
      <3>2. Len(Untouched') = Len(Untouched) + 1
        BY <1>1, <1>2, <1>3, <3>1, RestIs, MeaningType, AppendProperties
      <3> QED BY <1>4, <3>2
    <2> QED BY <2>1, <2>2 DEF Next, ClientStep, ServerStep, Clear, Copy, vars
  <1>6. /\ Arrived(n) /\ Handle(Taken(n)) /\ Consume(n) /\ wire # <<>>
        /\ split' = (wire' # <<>> /\ n # Pieces)
    BY <1>5 DEF Receive, Arrived
  <1>7. Head(Untouched) = Meaning(wire[1])
    BY <1>1, <1>2, <1>3, <1>6, RestBegin, 1 \in Nat \ {0}
  <1>8. n # Pieces
    <2> SUFFICES ASSUME n = Pieces PROVE FALSE
      OBVIOUS
    <2>1. PICK r \in Requests : IsText(wire[1], r)
      BY <1>7, MeaningOfNoText
    <2>2. wire[1] \in Record
      BY <1>2, <1>6
    <2>3. /\ Len(Taken(n)) = Pieces /\ Len(wire[1]) = Pieces
          /\ \A i \in 1..Pieces : Taken(n)[i] = wire[1][i]
      BY <1>1, <1>6, <2>2, TakenPieces, RecordLen
    <2>4. IsText(Taken(n), r)
      BY <2>1, <2>3 DEF IsText
    <2>5. PICK s \in Requests : handled' = Append(handled, s)
      BY <1>1, <1>6, <2>4, HandleType
    <2>6. Len(handled') = Len(handled) + 1 /\ Len(handled) \in Nat
      BY <1>1, <2>5, AppendProperties DEF TypeOK
    <2> QED BY <2>6
  <1>9. wire' # <<>>
    BY <1>1, <1>6, <1>8 DEF Consume
  <1> QED BY <1>6, <1>8, <1>9

\* For any threads and any cut of the stream, a record that carries a request
\* is lost only after a recv that took part of a record.
THEOREM LossesExplained == Spec => LossNeedsSplit
  BY PathInit, PathStep, LossStep, PTL DEF Spec, LossNeedsSplit

-----------------------------------------------------------------------------
(* Order. *)

\* The first piece of a record is null or that of a request.
LEMMA FirstPiece ==
  ASSUME NEW rec \in Record, rec[1] # Blank
  PROVE  /\ rec[1][1] \in Requests /\ rec[1][1][1] \in Threads /\ rec[1][1][2] \in Nat
  <1>1. rec[1] \in Requests \X (1..Pieces)
    BY DEF Record, Piece
  <1>2. rec[1][1] \in Requests
    BY <1>1
  <1> QED BY <1>2, RequestPairs

\* Nothing has been begun in the first state.
LEMMA OrderInit == Init => OrderInv
  <1> SUFFICES ASSUME Init PROVE OrderInv
    OBVIOUS
  <1>1. sendBuffer[1] = Blank /\ Len(wire) = 0 /\ Len(handled) = 0
    BY EmptySeq DEF Init
  <1> QED BY <1>1 DEF OrderInv, Begins, NoneBefore

\* memset: the buffer begins with nothing, and one more request is begun.
LEMMA OrderClear ==
  ASSUME PathInv, OrderInv, NEW t \in Threads, Clear(t)
  PROVE  OrderInv'
  <1>1. sendBuffer'[1] = Blank /\ wire' = wire /\ handled' = handled /\ TypeOK
    BY DEF Clear, connection, PathInv
  <1>2. ASSUME NEW p, p[1] \in Threads, p[2] \in Nat, Begun(p) PROVE p[2] <= made'[p[1]]
    BY <1>1, <1>2 DEF Clear, TypeOK, Begun
  <1>3. ASSUME NEW i \in 1..Len(wire) PROVE Begins(wire[i])'
    <2>1. wire[i] \in Record /\ Begins(wire[i])
      BY <1>1, <1>3 DEF OrderInv, TypeOK
    <2> QED BY <1>1, <1>2, <2>1, FirstPiece DEF Begins, Begun
  <1>4. ASSUME NEW i \in 1..Len(handled) PROVE Begun(handled[i])'
    <2>1. handled[i] \in Requests /\ Begun(handled[i])
      BY <1>1, <1>4 DEF OrderInv, TypeOK
    <2>2. handled[i][1] \in Threads /\ handled[i][2] \in Nat
      BY <2>1, RequestPairs
    <2> QED BY <1>1, <1>2, <2>1, <2>2 DEF Begun
  <1> QED BY <1>1, <1>3, <1>4 DEF OrderInv, NoneBefore, NotBefore, Begins

\* strcpy: the buffer begins with what it began with, or with the youngest
\* request of the thread.
LEMMA OrderCopy ==
  ASSUME PathInv, OrderInv, NEW t \in Threads, Copy(t)
  PROVE  OrderInv'
  <1>1. TypeOK /\ wire' = wire /\ handled' = handled /\ made' = made
    BY DEF Copy, connection, PathInv
  <1>2. copied[t] \in Nat /\ copied[t] < TextLen[Current(t)] /\ Current(t) \in Requests
        /\ TextLen[Current(t)] \in 1..Pieces
    BY <1>1, CurrentIsRequest DEF Copy, InFunction, PathInv, TypeOK
  <1>3. sendBuffer'[1] = sendBuffer[1] \/ sendBuffer'[1] = <<<<t, made[t]>>, 1>>
    BY <1>1, <1>2 DEF Copy, TypeOK, Record, Current
  <1>4. made[t] \in Nat
    BY <1>1 DEF TypeOK
  <1>5. Begins(sendBuffer)'
    <2>1. Begins(sendBuffer)
      BY DEF OrderInv
    <2> QED BY <1>1, <1>3, <1>4, <2>1 DEF Begins, Begun
  <1>6. ASSUME NEW p, Begun(p), NoneBefore(sendBuffer, p) PROVE NoneBefore(sendBuffer, p)'
    BY <1>3, <1>6 DEF NoneBefore, NotBefore, Begun
  <1>7. \A i \in 1..Len(wire) : Begins(wire[i])'
    BY <1>1 DEF OrderInv, Begins, Begun
  <1>8. ASSUME NEW i \in 1..Len(wire), wire[i][1] # Blank
        PROVE  NoneBefore(sendBuffer, wire[i][1][1])'
    BY <1>1, <1>6, <1>8 DEF OrderInv, Begins
  <1>9. ASSUME NEW i \in 1..Len(handled) PROVE Begun(handled[i])' /\ NoneBefore(sendBuffer, handled[i])'
    BY <1>1, <1>6 DEF OrderInv, Begun
  <1> QED BY <1>1, <1>5, <1>7, <1>8, <1>9 DEF OrderInv, NoneBefore, NotBefore, Begins

\* send: the new record begins with what the buffer begins with.
LEMMA OrderSend ==
  ASSUME PathInv, OrderInv, NEW t \in Threads, Send(t)
  PROVE  OrderInv'
  <1>1. TypeOK /\ sendBuffer' = sendBuffer /\ handled' = handled /\ made' = made
    BY DEF Send, PathInv
  <1>2. /\ Len(wire') = Len(wire) + 1 /\ Len(wire) \in Nat
        /\ \A i \in 1..Len(wire) : wire'[i] = wire[i]
        /\ wire'[Len(wire) + 1] = sendBuffer
    BY <1>1, SendWire
  <1>3. ASSUME NEW i \in 1..Len(wire') PROVE i \in 1..Len(wire) \/ i = Len(wire) + 1
    BY <1>2
  <1>4. ASSUME NEW i \in 1..Len(wire') PROVE Begins(wire[i])'
    <2>1. Begins(wire'[i])
      BY <1>2, <1>3 DEF OrderInv
    <2> QED BY <1>1, <2>1 DEF Begins, Begun
  <1>5. NoneBefore(sendBuffer, sendBuffer[1][1]) \/ sendBuffer[1] = Blank
    BY <1>1, FirstPiece DEF NoneBefore, NotBefore, TypeOK
  <1>6. ASSUME NEW i \in 1..Len(wire'), wire'[i][1] # Blank
        PROVE  /\ NoneBefore(sendBuffer, wire'[i][1][1])
               /\ \A j \in i..Len(wire') : NoneBefore(wire'[j], wire'[i][1][1])
    <2>1. NoneBefore(sendBuffer, wire'[i][1][1])
      BY <1>2, <1>3, <1>5, <1>6 DEF OrderInv
    <2>2. ASSUME NEW j \in i..Len(wire'), j # Len(wire) + 1 PROVE NoneBefore(wire'[j], wire'[i][1][1])
      <3>1. i \in 1..Len(wire) /\ j \in i..Len(wire) /\ j \in 1..Len(wire)
        BY <1>2, <2>2
      <3> QED BY <1>2, <1>6, <3>1 DEF OrderInv
    <2> QED BY <1>2, <2>1, <2>2
  <1>7. ASSUME NEW i \in 1..Len(handled), NEW j \in 1..Len(wire')
        PROVE  NoneBefore(wire'[j], handled[i])
    BY <1>2, <1>3 DEF OrderInv
  <1> QED BY <1>1, <1>4, <1>6, <1>7 DEF OrderInv, Begins, Begun, NoneBefore, NotBefore

\* recv: what is acted on is what the first record begins with.
LEMMA OrderReceive ==
  ASSUME PathInv, OrderInv, NEW n \in 1..Pieces, Receive(n)
  PROVE  OrderInv'
  <1>1. /\ TypeOK /\ AlignedInv /\ Arrived(n) /\ Handle(Taken(n)) /\ Consume(n)
        /\ sendBuffer' = sendBuffer /\ made' = made
        /\ Len(wire) \in Nat /\ Len(wire) >= 1
    BY EmptySeq DEF PathInv, Receive, Arrived, client, TypeOK
  <1>2. \E d \in {0, 1} : Len(wire') = Len(wire) - d /\ \A i \in 1..Len(wire') : wire'[i] = wire[i + d]
    BY <1>1, ConsumeWire
  <1>3. PICK d \in {0, 1} : Len(wire') = Len(wire) - d /\ \A i \in 1..Len(wire') : wire'[i] = wire[i + d]
    BY <1>2
  <1>4. ASSUME NEW i \in 1..Len(wire') PROVE i + d \in 1..Len(wire) /\ wire'[i] = wire[i + d]
    BY <1>1, <1>3
  <1>5. Begins(sendBuffer)'
    BY <1>1 DEF OrderInv, Begins, Begun
  <1>6. ASSUME NEW i \in 1..Len(wire') PROVE Begins(wire[i])'
    BY <1>1, <1>4 DEF OrderInv, Begins, Begun
  <1>7. ASSUME NEW i \in 1..Len(wire'), wire'[i][1] # Blank
        PROVE  /\ NoneBefore(sendBuffer', wire'[i][1][1])
               /\ \A j \in i..Len(wire') : NoneBefore(wire'[j], wire'[i][1][1])
    <2>1. ASSUME NEW j \in i..Len(wire') PROVE NoneBefore(wire'[j], wire'[i][1][1])
      <3>1. j \in 1..Len(wire') /\ j + d \in (i + d)..Len(wire)
        BY <1>1, <1>3
      <3> QED BY <1>4, <1>7, <3>1 DEF OrderInv
    <2>2. NoneBefore(sendBuffer, wire'[i][1][1])
      BY <1>4, <1>7 DEF OrderInv
    <2> QED BY <1>1, <2>1, <2>2
  <1>8. ASSUME NEW p, Begun(p), NoneBefore(sendBuffer, p),
               \A j \in 1..Len(wire) : NoneBefore(wire[j], p)
        PROVE  /\ p[2] <= made'[p[1]] /\ NoneBefore(sendBuffer', p)
               /\ \A j \in 1..Len(wire') : NoneBefore(wire'[j], p)
    BY <1>1, <1>4, <1>8 DEF Begun
  <1>9. CASE handled' = handled
    <2>1. ASSUME NEW i \in 1..Len(handled)
          PROVE  /\ Begun(handled[i])' /\ NoneBefore(sendBuffer', handled'[i])
                 /\ \A j \in 1..Len(wire') : NoneBefore(wire'[j], handled'[i])
      BY <1>8, <1>9 DEF OrderInv, Begun
    <2> QED BY <1>5, <1>6, <1>7, <1>9, <2>1 DEF OrderInv
  <1>10. CASE handled' # handled
    <2>1. PICK r \in Requests :
            /\ IsText(Taken(n), r) /\ Len(handled') = Len(handled) + 1
            /\ \A i \in 1..Len(handled) : handled'[i] = handled[i]
            /\ handled'[Len(handled) + 1] = r
      BY <1>1, <1>10, HandleType
    <2>2. wire[1][1] = <<r, 1>> /\ wire[1][1] # Blank /\ wire[1][1][1] = r
      <3>1. wire[1][1] = <<r, 1>>
        BY <1>1, <2>1, TextTaken
      <3>2. <<r, 1>> \in Requests \X (1..Pieces)
        OBVIOUS
      <3> QED BY <3>1, <3>2
    <2>3. Len(handled) \in Nat
      BY <1>1 DEF TypeOK
    <2>4. Begun(r) /\ NoneBefore(sendBuffer, r) /\ \A j \in 1..Len(wire) : NoneBefore(wire[j], r)
      <3>1. 1 \in 1..Len(wire) /\ \A j \in 1..Len(wire) : j \in 1..Len(wire)
        BY <1>1
      <3> QED BY <2>2, <3>1 DEF OrderInv, Begins
    <2>5. ASSUME NEW i \in 1..Len(handled')
          PROVE  /\ Begun(handled'[i])
                 /\ NoneBefore(sendBuffer, handled'[i])
                 /\ \A j \in 1..Len(wire) : NoneBefore(wire[j], handled'[i])
      <3>1. i \in 1..Len(handled) \/ i = Len(handled) + 1
        BY <2>1, <2>3
      <3> QED BY <2>1, <2>4, <3>1 DEF OrderInv
    <2>6. ASSUME NEW i \in 1..Len(handled'), NEW j \in i..Len(handled')
          PROVE  NotBefore(handled'[j], handled'[i])
      <3>1. CASE j \in 1..Len(handled)
        <4>1. i \in 1..Len(handled) /\ j \in i..Len(handled)
          BY <2>3, <3>1
        <4> QED BY <2>1, <3>1, <4>1 DEF OrderInv
      <3>2. CASE j = Len(handled) + 1 /\ i \in 1..Len(handled)
        <4>1. NoneBefore(wire[1], handled[i])
          <5>1. 1 \in 1..Len(wire)
            BY <1>1
          <5> QED BY <3>2, <5>1 DEF OrderInv
        <4> QED BY <2>1, <2>2, <3>2, <4>1 DEF NoneBefore
      <3>3. CASE j = Len(handled) + 1 /\ i = Len(handled) + 1
        <4>1. r[2] \in Nat
          BY RequestPairs
        <4> QED BY <2>1, <3>3, <4>1 DEF NotBefore
      <3> QED BY <2>1, <2>3, <3>1, <3>2, <3>3
    <2>7. ASSUME NEW i \in 1..Len(handled')
          PROVE  /\ Begun(handled[i])' /\ NoneBefore(sendBuffer', handled'[i])
                 /\ \A j \in 1..Len(wire') : NoneBefore(wire'[j], handled'[i])
      BY <1>1, <1>4, <2>5 DEF Begun
    <2> QED BY <1>5, <1>6, <1>7, <2>6, <2>7 DEF OrderInv
  <1> QED BY <1>9, <1>10

\* Every step keeps the order.
LEMMA OrderStep == PathInv /\ OrderInv /\ [Next]_vars => OrderInv'
  <1> SUFFICES ASSUME PathInv, OrderInv, [Next]_vars PROVE OrderInv'
    OBVIOUS
  <1>1. ASSUME NEW t \in Threads, ClientStep(t) PROVE OrderInv'
    BY <1>1, OrderClear, OrderCopy, OrderSend DEF ClientStep
  <1>2. CASE ServerStep
    BY <1>2, OrderReceive DEF ServerStep
  <1>3. CASE UNCHANGED vars
    BY <1>3 DEF vars, client, connection, OrderInv, Begins, Begun, NoneBefore, NotBefore
  <1> QED BY <1>1, <1>2, <1>3 DEF Next

-----------------------------------------------------------------------------
(* Without an overlap. *)

\* Untouched is a sequence of requests and garbled records.
LEMMA UntouchedType ==
  TypeOK => Untouched \in Seq(Requests \union {Garbled}) /\ Len(Untouched) \in Nat
  <1> SUFFICES ASSUME TypeOK
               PROVE  Untouched \in Seq(Requests \union {Garbled}) /\ Len(Untouched) \in Nat
    OBVIOUS
  <1>1. wire \in Seq(Record) /\ taken \in Nat /\ (taken # 0 => wire # <<>>)
    BY DEF TypeOK
  <1>2. Rest(wire, taken) \in Seq(Requests \union {Garbled})
    BY <1>1, RestIs
  <1>3. Untouched = Rest(wire, taken)
    BY DEF Untouched, Rest
  <1>4. Untouched \in Seq(Requests \union {Garbled})
    BY <1>2, <1>3
  <1> HIDE DEF Untouched
  <1> QED BY <1>4, LenProperties

\* Nothing has been sent in the first state.
LEMMA IntactInit == Init => IntactInv
  <1> SUFFICES ASSUME Init PROVE Intact
    BY DEF IntactInv
  <1>1. Untouched = Rest(<<>>, 0) /\ Len(handled) = 0
    BY EmptySeq DEF Init, Untouched, Rest
  <1>2. Len(Rest(<<>>, 0)) = 0
    BY RestIs, EmptySeq
  <1> QED BY <1>1, <1>2 DEF Intact, Init, Alone, BufferInv, Left

\* What makes a request leave send_function, or keep away from it.
LEMMA IntactKept ==
  ASSUME TypeOK, Intact, Untouched' = Untouched, handled' = handled, Alone', BufferInv',
         \A q \in Requests : Left(q) => Left(q)'
  PROVE  Intact'
  <1>1. \A i \in 1..Len(handled) : handled[i] \in Requests
    BY DEF TypeOK
  <1>2. \A i \in 1..Len(handled) : Left(handled[i])'
    BY <1>1 DEF Intact, Left, Begun
  <1>3. \A i \in 1..Len(Untouched) : Untouched[i] \in Requests /\ Left(Untouched[i])'
    BY DEF Intact, Left, Begun
  <1> QED BY <1>2, <1>3 DEF Intact, Left, Begun

\* memset, with no other thread inside send_function: the request that is
\* begun is a new one.
LEMMA IntactClear ==
  ASSUME PathInv, Intact, NEW t \in Threads, Clear(t), ~overlapped'
  PROVE  Intact'
  <1>1. /\ TypeOK /\ handled' = handled /\ wire' = wire /\ taken' = taken
        /\ \A u \in Threads : pc[u] = "idle"
    BY DEF PathInv, Clear, connection
  <1>2. \A u \in Threads : IF u = t THEN pc'[u] = "copy" /\ copied'[u] = 0 /\ made'[u] = made[u] + 1
                                    ELSE pc'[u] = "idle" /\ made'[u] = made[u]
    BY <1>1 DEF Clear, TypeOK
  <1>3. Alone'
    BY <1>2 DEF Alone
  <1>4. BufferInv'
    BY <1>2 DEF BufferInv
  <1>5. ASSUME NEW q \in Requests, Left(q) PROVE Left(q)'
    <2>1. q[1] \in Threads /\ q[2] \in Nat /\ made[q[1]] \in Nat
      BY <1>1, RequestPairs DEF TypeOK
    <2> QED BY <1>2, <1>5, <2>1 DEF Left, Begun
  <1>6. Untouched' = Untouched
    BY <1>1 DEF Untouched
  <1> QED BY <1>1, <1>3, <1>4, <1>5, <1>6, IntactKept

\* strcpy: the buffer holds one piece more of the thread's own text.
LEMMA IntactCopy ==
  ASSUME PathInv, Intact, NEW t \in Threads, Copy(t)
  PROVE  Intact'
  <1>1. /\ TypeOK /\ handled' = handled /\ wire' = wire /\ taken' = taken /\ made' = made
        /\ pc[t] = "copy"
    BY DEF PathInv, Copy, connection
  <1>2. /\ copied[t] \in Nat /\ copied[t] < TextLen[Current(t)] /\ Current(t) \in Requests
        /\ TextLen[Current(t)] \in 1..Pieces
    BY <1>1, CurrentIsRequest DEF InFunction, PathInv, TypeOK
  <1>3. \A u \in Threads : pc'[u] # "idle" <=> pc[u] # "idle"
    BY <1>1 DEF Copy, TypeOK
  <1>4. Alone'
    BY <1>3 DEF Alone, Intact
  <1>5. BufferInv'
    <2> SUFFICES ASSUME NEW u \in Threads, NEW i \in 1..Pieces,
                        \/ pc'[u] = "copy" /\ i <= copied'[u]
                        \/ pc'[u] = "send" /\ i <= TextLen[Current(u)']
                 PROVE  sendBuffer'[i] = <<Current(u)', i>>
      BY DEF BufferInv
    <2>1. Current(u)' = Current(u) /\ u = t
      BY <1>1, <1>3 DEF Current, Alone, Intact
    <2>2. copied'[t] = copied[t] + 1
          /\ (pc'[t] = "send" => TextLen[Current(t)] = copied[t] + 1)
      BY <1>1, <1>2 DEF Copy, TypeOK
    <2>3. i <= copied[t] \/ i = copied[t] + 1
      BY <1>2, <2>1, <2>2
    <2>4. sendBuffer'[i] = IF i = copied[t] + 1 THEN <<Current(t), i>> ELSE sendBuffer[i]
      BY <1>1 DEF Copy, TypeOK, Record
    <2>5. i <= copied[t] => sendBuffer[i] = <<Current(t), i>>
      BY <1>1 DEF Intact, BufferInv
    <2> QED BY <2>1, <2>3, <2>4, <2>5
  <1>6. ASSUME NEW q \in Requests, Left(q) PROVE Left(q)'
    <2>1. q[1] \in Threads
      BY RequestPairs
    <2> QED BY <1>1, <1>3, <1>6, <2>1 DEF Left, Begun
  <1>7. Untouched' = Untouched
    BY <1>1 DEF Untouched
  <1> QED BY <1>1, <1>4, <1>5, <1>6, <1>7, IntactKept

\* send: the buffer holds the whole text, and its request has not been sent
\* before.
LEMMA IntactSend ==
  ASSUME PathInv, Intact, NEW t \in Threads, Send(t)
  PROVE  Intact'
  <1>1. TypeOK /\ handled' = handled /\ made' = made /\ pc[t] = "send" /\ made[t] \in Nat
    BY DEF PathInv, Send, TypeOK
  <1>2. /\ Current(t) \in Requests /\ TextLen[Current(t)] \in 1..Pieces
        /\ Current(t)[1] = t /\ Current(t)[2] = made[t]
    BY <1>1, CurrentIsRequest DEF PathInv, Current
  <1>3. \A u \in Threads : pc'[u] = "idle"
    BY <1>1 DEF Send, Alone, Intact, TypeOK
  <1>4. Meaning(sendBuffer) = Current(t)
    <2>1. \A i \in 1..TextLen[Current(t)] : sendBuffer[i] = <<Current(t), i>>
      BY <1>1, <1>2 DEF Intact, BufferInv
    <2>2. Len(sendBuffer) = Pieces
      BY <1>1, RecordLen DEF TypeOK
    <2>3. IsText(sendBuffer, Current(t))
      BY <1>2, <2>1, <2>2 DEF IsText
    <2> QED BY <1>2, <2>3, MeaningOfText
  <1>5. /\ Len(Untouched) \in Nat /\ Len(Untouched') = Len(Untouched) + 1
        /\ \A i \in 1..Len(Untouched) : Untouched'[i] = Untouched[i]
        /\ Untouched'[Len(Untouched) + 1] = Current(t)
    BY <1>1, <1>2, <1>4, UntouchedSend, UntouchedType, AppendProperties
  <1>6. ASSUME NEW i \in 1..Len(Untouched')
        PROVE  i \in 1..Len(Untouched) \/ i = Len(Untouched) + 1
    BY <1>5
  <1>7. ASSUME NEW q \in Requests, Left(q) PROVE Left(q)' /\ q # Current(t)
    <2>1. q[1] \in Threads
      BY RequestPairs
    <2> QED BY <1>1, <1>2, <1>3, <1>7, <2>1 DEF Left, Begun
  <1>8. Begun(Current(t))' /\ pc'[Current(t)[1]] = "idle"
    BY <1>1, <1>2, <1>3 DEF Begun, Current
  <1>9. ASSUME NEW i \in 1..Len(Untouched')
        PROVE  Untouched'[i] \in Requests /\ Left(Untouched[i])'
    <2>1. CASE i \in 1..Len(Untouched)
      <3>1. Untouched[i] \in Requests /\ Left(Untouched[i])
        BY <2>1 DEF Intact
      <3>2. PICK q \in Requests : q = Untouched[i] /\ Left(q)
        BY <3>1
      <3>3. Left(q)' /\ Untouched'[i] = q
        BY <1>5, <1>7, <2>1, <3>2
      <3> QED BY <3>3 DEF Left, Begun
    <2>2. CASE i = Len(Untouched) + 1
      <3>1. Untouched'[i] = Current(t)
        BY <1>5, <2>2
      <3>2. Untouched'[i][2] <= made'[Untouched'[i][1]] /\ pc'[Untouched'[i][1]] = "idle"
        BY <1>1, <1>2, <1>3, <3>1
      <3> QED BY <1>2, <3>1, <3>2 DEF Left, Begun
    <2> QED BY <1>6, <2>1, <2>2
  <1>10. \A i \in 1..Len(handled) : handled[i] \in Requests /\ Left(handled[i])' /\ handled[i] # Current(t)
    BY <1>1, <1>7 DEF Intact, TypeOK
  <1>11. \A i, j \in 1..Len(Untouched') : i # j => Untouched'[i] # Untouched'[j]
    BY <1>5, <1>6, <1>7 DEF Intact
  <1>12. \A i \in 1..Len(Untouched'), j \in 1..Len(handled) : Untouched'[i] # handled[j]
    BY <1>5, <1>6, <1>10 DEF Intact
  <1>13. Alone' /\ BufferInv'
    BY <1>3 DEF Alone, BufferInv
  <1> QED BY <1>1, <1>9, <1>10, <1>11, <1>12, <1>13 DEF Intact, Left, Begun

\* recv: the first request leaves the connection, acted on or lost.
LEMMA IntactReceive ==
  ASSUME PathInv, Intact, NEW n \in 1..Pieces, Receive(n)
  PROVE  Intact'
  <1>1. TypeOK /\ UNCHANGED client
    BY DEF PathInv, Receive
  <1>2. Alone' /\ BufferInv'
    BY <1>1 DEF client, Alone, BufferInv, Current, Intact
  <1>3. \A q : Left(q)' <=> Left(q)
    BY <1>1 DEF client, Left, Begun
  <1>4. CASE Untouched' = Untouched /\ handled' = handled
    BY <1>1, <1>2, <1>3, <1>4, IntactKept
  <1>5. CASE Untouched # <<>> /\ Untouched' = Tail(Untouched)
    <2>1. Untouched \in Seq(Requests \union {Garbled}) /\ Len(Untouched) \in Nat
      BY <1>1, UntouchedType
    <2>2. /\ Len(Untouched) >= 1 /\ Len(Untouched') = Len(Untouched) - 1
          /\ \A i \in 1..Len(Untouched') : Untouched'[i] = Untouched[i + 1]
          /\ Head(Untouched) = Untouched[1]
      BY <1>5, <2>1, HeadTailProperties, EmptySeq
    <2>3. ASSUME NEW i \in 1..Len(Untouched')
          PROVE  i + 1 \in 1..Len(Untouched) /\ i + 1 # 1 /\ Untouched'[i] = Untouched[i + 1]
      BY <2>1, <2>2
    <2>4. 1 \in 1..Len(Untouched)
      BY <2>1, <2>2
    <2>5. \A i \in 1..Len(Untouched') :
            Untouched'[i] \in Requests /\ Left(Untouched'[i]) /\ Untouched'[i] # Untouched[1]
      BY <2>3, <2>4 DEF Intact
    <2>6. \A i, j \in 1..Len(Untouched') : i # j => Untouched'[i] # Untouched'[j]
      BY <2>3 DEF Intact
    <2>7. \A i \in 1..Len(Untouched'), j \in 1..Len(handled) : Untouched'[i] # handled[j]
      BY <2>3 DEF Intact
    <2>8. CASE handled' = handled
      BY <1>2, <1>3, <2>5, <2>6, <2>7, <2>8 DEF Intact, Left, Begun
    <2>9. CASE Head(Untouched) \in Requests /\ handled' = Append(handled, Head(Untouched))
      <3>1. /\ Len(handled) \in Nat /\ Len(handled') = Len(handled) + 1
            /\ \A i \in 1..Len(handled) : handled'[i] = handled[i]
            /\ handled'[Len(handled) + 1] = Untouched[1]
        BY <1>1, <2>2, <2>9, AppendProperties DEF TypeOK
      <3>2. ASSUME NEW i \in 1..Len(handled') PROVE i \in 1..Len(handled) \/ i = Len(handled) + 1
        BY <3>1
      <3>3. \A i \in 1..Len(handled') : Left(handled'[i])
        BY <2>4, <3>1, <3>2 DEF Intact
      <3>4. ASSUME NEW i \in 1..Len(handled'), NEW j \in 1..Len(handled'), i # j
            PROVE  handled'[i] # handled'[j]
        <4>1. CASE i \in 1..Len(handled) /\ j \in 1..Len(handled)
          BY <3>1, <3>4, <4>1 DEF Intact
        <4>2. CASE i = Len(handled) + 1 /\ j \in 1..Len(handled)
          BY <2>4, <3>1, <4>2 DEF Intact
        <4>3. CASE i \in 1..Len(handled) /\ j = Len(handled) + 1
          BY <2>4, <3>1, <4>3 DEF Intact
        <4> QED BY <3>2, <3>4, <4>1, <4>2, <4>3
      <3>5. \A i \in 1..Len(Untouched'), j \in 1..Len(handled') : Untouched'[i] # handled'[j]
        BY <2>5, <2>7, <3>1, <3>2
      <3> QED BY <1>2, <1>3, <2>5, <2>6, <3>3, <3>4, <3>5 DEF Intact, Left, Begun
    <2> QED BY <2>8, <2>9, UntouchedReceive, <1>4
  <1> QED BY <1>4, <1>5, UntouchedReceive

\* Every step without an overlap keeps the requests intact.
LEMMA IntactStep == PathInv /\ IntactInv /\ [Next]_vars => IntactInv'
  <1> SUFFICES ASSUME PathInv, IntactInv, [Next]_vars, ~overlapped' PROVE Intact'
    BY DEF IntactInv
  <1>1. ASSUME NEW t \in Threads, ClientStep(t) PROVE Intact'
    <2>1. ~overlapped
      BY <1>1 DEF ClientStep, Clear, Copy, Send, history
    <2>2. Intact
      BY <2>1 DEF IntactInv
    <2> QED BY <1>1, <2>2, IntactClear, IntactCopy, IntactSend DEF ClientStep
  <1>2. ASSUME NEW n \in 1..Pieces, Receive(n) PROVE Intact'
    <2>1. ~overlapped
      BY <1>2 DEF Receive
    <2>2. Intact
      BY <2>1 DEF IntactInv
    <2> QED BY <1>2, <2>2, IntactReceive
  <1>3. CASE UNCHANGED vars
    <2>1. Intact /\ TypeOK
      BY <1>3 DEF vars, history, IntactInv, PathInv
    <2>2. Untouched' = Untouched
      BY <1>3 DEF vars, connection, Untouched
    <2> QED BY <1>3, <2>1, <2>2, IntactKept
            DEF vars, client, Alone, BufferInv, Current, Left, Begun, Intact
  <1> QED BY <1>1, <1>2, <1>3 DEF Next, ServerStep
-----------------------------------------------------------------------------
(* The two theorems on what the server is given. *)

\* Every state a run reaches satisfies the three inductive invariants.
LEMMA Reached == Spec => [](PathInv /\ OrderInv /\ IntactInv)
  <1>1. Init => PathInv /\ OrderInv /\ IntactInv
    BY PathInit, OrderInit, IntactInit
  <1>2. /\ PathInv /\ OrderInv /\ IntactInv
        /\ [Next]_vars
        => (PathInv /\ OrderInv /\ IntactInv)'
    BY PathStep, OrderStep, IntactStep
  <1> QED BY <1>1, <1>2, PTL DEF Spec

\* As long as no send_function has begun inside another one, what the server
\* has acted on and what it has yet to receive are requests, none of them
\* twice.
THEOREM RequestsIntact == Spec => []IntactUnlessOverlapped
  <1>1. PathInv /\ IntactInv => IntactUnlessOverlapped
    <2> SUFFICES ASSUME PathInv, Intact PROVE IntactUnlessOverlapped
      BY DEF IntactInv, IntactUnlessOverlapped
    <2>1. /\ handled \in Seq(Requests \union {Garbled})
          /\ Len(handled) \in Nat
          /\ \A i \in 1..Len(handled) : handled[i] \in Requests
      BY DEF PathInv, TypeOK
    <2>2. Untouched \in Seq(Requests \union {Garbled}) /\ Len(Untouched) \in Nat
      BY UntouchedType DEF PathInv
    <2> DEFINE out == handled \o Untouched
    <2>3. /\ out \in Seq(Requests \union {Garbled})
          /\ Len(out) = Len(handled) + Len(Untouched)
          /\ \A i \in 1..Len(out) : out[i] = IF i <= Len(handled) THEN handled[i]
                                              ELSE Untouched[i - Len(handled)]
      BY <2>1, <2>2, ConcatProperties
    <2> HIDE DEF out
    <2>4. ASSUME NEW i \in 1..Len(out)
          PROVE  \/ i \in 1..Len(handled) /\ out[i] = handled[i]
                 \/ /\ i - Len(handled) \in 1..Len(Untouched)
                    /\ out[i] = Untouched[i - Len(handled)]
      BY <2>1, <2>2, <2>3
    <2>5. ASSUME NEW i \in 1..Len(out) PROVE out[i] # Garbled
      <3>1. out[i] \in Requests
        BY <2>1, <2>4 DEF Intact
      <3> QED BY <3>1 DEF Garbled
    <2>6. ASSUME NEW i \in 1..Len(out), NEW j \in 1..Len(out), i # j PROVE out[i] # out[j]
      <3>1. CASE i \in 1..Len(handled) /\ j \in 1..Len(handled)
        BY <2>3, <2>6, <3>1 DEF Intact
      <3>2. CASE i \in 1..Len(handled) /\ j \notin 1..Len(handled)
        <4>1. out[i] = handled[i] /\ j - Len(handled) \in 1..Len(Untouched)
              /\ out[j] = Untouched[j - Len(handled)]
          BY <2>1, <2>4, <3>2
        <4>2. Untouched[j - Len(handled)] # handled[i]
          BY <3>2, <4>1 DEF Intact
        <4> QED BY <4>1, <4>2
      <3>3. CASE i \notin 1..Len(handled) /\ j \in 1..Len(handled)
        BY <2>4, <3>3 DEF Intact
      <3>4. CASE i \notin 1..Len(handled) /\ j \notin 1..Len(handled)
        <4>1. i - Len(handled) # j - Len(handled)
          BY <2>1, <2>6
        <4> QED BY <2>4, <3>4, <4>1 DEF Intact
      <3> QED BY <3>1, <3>2, <3>3, <3>4
    <2>7. DOMAIN out = 1..Len(out)
      BY <2>3, LenProperties
    <2> QED BY <2>5, <2>6, <2>7 DEF IntactUnlessOverlapped, out
  <1> QED BY <1>1, Reached, PTL

\* The server never acts on an older request of a thread after a newer one,
\* and on the same one again only after sends have overlapped.
THEOREM OrderKept == Spec => []ThreadOrder
  <1>1. PathInv /\ OrderInv /\ IntactInv => ThreadOrder
    <2> SUFFICES ASSUME PathInv, OrderInv, IntactInv,
                        NEW i \in DOMAIN handled, NEW j \in DOMAIN handled,
                        i < j, handled[i][1] = handled[j][1]
                 PROVE  \/ handled[i][2] < handled[j][2]
                        \/ handled[i] = handled[j] /\ overlapped
      BY DEF ThreadOrder
    <2>1. i \in 1..Len(handled) /\ j \in 1..Len(handled) /\ j \in i..Len(handled)
      BY LenProperties DEF PathInv, TypeOK
    <2>2. handled[i] \in Requests /\ handled[j] \in Requests
      BY <2>1 DEF PathInv, TypeOK
    <2>3. handled[i][2] \in Nat /\ handled[j][2] \in Nat /\ handled[i][2] <= handled[j][2]
      BY <2>1, <2>2, RequestPairs DEF OrderInv, NotBefore
    <2>4. handled[i][2] = handled[j][2] => handled[i] = handled[j]
      BY <2>2, RequestPairs
    <2>5. handled[i] = handled[j] => overlapped
      BY <2>1 DEF IntactInv, Intact
    <2> QED BY <2>3, <2>4, <2>5
  <1> QED BY <1>1, Reached, PTL
=============================================================================
