----------------------------- MODULE RequestPath -----------------------------
(***************************************************************************)
(* The way of a request from exec_cmd in src/client/main.c to                *)
(* handle_client_message in src/server/server.c.                             *)
(*                                                                           *)
(* Three threads of the client (the GTK thread, recv_thread and              *)
(* auto_update_thread) call send_function, which clears send_buffer, copies  *)
(* the text into it and sends all BUFFER_SIZE bytes, with no lock around it. *)
(* The server takes what one recv returns for one record, though TCP may     *)
(* hand a record over in several parts.                                      *)
(*                                                                           *)
(* A record is cut into Pieces pieces.  The text of a request fills the      *)
(* first TextLen of them, its terminating null byte included; the others are *)
(* null bytes.  cJSON_Parse accepts a buffer when the text it begins with is *)
(* that of one request; what follows the text does not matter.               *)
(***************************************************************************)
EXTENDS Naturals, Sequences

CONSTANTS Threads,     \* threads of the client that send
          Quota,       \* Quota[t]: requests thread t makes (a bound)
          Pieces,      \* pieces a record of BUFFER_SIZE bytes is cut into
          TextLen,     \* TextLen[r]: pieces the text of request r fills
          Blank,       \* a piece of null bytes
          MaxInFlight  \* records the connection holds before send blocks

Requests == UNION {{t} \X (1..Quota[t]) : t \in Threads}

ASSUME QuotaAssumption == Quota \in [Threads -> Nat]
ASSUME PiecesAssumption == Pieces \in Nat \ {0}
ASSUME TextAssumption == TextLen \in [Requests -> 1..Pieces]
ASSUME FlightAssumption == MaxInFlight \in Nat \ {0}
ASSUME BlankAssumption == Blank \notin Requests \union (Requests \X (1..Pieces))

Piece  == (Requests \X (1..Pieces)) \union {Blank}
Record == [1..Pieces -> Piece]

VARIABLES
  sendBuffer,  \* send_buffer of the client
  pc,          \* pc[t]: where thread t is in send_function
  copied,      \* copied[t]: pieces its strcpy has written
  made,        \* made[t]: requests thread t has begun
  wire,        \* records sent and not yet received to the end, oldest first
  taken,       \* pieces of the first of them that have been received
  server,      \* "up", or "down" once the process has ended
  handled,     \* requests the server has acted on
  overlapped,  \* a send_function has begun inside another one (history)
  split        \* since the connection was last empty, a recv took part of a record (history)

client     == <<sendBuffer, pc, copied, made>>
connection == <<wire, taken>>
history    == <<overlapped, split>>
vars       == <<client, connection, server, handled, history>>

Init ==
  /\ sendBuffer = [i \in 1..Pieces |-> Blank]
  /\ pc = [t \in Threads |-> "idle"]
  /\ copied = [t \in Threads |-> 0]
  /\ made = [t \in Threads |-> 0]
  /\ wire = <<>>
  /\ taken = 0
  /\ server = "up"
  /\ handled = <<>>
  /\ overlapped = FALSE
  /\ split = FALSE

-----------------------------------------------------------------------------
(* send_function *)

\* A definition called Faulty... is its namesake with a bug put in; no action
\* uses it.  Each one shows which property notices that bug.

Current(t) == <<t, made[t]>>

\* The copy goes on where the last one ended.
FaultyClear(t) ==
  /\ pc[t] = "idle"
  /\ made[t] < Quota[t]
  /\ sendBuffer' = [i \in 1..Pieces |-> Blank]
  /\ pc' = [pc EXCEPT ![t] = "copy"]
  /\ made' = [made EXCEPT ![t] = @ + 1]
  /\ overlapped' = (overlapped \/ \E u \in Threads : pc[u] # "idle")
  /\ UNCHANGED <<copied, connection, server, handled, split>>

\* memset
Clear(t) ==
  /\ pc[t] = "idle"
  /\ made[t] < Quota[t]
  /\ sendBuffer' = [i \in 1..Pieces |-> Blank]
  /\ pc' = [pc EXCEPT ![t] = "copy"]
  /\ copied' = [copied EXCEPT ![t] = 0]
  /\ made' = [made EXCEPT ![t] = @ + 1]
  /\ overlapped' = (overlapped \/ \E u \in Threads : pc[u] # "idle")
  /\ UNCHANGED <<connection, server, handled, split>>

\* The last piece of a longer text is not copied.
FaultyCopy(t) ==
  /\ pc[t] = "copy"
  /\ sendBuffer' = [sendBuffer EXCEPT ![copied[t] + 1] = <<Current(t), copied[t] + 1>>]
  /\ copied' = [copied EXCEPT ![t] = @ + 1]
  /\ pc' = [pc EXCEPT ![t] = IF copied[t] + 2 < TextLen[Current(t)] THEN @ ELSE "send"]
  /\ UNCHANGED <<made, connection, server, handled, history>>

\* strcpy, a piece at a time
Copy(t) ==
  /\ pc[t] = "copy"
  /\ sendBuffer' = [sendBuffer EXCEPT ![copied[t] + 1] = <<Current(t), copied[t] + 1>>]
  /\ copied' = [copied EXCEPT ![t] = @ + 1]
  /\ pc' = [pc EXCEPT ![t] = IF copied[t] + 1 < TextLen[Current(t)] THEN @ ELSE "send"]
  /\ UNCHANGED <<made, connection, server, handled, history>>

\* A send that is tried again although the first one went through.
FaultySendTwice(t) ==
  /\ pc[t] = "send"
  /\ Len(wire) < MaxInFlight
  /\ wire' = Append(wire, sendBuffer)
  /\ pc' \in {pc, [pc EXCEPT ![t] = "idle"]}
  /\ UNCHANGED <<sendBuffer, copied, made, taken, server, handled, history>>

\* A send that would block returns without sending.
FaultySendGivesUp(t) ==
  /\ pc[t] = "send"
  /\ pc' = [pc EXCEPT ![t] = "idle"]
  /\ wire' = IF wire = <<>> THEN <<sendBuffer>> ELSE wire
  /\ UNCHANGED <<sendBuffer, copied, made, taken, server, handled, history>>

\* send: whatever send_buffer holds by now.  It blocks while the connection is full.
Send(t) ==
  /\ pc[t] = "send"
  /\ Len(wire) < MaxInFlight
  /\ wire' = Append(wire, sendBuffer)
  /\ pc' = [pc EXCEPT ![t] = "idle"]
  /\ UNCHANGED <<sendBuffer, copied, made, taken, server, handled, history>>

-----------------------------------------------------------------------------
(* client_thread_function *)

\* The buffer begins with the whole text of r.
IsText(buf, r) ==
  /\ Len(buf) >= TextLen[r]
  /\ \A i \in 1..TextLen[r] : buf[i] = <<r, i>>

\* The buffer holds the beginning of the text of r and no more: nothing, or a
\* JSON object that is not closed.
IsCut(buf, r) ==
  \E k \in 0..(TextLen[r] - 1) :
    /\ k <= Len(buf)
    /\ \A i \in 1..k : buf[i] = <<r, i>>
    /\ k = Len(buf) \/ buf[k + 1] = Blank

\* What a buffer begins with is enough.
FaultyHandle(buf) ==
  \/ /\ \E r \in Requests : buf[1] = <<r, 1>> /\ handled' = Append(handled, r)
     /\ UNCHANGED server
  \/ /\ \A r \in Requests : buf[1] # <<r, 1>>
     /\ UNCHANGED <<handled, server>>

\* handle_client_message.  Cut text does not parse, and the function returns.
\* Text from the middle of a record, or of two requests, may parse as some JSON
\* value that lacks a member: reading its valuestring through the null pointer
\* cJSON_GetObjectItem returns ends the server.
Handle(buf) ==
  \/ /\ \E r \in Requests : IsText(buf, r) /\ handled' = Append(handled, r)
     /\ UNCHANGED server
  \/ /\ \A r \in Requests : ~IsText(buf, r)
     /\ UNCHANGED handled
     /\ \/ UNCHANGED server
        \/ (\A r \in Requests : ~IsCut(buf, r)) /\ server' = "down"

\* n pieces can be received, of the first two records at most.
Arrived(n) == wire # <<>> /\ (Len(wire) = 1 => taken + n <= Pieces)

\* The next n pieces.
Taken(n) == [i \in 1..n |-> IF taken + i <= Pieces THEN wire[1][taken + i]
                                                   ELSE wire[2][taken + i - Pieces]]

Consume(n) ==
  IF taken + n < Pieces THEN wire' = wire /\ taken' = taken + n
                        ELSE wire' = Tail(wire) /\ taken' = taken + n - Pieces

\* The terminating null byte goes over the last byte received, not behind it.
FaultyReceive(n) ==
  /\ server = "up"
  /\ Arrived(n)
  /\ Handle(Taken(n - 1))
  /\ Consume(n)
  /\ split' = (wire' # <<>> /\ (split \/ n # Pieces))
  /\ UNCHANGED <<client, overlapped>>

\* recv returns some of the bytes that have been sent, at most BUFFER_SIZE.
Receive(n) ==
  /\ server = "up"
  /\ Arrived(n)
  /\ Handle(Taken(n))
  /\ Consume(n)
  /\ split' = (wire' # <<>> /\ (split \/ n # Pieces))
  /\ UNCHANGED <<client, overlapped>>

-----------------------------------------------------------------------------
ClientStep(t) == Clear(t) \/ Copy(t) \/ Send(t)
ServerStep    == \E n \in 1..Pieces : Receive(n)

Next == (\E t \in Threads : ClientStep(t)) \/ ServerStep

Spec == Init /\ [][Next]_vars

\* The kernel runs every thread, and what is sent arrives.
FairSpec == Spec /\ (\A t \in Threads : WF_vars(ClientStep(t))) /\ WF_vars(ServerStep)

-----------------------------------------------------------------------------
Garbled == Blank

\* The request whose text a record carries.
Meaning(rec) ==
  IF \E r \in Requests : IsText(rec, r)
  THEN CHOOSE r \in Requests : IsText(rec, r)
  ELSE Garbled

\* Records of which no piece has been received.
Untouched == LET begun == IF taken = 0 THEN 0 ELSE 1
             IN  [i \in 1..(Len(wire) - begun) |-> Meaning(wire[i + begun])]

\* Every variable has its type.
TypeOK ==
  /\ sendBuffer \in Record
  /\ pc \in [Threads -> {"idle", "copy", "send"}]
  /\ copied \in [Threads -> 0..Pieces]
  /\ made \in [Threads -> Nat] /\ \A t \in Threads : made[t] <= Quota[t]
  /\ wire \in Seq(Record)
  /\ taken \in 0..(Pieces - 1)
  /\ taken # 0 => wire # <<>>
  /\ server \in {"up", "down"}
  /\ handled \in Seq(Requests)
  /\ {overlapped, split} \subseteq BOOLEAN

\* Threads that have never been in send_function together send every request
\* whole and once: memset, strcpy and send keep nothing of an earlier text.
IntactUnlessOverlapped ==
  overlapped \/
    LET out == handled \o Untouched
    IN  \A i, j \in DOMAIN out : out[i] # Garbled /\ (i # j => out[i] # out[j])

\* The server never acts on the requests of one thread out of order.  With an
\* overlap it can act on one twice (a thread that sends what another thread
\* has just copied), but never on an older one after a newer one.
ThreadOrder ==
  \A i, j \in DOMAIN handled :
    i < j /\ handled[i][1] = handled[j][1] =>
      \/ handled[i][2] < handled[j][2]
      \/ handled[i] = handled[j] /\ overlapped

\* A record that carries a request is lost, or ends the server, only after a
\* recv that took part of a record; and once the receiver has found the
\* connection empty, what was lost before has no effect on what comes after.
LossNeedsSplit ==
  [][/\ Len(Untouched') < Len(Untouched)
     /\ handled' = handled
     /\ Head(Untouched) # Garbled
     => split \/ split']_vars

\* If sends never overlap and every recv returns a whole record, the server
\* acts on every request.
AllHandled ==
  [](~overlapped /\ ~split) => <>(\A r \in Requests : \E i \in DOMAIN handled : handled[i] = r)

\* The path implements the promise of RecordStream.
Stream == INSTANCE RecordStream WITH queue <- Untouched
ImplementsRecordStream == Stream!Spec
=============================================================================
