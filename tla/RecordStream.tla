---------------------------- MODULE RecordStream ----------------------------
(***************************************************************************)
(* What the connection between a SkyQ client and the server can be relied   *)
(* on for: requests arrive in the order in which they were sent, none       *)
(* arrives twice, none arrives that was not sent, and any of them may be    *)
(* missing.  RequestPath implements it.                                     *)
(***************************************************************************)
EXTENDS Sequences

CONSTANTS Requests,
          Garbled   \* a record that is not the text of one request

VARIABLES queue,    \* records sent and not yet taken, oldest first
          handled   \* requests the server has acted on, oldest first

vars == <<queue, handled>>

Init == queue = <<>> /\ handled = <<>>

Put(x) == /\ queue' = Append(queue, x)
          /\ UNCHANGED handled

Deliver == /\ queue # <<>>
           /\ Head(queue) \in Requests
           /\ handled' = Append(handled, Head(queue))
           /\ queue' = Tail(queue)

Drop == /\ queue # <<>>
        /\ queue' = Tail(queue)
        /\ UNCHANGED handled

Next == (\E x \in Requests \union {Garbled} : Put(x)) \/ Deliver \/ Drop

Spec == Init /\ [][Next]_vars
=============================================================================
