---------------------------- MODULE MCRequestPath ----------------------------
(* Three threads of the client, records of three pieces. *)
EXTENDS RequestPath, TLC

CONSTANTS ui, recv, update

AllThreads == {ui, recv, update}

\* The GTK thread makes two requests, the others one each.
SmallQuota == (ui :> 2) @@ (recv :> 1) @@ (update :> 1)

\* A long chat message fills its record; requests for lists are short.
TextLengths ==
  [r \in Requests |-> CASE r[1] = ui -> 4 - r[2]
                       [] r[1] = recv -> 1
                       [] r[1] = update -> 2]
=============================================================================
