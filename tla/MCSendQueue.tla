----------------------------- MODULE MCSendQueue -----------------------------
(* SendQueue on small instances; the cfg files say which. *)
EXTENDS SendQueue

CONSTANTS t1, t2, u1, u2, c1, c2, n1

TwoClients == {t1, t2}
OneUser    == {u1}
TwoUsers   == {u1, u2}
OneChat    == {c1}
TwoChats   == {c1, c2}
OneNotice  == {n1}
=============================================================================
