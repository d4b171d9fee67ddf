-------------------------- MODULE MCOfflineDelivery --------------------------
(* OfflineDelivery on small instances; the cfg files say which. *)
EXTENDS OfflineDelivery

CONSTANTS k1, k2, u1, u2, m1, m2

TwoConns == {k1, k2}
OneUser  == {u1}
TwoUsers == {u1, u2}
OneChat  == {m1}
TwoChats == {m1, m2}
=============================================================================
