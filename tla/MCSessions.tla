------------------------------ MODULE MCSessions ------------------------------
(* Sessions on small instances; the cfg files say which. *)
EXTENDS Sessions, TLC

CONSTANTS k1, k2, k3, u1, u2

TwoConns   == {k1, k2}
ThreeConns == {k1, k2, k3}
OneUser    == {u1}
TwoUsers   == {u1, u2}
FourDescs  == 3..6

Permuted == Permutations(Conns) \union Permutations(Users)
=============================================================================
