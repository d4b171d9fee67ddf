---------------------------- MODULE MCDirectory ----------------------------
(* Directory on small instances; the cfg files say which. *)
EXTENDS Directory, TLC

CONSTANTS t1, t2, u1, u2

TwoClients == {t1, t2}
TwoUsers   == {u1, u2}

\* Bound: the requests of one of the users never overlap.
OneOverlap == overlap # Users

Permuted == Permutations(Clients) \union Permutations(Users)
=============================================================================
