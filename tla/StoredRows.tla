------------------------------ MODULE StoredRows ------------------------------
(***************************************************************************)
(* The rows of table offlinemsg as a sequence, oldest first: what the        *)
(* "where sendto=" of a select or a delete picks out of them.                *)
(***************************************************************************)
EXTENDS Naturals, Sequences, FiniteSets

\* What is left of s at the positions I, in the same order.
Kept(s, I) ==
  [k \in 1..Cardinality(I) |-> s[CHOOSE i \in I : Cardinality({j \in I : j < i}) = k - 1]]

\* select msg from offlinemsg where sendto = u
RowsFor(table, u) == Kept(table, {i \in DOMAIN table : table[i].user = u})

\* What delete from offlinemsg where sendto = u leaves.
WithoutRowsFor(table, u) == Kept(table, {i \in DOMAIN table : table[i].user # u})
=============================================================================
