--------------------------------- MODULE Lists ---------------------------------
(***************************************************************************)
(* The sublists that the components take of their lists: what filter of an  *)
(* array and a list comprehension with a condition return.                  *)
(***************************************************************************)
EXTENDS Integers, Sequences, FiniteSets

(* The member of a set of positions with rank k among them.                 *)
UpTo(S, i) == {j \in S : j <= i}
NthOf(S, k) == CHOOSE i \in S : Cardinality(UpTo(S, i)) = k

(* The elements at the kept positions, in their order.                      *)
Keep(s, kept) == [k \in 1..Cardinality(kept) |-> s[NthOf(kept, k)]]
=============================================================================
