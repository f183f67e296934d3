-------------------------------- MODULE List --------------------------------
(***************************************************************************)
(* The doubly linked lists of glue-ucore/libs/list.h, as sequences:        *)
(* list_add_before on the head is Append, list_empty is = <<>>, list_next  *)
(* of the head is Head.                                                    *)
(***************************************************************************)
EXTENDS Integers, Sequences, FiniteSets, Functions

\* The element at position i leaves the list (list_del, list_del_init).
list_del(q, i) == SubSeq(q, 1, i - 1) \o SubSeq(q, i + 1, Len(q))

\* The entry of x leaves the list, if it is linked (wait_current_del).
Without(q, x) == IF x \in Range(q) THEN list_del(q, CHOOSE i \in DOMAIN q : q[i] = x) ELSE q

\* The ways to list a finite set.
Listings(S) == Bijection(1..Cardinality(S), S)

\* The elements of S, in the order in which q lists them.
Kept(q, S) ==
  {w \in Listings(Range(q) \cap S) :
     \A i, j \in DOMAIN w : i < j =>
       \E k, l \in DOMAIN q : k < l /\ q[k] = w[i] /\ q[l] = w[j]}
=============================================================================
