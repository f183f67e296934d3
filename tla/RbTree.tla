------------------------------- MODULE RbTree -------------------------------
(***************************************************************************)
(* The red-black tree of areas, libs/rb_tree.c, that mm/vmm.c keeps beside *)
(* the area list once an address space has many areas.  A node is its key. *)
(* The pointers of a node are the functions child.left, child.right and    *)
(* parent; the root of the tree is the left child of the node root.        *)
(***************************************************************************)
EXTENDS Integers, Sequences, FiniteSets, SequencesExt

CONSTANT NNodes  \* the number of nodes

VARIABLES tree, held  \* the tree, and the nodes that are in it

vars == <<tree, held>>

nil == 0
Nodes == 1..NNodes
root == NNodes + 1
Other(s) == IF s = "left" THEN "right" ELSE "left"

\* rb_tree_create.
Init ==
  LET none == [n \in 0..root |-> nil] IN
  /\ tree = [child |-> [left |-> none, right |-> none], parent |-> none,
             red |-> [n \in 0..root |-> FALSE]]
  /\ held = {}

\* rb_left_rotate for s = "left", rb_right_rotate for s = "right".
rotate(t, x, s) ==
  LET y == t.child[Other(s)][x]
      p == t.parent[x]
      inner == t.child[s][y]
  IN [t EXCEPT !.child[Other(s)][x] = inner,
               !.child[IF t.child[s][p] = x THEN s ELSE Other(s)][p] = y,
               !.child[s][y] = x,
               !.parent = [n \in 0..root |->
                             CASE n = inner /\ n # nil -> x
                               [] n = y -> p
                               [] n = x -> y
                               [] OTHER -> @[n]]]

-----------------------------------------------------------------------------
(* Insertion.                                                              *)

RECURSIVE Leaf(_, _, _, _)
Leaf(t, y, x, n) ==  \* the node below which rb_insert_binary puts n
  IF x = nil THEN y
  ELSE Leaf(t, x, IF x > n THEN t.child.left[x] ELSE t.child.right[x], n)

rb_insert_binary(t, n) ==
  LET y == Leaf(t, root, t.child.left[root], n) IN
  [t EXCEPT !.child.left[n] = nil, !.child.right[n] = nil, !.parent[n] = y,
            !.child[IF y = root \/ y > n THEN "left" ELSE "right"][y] = n]

\* RB_INSERT_SUB: x becomes an outer child.
Straighten(t, x, s) ==
  IF x = t.child[Other(s)][t.parent[x]] THEN <<rotate(t, t.parent[x], s), t.parent[x]>>
  ELSE <<t, x>>

RECURSIVE InsertFixup(_, _)
InsertFixup(t, x) ==
  LET p == t.parent[x]
      g == t.parent[p]
      s == IF p = t.child.left[g] THEN "left" ELSE "right"
      y == t.child[Other(s)][g]
      u == Straighten(t, x, s)
      v == [u[1] EXCEPT !.red[u[1].parent[u[2]]] = FALSE, !.red[g] = TRUE]
  IN IF ~t.red[p] THEN [t EXCEPT !.red[t.child.left[root]] = FALSE]
     ELSE IF t.red[y]
     THEN InsertFixup([t EXCEPT !.red[p] = FALSE, !.red[y] = FALSE,
                                !.red[g] = TRUE], g)
     ELSE InsertFixup(rotate(v, g, Other(s)), u[2])

rb_insert(n) ==
  /\ n \notin held
  /\ tree' = InsertFixup([rb_insert_binary(tree, n) EXCEPT !.red[n] = TRUE], n)
  /\ held' = held \cup {n}

-----------------------------------------------------------------------------
(* Neighbours.                                                             *)

RECURSIVE Outermost(_, _, _)
Outermost(t, y, s) == IF t.child[s][y] = nil THEN y
                      ELSE Outermost(t, t.child[s][y], s)

RECURSIVE Climb(_, _, _, _)
Climb(t, x, y, s) ==
  IF x # t.child[s][y] \/ y = root THEN y ELSE Climb(t, y, t.parent[y], s)

\* rb_tree_successor for s = "right", rb_tree_predecessor for s = "left".
Neighbour(t, n, s) ==
  IF t.child[s][n] # nil THEN Outermost(t, t.child[s][n], Other(s))
  ELSE LET y == Climb(t, n, t.parent[n], s) IN IF y = root THEN nil ELSE y

-----------------------------------------------------------------------------
(* Deletion.                                                               *)

\* Fault: a red sibling is not rotated away.
RedSiblingKept(t, x, s) == t

\* RB_DELETE_FIXUP_SUB: the sibling of x becomes black.
RedSibling(t, x, s) ==
  LET p == t.parent[x]
      w == t.child[Other(s)][p]
  IN IF ~t.red[w] THEN t
     ELSE rotate([t EXCEPT !.red[w] = FALSE, !.red[p] = TRUE], p, s)

\* top is the root as it was before the first rotation.
RECURSIVE DeleteFixup(_, _, _)
DeleteFixup(t, x, top) ==
  LET s == IF x = t.child.left[t.parent[x]] THEN "left" ELSE "right"
      o == Other(s)
      p == t.parent[x]
      t1 == RedSibling(t, x, s)
      w1 == t1.child[o][p]
      near == t1.child[s][w1]
      t2 == IF t1.red[t1.child[o][w1]] THEN t1
            ELSE rotate([t1 EXCEPT !.red[near] = FALSE, !.red[w1] = TRUE], w1, o)
      w2 == t2.child[o][p]
      t3 == [t2 EXCEPT !.red[w2] = t2.red[p], !.red[p] = FALSE,
                       !.red[t2.child[o][w2]] = FALSE]
  IN IF x = top \/ t.red[x] THEN [t EXCEPT !.red[x] = FALSE]
     ELSE IF ~t1.red[near] /\ ~t1.red[t1.child[o][w1]]
     THEN DeleteFixup([t1 EXCEPT !.red[w1] = TRUE], p, top)
     ELSE DeleteFixup(rotate(t3, p, s), top, top)

Side(t, n) == IF n = t.child.left[t.parent[n]] THEN "left" ELSE "right"

\* rb_delete: y leaves its place, and takes that of z if it is another node.
rb_delete(z) ==
  LET y == IF tree.child.left[z] = nil \/ tree.child.right[z] = nil THEN z
           ELSE Neighbour(tree, z, "right")
      x == IF tree.child.left[y] # nil THEN tree.child.left[y]
           ELSE tree.child.right[y]
      t1 == [tree EXCEPT !.parent[x] = tree.parent[y],
                         !.child[Side(tree, y)][tree.parent[y]] = x]
      t2 == [t1 EXCEPT !.child[Side(t1, z)][t1.parent[z]] = y,
                       !.parent[t1.child.left[z]] = y,
                       !.parent[t1.child.right[z]] = y,
                       !.child.left[y] = t1.child.left[z],
                       !.child.right[y] = t1.child.right[z],
                       !.parent[y] = t1.parent[z],
                       !.red[y] = t1.red[z]]
      t3 == IF y = z THEN t1 ELSE t2
      t4 == IF tree.red[y] THEN t3 ELSE DeleteFixup(t3, x, t3.child.left[root])
  IN /\ z \in held
     /\ held' = held \ {z}
     /\ tree' = [t4 EXCEPT !.child.left[z] = nil, !.child.right[z] = nil,
                           !.parent[z] = nil, !.red[z] = FALSE]  \* z is freed

Next == \E n \in Nodes : rb_insert(n) \/ rb_delete(n)

Spec == Init /\ [][Next]_vars

-----------------------------------------------------------------------------
\* find_vma_rb, where node n is an area of the page 2n only.
RECURSIVE Search(_, _, _, _)
Search(t, n, a, vma) ==
  IF n = nil THEN vma
  ELSE IF 2*n + 1 > a
  THEN IF 2*n <= a THEN n ELSE Search(t, t.child.left[n], a, n)
  ELSE Search(t, t.child.right[n], a, vma)
find_vma_rb(t, a) == Search(t, t.child.left[root], a, nil)

RECURSIVE InOrder(_, _)
InOrder(t, n) == IF n = nil THEN <<>>
                 ELSE InOrder(t, t.child.left[n]) \o <<n>> \o InOrder(t, t.child.right[n])

RECURSIVE Blacks(_, _)
Blacks(t, n) == IF n = nil THEN 1
                ELSE Blacks(t, t.child.left[n]) + (IF t.red[n] THEN 0 ELSE 1)

Lowest(S) == IF S = {} THEN nil ELSE CHOOSE n \in S : \A k \in S : n <= k
Highest(S) == IF S = {} THEN nil ELSE CHOOSE n \in S : \A k \in S : n >= k

(* What check_tree asserts, after every sequence of insertions and         *)
(* deletions: order, parent pointers, no red node below a red one, equal   *)
(* numbers of black nodes.  The tree holds what was put in, and its three  *)
(* searches (rb_node_prev, rb_node_next, find_vma_rb) find the right node. *)
TreeExact ==
  /\ InOrder(tree, tree.child.left[root]) = SetToSortSeq(held, <)
  /\ ~tree.red[nil] /\ ~tree.red[root] /\ ~tree.red[tree.child.left[root]]
  /\ \A n \in held :
       /\ \A s \in {"left", "right"} : LET c == tree.child[s][n] IN
            c # nil => tree.parent[c] = n /\ ~(tree.red[n] /\ tree.red[c])
       /\ Blacks(tree, tree.child.left[n]) = Blacks(tree, tree.child.right[n])
       /\ Neighbour(tree, n, "left") = Highest({k \in held : k < n})
       /\ Neighbour(tree, n, "right") = Lowest({k \in held : k > n})
  /\ \A a \in 1..2*NNodes + 1 :
       find_vma_rb(tree, a) = Lowest({n \in held : 2*n + 1 > a})
=============================================================================
