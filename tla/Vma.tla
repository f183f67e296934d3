-------------------------------- MODULE Vma ---------------------------------
(***************************************************************************)
(* The areas (vma_struct) of an address space, mm/vmm.c, as operators on   *)
(* the set A of its areas; the list is ordered by vm_start.  A lookup      *)
(* gives a set F of at most one area.  Addresses are page numbers.         *)
(***************************************************************************)
EXTENDS Integers, FiniteSets, FiniteSetsExt

CONSTANT USERTOP  \* user space is the pages 1 .. USERTOP - 1

None == 0
UPages == 1..USERTOP - 1
USER_ACCESS(start, end) == 1 <= start /\ start < end /\ end <= USERTOP

vma(start, end, flags, x) ==
  [start |-> start, end |-> end, flags |-> flags, shmem |-> x, off |-> 0]
Pages(v) == v.start..v.end - 1

\* The walk of the area list in find_vma: the first area that ends above a.
First(A, a) == {v \in A : a < v.end /\ \A w \in A : a < w.end => v.start <= w.start}

\* mm_map and find_vma_intersection, with F = find_vma(start).
Free(F, start, end) == \A v \in F : end <= v.start

InTheWay(v, start, len) == start + len > v.start /\ start < v.end

\* get_unmapped_area: from the top, below each area that is in the way.
get_unmapped_area(A, len) ==
  LET Start[n \in 0..Cardinality(A)] ==  \* after the n highest areas
        IF n = 0 THEN USERTOP - len
        ELSE LET v == CHOOSE w \in A :
                        Cardinality({u \in A : u.start >= w.start}) = n
             IN IF InTheWay(v, Start[n-1], len) THEN v.start - len
                ELSE Start[n-1]
  IN Max({0, Start[Cardinality(A)]})

\* vma_resize to the part of an area above end.
Above(v, end) ==
  [v EXCEPT !.start = end,
            !.off = IF "share" \in v.flags THEN @ + end - v.start ELSE @]

\* The areas that mm_unmap takes from the list: from the one it found on.
Taken(A, F, end) == {w \in A : w.start < end /\ \E v \in F : v.start <= w.start}
Hole(F, start, end) == {v \in F : v.start < start /\ end < v.end}

(* The areas after mm_unmap.  A hole in an area leaves it with the upper   *)
(* part and a new area with the lower one; vma_create leaves shmem NULL.   *)
(* Other areas are taken out, shortened and put back, or destroyed.        *)
Unmapped(A, F, start, end) ==
  LET hole == Hole(F, start, end)
      cut == Taken(A, F, end)
  IN (A \ cut)
       \cup {Above(v, end) : v \in hole}
       \cup {vma(v.start, start, v.flags, None) : v \in hole}
       \cup {[v EXCEPT !.end = start] : v \in {w \in cut \ hole : w.start < start}}
       \cup {Above(v, end) : v \in {w \in cut : w.start >= start /\ end < w.end}}

\* The areas that vma_destroy gets.
Destroyed(A, F, start, end) == {v \in Taken(A, F, end) : start <= v.start /\ v.end <= end}

\* mm_brk: the area below grows, if it is plain memory; else a new area.
Below(F, start) == {v \in F : v.end = start /\ v.flags = {"write"}}
Grown(A, F, start, end) ==
  LET low == Below(F, start) IN
  IF low = {} THEN A \cup {vma(start, end, {"write"}, None)}
  ELSE (A \ low) \cup {[v EXCEPT !.end = end] : v \in low}
=============================================================================
