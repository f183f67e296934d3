-------------------------------- MODULE Mmap --------------------------------
(***************************************************************************)
(* The area list of one address space with its cache, mm/vmm.c, and the    *)
(* heap of do_brk, process/proc.c.  Every lookup goes through find_vma,    *)
(* which trusts and updates mmap_cache; here the cache is the vm_start of  *)
(* the area that it points to.                                             *)
(***************************************************************************)
EXTENDS Vma

CONSTANTS
  MaxLen,    \* the longest mapping a call asks for
  MapFlags,  \* the flags of mmap and shmem; a lookup does not depend on them
  HeapStart, \* the first page above the program, brk_start
  StackStart \* the first page of the stack

VARIABLES areas, cache, brk

vars == <<areas, cache, brk>>

\* After load_icode: the program, which may be written, and the stack.
Init == /\ areas = {vma(1, HeapStart, {"write"}, None),
                    vma(StackStart, USERTOP, {"write", "stack"}, None)}
        /\ cache = None
        /\ brk = HeapStart

\* find_vma: the cached area, if a is in it; else the first that ends above.
Find(c, a) ==
  LET hit == {v \in areas : v.start = c /\ a \in Pages(v)} IN
  IF hit # {} THEN hit ELSE First(areas, a)
find_vma(a) == Find(cache, a)

\* find_vma leaves what it found in mmap_cache.
Found(F) == IF F = {} THEN cache ELSE (CHOOSE v \in F : TRUE).start

\* A lookup by do_pgfault or user_mem_check.
lookup(a) ==
  /\ cache' = Found(find_vma(a))
  /\ UNCHANGED <<areas, brk>>

\* do_mmap and do_shmem; an overlap, or no memory for the area, is an error.
mm_map(addr, len, flags) ==
  LET a == IF addr = 0 THEN get_unmapped_area(areas, len) ELSE addr
      F == find_vma(a)
  IN /\ USER_ACCESS(a, a + len)
     /\ cache' = Found(F)
     /\ \/ /\ Free(F, a, a + len)
           /\ areas' = areas \cup {vma(a, a + len, flags, None)}
        \/ UNCHANGED areas
     /\ UNCHANGED brk

\* Fault of remove_vma_struct: the cache keeps an area that goes.
KeptCache(F, start, end) == Found(F)

\* remove_vma_struct clears the cache; the area of a hole only moves up.
CacheAfter(F, start, end) ==
  IF Free(F, start, end) THEN Found(F)
  ELSE IF Hole(F, start, end) # {} THEN end ELSE None

\* mm_unmap succeeds; only vma_create for the lower part of a hole may fail.
mm_unmap(start, end) ==
  LET F == find_vma(start) IN
  /\ USER_ACCESS(start, end)
  /\ areas' = Unmapped(areas, F, start, end)
  /\ cache' = CacheAfter(F, start, end)

do_munmap(start, end) ==
  \/ mm_unmap(start, end) /\ UNCHANGED brk
  \/ /\ Hole(find_vma(start), start, end) # {}
     /\ cache' = Found(find_vma(start))
     /\ UNCHANGED <<areas, brk>>

\* find_vma_intersection: do_brk keeps a page between heap and next area.
Room(end) == Free(find_vma(brk), brk, end + 1)

\* do_brk; mm_brk looks for the area below with the cache that Room left.
do_brk(new) ==
  LET c == Found(find_vma(brk))
      F == Find(c, brk - 1)
  IN /\ new >= HeapStart
     /\ \/ /\ new < brk /\ mm_unmap(new, brk)
           /\ brk' = new
        \/ /\ new > brk /\ ~Room(new)
           /\ cache' = c
           /\ UNCHANGED <<areas, brk>>
        \/ /\ new > brk /\ Room(new) /\ USER_ACCESS(brk, new)
           /\ cache' = IF F = {} THEN c ELSE Found(F)
           /\ \/ areas' = Grown(areas, F, brk, new) /\ brk' = new
              \/ Below(F, brk) = {} /\ UNCHANGED <<areas, brk>>

Next ==
  \/ \E a \in UPages : lookup(a)
  \/ \E a \in 0..USERTOP - 1, n \in 1..MaxLen, f \in MapFlags :
       mm_map(a, n, f)
  \/ \E a, b \in UPages : do_munmap(a, b + 1)
  \/ \E a \in UPages : do_brk(a)

Spec == Init /\ [][Next]_vars

TypeOK == /\ \A v \in areas : USER_ACCESS(v.start, v.end)
          /\ cache \in {None} \cup UPages /\ brk \in HeapStart..USERTOP

(* The lookups are right.  Areas never overlap (the assertions of          *)
(* check_vma_overlap), mmap_cache points to an area of the list, find_vma  *)
(* finds with it what a walk of the list finds, and get_unmapped_area      *)
(* finds the highest gap that is long enough.                              *)
LookupsExact ==
  /\ \A v, w \in areas : v # w => Pages(v) \cap Pages(w) = {}
  /\ cache # None => \E v \in areas : v.start = cache
  /\ \A a \in UPages : find_vma(a) = First(areas, a)
  /\ \A n \in 1..MaxLen :
       LET fits == {a \in UPages : /\ a + n <= USERTOP
                                   /\ \A v \in areas : Pages(v) \cap (a..a+n-1) = {}}
       IN get_unmapped_area(areas, n) = Max(fits \cup {0})
=============================================================================
