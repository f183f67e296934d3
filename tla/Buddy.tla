------------------------------- MODULE Buddy --------------------------------
(***************************************************************************)
(* The physical page allocator, arch/arm/mm/buddy_pmm.c, for one zone,     *)
(* under alloc_pages and free_pages of arch/arm/mm/pmm.c, which run with   *)
(* interrupts off.  A page is its index in the zone.  A free list is a     *)
(* set: which of its blocks is the first does not matter here.  The        *)
(* counter used_pages is left out.                                         *)
(***************************************************************************)
EXTENDS Integers, FiniteSets

CONSTANTS
  NPages,     \* the pages of the zone
  MAX_ORDER,
  MaxRequest  \* the largest request in pages

VARIABLES
  property,  \* property[p]: the order of the free block at p; NoProperty if
             \* the flag PG_property is clear
  free_list, \* free_list[o]: the free blocks of 2^o pages
  nr_free,   \* nr_free[o]: their number
  held,      \* the allocations <<base, n>> that have not been freed
  panic      \* an assertion failed

vars == <<property, free_list, nr_free, held, panic>>

Zone == 0..NPages - 1
Orders == 0..MAX_ORDER
NoProperty == -1

\* The allocator's data as a record, for the steps inside a call.
State == [prop |-> property, list |-> free_list, nr |-> nr_free, bad |-> FALSE]
Become(b) == /\ property' = b.prop /\ free_list' = b.list /\ nr_free' = b.nr
             /\ panic' = b.bad

Add(b, p, o) == [b EXCEPT !.prop[p] = o, !.list[o] = @ \cup {p}, !.nr[o] = @ + 1]
Del(b, p, o) == [b EXCEPT !.prop[p] = NoProperty, !.list[o] = @ \ {p}, !.nr[o] = @ - 1]

\* buddy_init_memmap.
RECURSIVE InitMemmap(_, _, _, _)
InitMemmap(b, p, n, o) ==
  IF n = 0 THEN b
  ELSE IF n >= 2^o THEN InitMemmap(Add(b, p, o), p + 2^o, n - 2^o, o)
  ELSE InitMemmap(b, p, n, o - 1)

Init ==
  LET b == InitMemmap([prop |-> [p \in Zone |-> NoProperty],
                       list |-> [o \in Orders |-> {}],
                       nr |-> [o \in Orders |-> 0]], 0, NPages, MAX_ORDER)
  IN /\ property = b.prop /\ free_list = b.list /\ nr_free = b.nr
     /\ held = {}
     /\ panic = FALSE

getorder(n) == CHOOSE o \in Orders : n <= 2^o /\ \A k \in Orders : n <= 2^k => o <= k

page_is_buddy(b, p, o) == p \in Zone /\ b.prop[p] = o

Buddy(p, o) == IF (p \div 2^o) % 2 = 0 THEN p + 2^o ELSE p - 2^o

\* The loop of buddy_free_pages_sub.
RECURSIVE Merge(_, _, _)
Merge(b, p, o) ==
  LET q == Buddy(p, o) IN
  IF o < MAX_ORDER /\ page_is_buddy(b, q, o)
  THEN Merge(Del(b, q, o), IF q < p THEN q ELSE p, o + 1)
  ELSE Add(b, p, o)

\* buddy_free_pages_sub with its assertions.
FreeBlock(b, p, o) ==
  IF b.bad \/ p % 2^o # 0 \/ \E q \in p..p + 2^o - 1 : b.prop[q] # NoProperty
  THEN [b EXCEPT !.bad = TRUE]
  ELSE Merge(b, p, o)

\* The second loop of buddy_free_pages: ever smaller blocks.
RECURSIVE FreeDown(_, _, _, _)
FreeDown(b, p, n, o) ==
  IF n = 0 THEN b
  ELSE IF n < 2^o THEN FreeDown(b, p, n, o - 1)
  ELSE FreeDown(FreeBlock(b, p, o), p + 2^o, n - 2^o, o)

\* The first loop: ever larger blocks, until p is aligned.
RECURSIVE FreeUp(_, _, _, _)
FreeUp(b, p, n, o) ==
  IF n < 2^o THEN FreeDown(b, p, n, o)
  ELSE IF (p \div 2^o) % 2 = 1
  THEN FreeUp(FreeBlock(b, p, o), p + 2^o, n - 2^o, o + 1)
  ELSE FreeUp(b, p, n, o + 1)

buddy_free_pages(b, p, n) == IF n = 1 THEN FreeBlock(b, p, 0) ELSE FreeUp(b, p, n, 0)

\* The loop of buddy_alloc_pages_sub: the upper halves go to the lists.
RECURSIVE Split(_, _, _, _)
Split(b, p, o, order) ==
  IF o = order THEN b ELSE Split(Add(b, p + 2^(o-1), o - 1), p, o - 1, order)

alloc_pages(n) ==
  LET order == getorder(n)
      O == {o \in Orders : o >= order /\ free_list[o] # {}}
      o == CHOOSE k \in O : \A j \in O : k <= j
  IN /\ O # {}
     /\ \E p \in free_list[o] :
          LET b == Split(Del(State, p, o), p, o, order) IN
          /\ Become(IF n = 2^order THEN b
                    ELSE buddy_free_pages(b, p + n, 2^order - n))
          /\ held' = held \cup {<<p, n>>}

free_pages(p, n) ==
  /\ <<p, n>> \in held
  /\ Become(buddy_free_pages(State, p, n))
  /\ held' = held \ {<<p, n>>}

Next == /\ ~panic
        /\ \/ \E n \in 1..MaxRequest : alloc_pages(n)
           \/ \E h \in held : free_pages(h[1], h[2])

Spec == Init /\ [][Next]_vars

Covered(p, n) == p..p + n - 1

(* Every page of the zone is in exactly one free block or allocation, the  *)
(* lists, counters and page flags agree, blocks are aligned, and two free  *)
(* buddies are always merged (the comment at the head of buddy_pmm.c).  No *)
(* assertion of buddy_free_pages_sub fails.                                *)
BuddyExact ==
  /\ ~panic
  /\ \A q \in Zone :
       Cardinality({e \in Zone \X Orders : e[1] \in free_list[e[2]]
                                           /\ q \in Covered(e[1], 2^e[2])})
         + Cardinality({h \in held : q \in Covered(h[1], h[2])}) = 1
  /\ \A o \in Orders :
       /\ free_list[o] = {p \in Zone : property[p] = o}
       /\ nr_free[o] = Cardinality(free_list[o])
       /\ \A p \in free_list[o] : /\ p % 2^o = 0
                                  /\ o < MAX_ORDER => Buddy(p, o) \notin free_list[o]
=============================================================================
