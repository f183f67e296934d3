-------------------------------- MODULE Slab --------------------------------
(***************************************************************************)
(* kmalloc and kfree, mm/slab.c.  A slab is named by its first page; its   *)
(* objects are <<page, index>>.  The slab_t of an off_slab cache is itself *)
(* an object of another cache.  list_add puts a slab at the front of a     *)
(* list and kmem_cache_alloc takes the front of slabs_notfull.             *)
(***************************************************************************)
EXTENDS Integers, Sequences, FiniteSets

CONSTANTS
  NPages,   \* the page blocks that alloc_pages has for slabs
  NCaches,  \* the caches are 1 .. NCaches
  Num,      \* Num[c]: the objects of a slab of cache c
  SlabCache \* SlabCache[c]: slab_cachep if the cache is off_slab, or 0

VARIABLES
  slab,     \* slab[p]: the slab at page p
  notfull,  \* notfull[c]: slabs_notfull, a list
  full,     \* full[c]: slabs_full
  out       \* the objects that users of kmalloc have

vars == <<slab, notfull, full, out>>

Blocks == 1..NPages
Caches == 1..NCaches
END == -1
NoObj == <<0, 0>>
NoSlab == [cache |-> 0, inuse |-> 0, free |-> END, bufctl |-> <<>>, mgmt |-> NoObj]

Init == /\ slab = [p \in Blocks |-> NoSlab]
        /\ notfull = [c \in Caches |-> <<>>]
        /\ full = [c \in Caches |-> {}]
        /\ out = {}

\* The allocator's data as a record, for the steps inside a call.
State == [slab |-> slab, notfull |-> notfull, full |-> full]
Become(k) == slab' = k.slab /\ notfull' = k.notfull /\ full' = k.full

Filled(k, p) == k.slab[p].free = END

\* kmem_cache_alloc_one.
AllocOne(k, c) ==
  LET p == Head(k.notfull[c])
      i == k.slab[p].free
      taken == [k EXCEPT !.slab[p].inuse = @ + 1,
                         !.slab[p].free = k.slab[p].bufctl[i + 1],
                         !.slab[p].bufctl[i + 1] = END]  \* not read again
  IN [k |-> IF ~Filled(taken, p) THEN taken
            ELSE [taken EXCEPT !.notfull[c] = Tail(@), !.full[c] = @ \cup {p}],
      obj |-> <<p, i>>]

NewSlab(c, o) ==
  [cache |-> c, inuse |-> 0, free |-> 0, mgmt |-> o,
   bufctl |-> [i \in 1..Num[c] |-> IF i = Num[c] THEN END ELSE i]]

\* Fault: the page stays allocated when there is no memory for the slab_t.
GrowOops(k, a, p) == [a EXCEPT !.slab[p].cache = 1]

\* kmem_cache_grow at its label oops.
Oops(k, a, p) == a

\* kmem_cache_alloc; kmem_cache_grow adds a slab if there is no free object.
RECURSIVE Alloc(_, _)
Alloc(k, c) ==
  LET unused == {p \in Blocks : k.slab[p] = NoSlab}
      p == CHOOSE q \in unused : \A r \in unused : q <= r
      reserved == [k EXCEPT !.slab[p] = [NoSlab EXCEPT !.cache = c]]
      a == Alloc(reserved, SlabCache[c])
      Grown(m, o) == [m EXCEPT !.slab[p] = NewSlab(c, o),
                               !.notfull[c] = <<p>> \o @]
  IN IF k.notfull[c] # <<>> THEN AllocOne(k, c)
     ELSE IF unused = {} THEN [k |-> k, obj |-> NoObj]
     ELSE IF SlabCache[c] = 0 THEN AllocOne(Grown(k, NoObj), c)
     ELSE IF a.obj = NoObj
     THEN [k |-> Oops(k, [a.k EXCEPT !.slab[p] = NoSlab], p), obj |-> NoObj]
     ELSE AllocOne(Grown(a.k, a.obj), c)

\* kmem_cache_free_one: was the slab full until now?
FirstFree(k, p) == k.slab[p].inuse = Num[k.slab[p].cache] - 1

Listed(k, p) == SelectSeq(k.notfull[k.slab[p].cache], LAMBDA q : q # p)

\* kmem_cache_free and kmem_slab_destroy.
RECURSIVE Free(_, _)
Free(k, o) ==
  LET p == o[1]
      c == k.slab[p].cache
      put == [k EXCEPT !.slab[p].bufctl[o[2] + 1] = k.slab[p].free,
                       !.slab[p].free = o[2],
                       !.slab[p].inuse = @ - 1]
      gone == [put EXCEPT !.slab[p] = NoSlab, !.full[c] = @ \ {p},
                          !.notfull[c] = Listed(k, p)]
  IN IF put.slab[p].inuse = 0
     THEN IF SlabCache[c] = 0 THEN gone ELSE Free(gone, k.slab[p].mgmt)
     ELSE IF FirstFree(put, p)
     THEN [put EXCEPT !.full[c] = @ \ {p}, !.notfull[c] = <<p>> \o Listed(k, p)]
     ELSE put

kmalloc(c) == LET a == Alloc(State, c) IN
  /\ Become(a.k)
  /\ out' = IF a.obj = NoObj THEN out ELSE out \cup {a.obj}

kfree(o) == /\ Become(Free(State, o))
            /\ out' = out \ {o}

Next == \/ \E c \in Caches : kmalloc(c)
        \/ \E o \in out : kfree(o)

Spec == Init /\ [][Next]_vars

FreeObjs(p) ==  \* the objects on the free list of a slab
  LET At[n \in 0..Num[slab[p].cache]] ==
        IF n = 0 THEN slab[p].free
        ELSE IF At[n-1] = END THEN END ELSE slab[p].bufctl[At[n-1] + 1]
  IN {<<p, At[n]>> : n \in {m \in DOMAIN At : At[m] # END}}

(* Each object is on the free list of its slab, with a user of kmalloc or  *)
(* holds the slab_t of an off_slab slab: exactly one of these.  A slab is  *)
(* in slabs_full when it has no free object, in slabs_notfull otherwise,   *)
(* and is given back when no object is used; so when everything is freed,  *)
(* check_slab_empty finds no slab and all pages are free.                  *)
SlabExact ==
  LET S == {p \in Blocks : slab[p] # NoSlab}
      mgmts == {slab[p].mgmt : p \in S} \ {NoObj}
  IN /\ \A p \in S : LET c == slab[p].cache
                         objs == {<<p, i>> : i \in 0..Num[c] - 1}
                         used == objs \cap (out \cup mgmts)
                     IN /\ FreeObjs(p) = objs \ used
                        /\ slab[p].inuse = Cardinality(used) /\ used # {}
                        /\ (slab[p].mgmt = NoObj) = (SlabCache[c] = 0)
                        /\ (p \in full[c]) = (used = objs)
     /\ out \cap mgmts = {} /\ \A o \in out \cup mgmts : o[1] \in S
     /\ \A p, q \in S : p # q /\ slab[p].mgmt # NoObj => slab[p].mgmt # slab[q].mgmt
     /\ \A c \in Caches :
          /\ full[c] \cap {notfull[c][i] : i \in DOMAIN notfull[c]} = {}
          /\ full[c] \cup {notfull[c][i] : i \in DOMAIN notfull[c]}
               = {p \in S : slab[p].cache = c}
          /\ Cardinality({p \in S : slab[p].cache = c})
               = Cardinality(full[c]) + Len(notfull[c])
=============================================================================
