------------------------------ MODULE MCMemory ------------------------------
(***************************************************************************)
(* The models of mm/ for TLC: address spaces (Vm), the area list and its   *)
(* cache (Mmap), the tree of areas (RbTree), the page allocator (Buddy)    *)
(* and kmalloc (Slab).  They share no state: Vm counts pages and takes     *)
(* areas from a set, so that a behaviour exercises one part, chosen at the *)
(* start, and the others rest.                                             *)
(***************************************************************************)
EXTENDS Vm, TLC

CONSTANTS
  m1, m2,                             \* the members of Mms
  ListTop, ListLen, HeapStart, StackStart, \* of Mmap
  NNodes,                             \* of RbTree
  ZonePages, MAX_ORDER, MaxRequest,   \* of Buddy
  SlabPages                           \* of Slab: NPages

VARIABLES
  part,      \* the part that runs
  mem, key,  \* history variables: the memory that processes see, until a
             \* hole in shared memory leaves an area without its object
  areas, cache, brk,
  tree, nodes,
  property, free_list, zone_free, allocated, zone_panic,
  slab, notfull, full, out

space_vars == <<vars, mem, key>>
list_vars == <<areas, cache, brk>>
tree_vars == <<tree, nodes>>
zone_vars == <<property, free_list, zone_free, allocated, zone_panic>>
slab_vars == <<slab, notfull, full, out>>
all_vars == <<part, space_vars, list_vars, tree_vars, zone_vars, slab_vars>>

\* One program page, and mappings that can be written.
MCImage == {[start |-> 1, end |-> 2, flags |-> {"write"}]}
MCFlags == {{"write"}}

\* Three pages, and the one in their middle.
MCRanges == {<<2, 5>>, <<3, 4>>}

\* Three caches; the slab_t of the last two are objects of the first.
MCNum == <<3, 2, 1>>
MCSlabCache == <<0, 1, 1>>

List == INSTANCE Mmap WITH USERTOP <- ListTop, MaxLen <- ListLen, MapFlags <- {{}}
Tree == INSTANCE RbTree WITH held <- nodes
Zone == INSTANCE Buddy WITH NPages <- ZonePages, nr_free <- zone_free,
  held <- allocated, panic <- zone_panic
Slabs == INSTANCE Slab WITH NPages <- SlabPages, NCaches <- 3,
  Num <- MCNum, SlabCache <- MCSlabCache

Intact == \A m \in Mms : Lost(mm[m].areas) = {}

\* A is a step of the part.
InSpace(A) == /\ part = "space" /\ A
              /\ IF Intact' THEN mem' = Space' /\ key' = Keys'
                 ELSE UNCHANGED <<mem, key>>
              /\ UNCHANGED <<part, list_vars, tree_vars, zone_vars, slab_vars>>
InList(A) == /\ part = "list" /\ A
             /\ UNCHANGED <<part, space_vars, tree_vars, zone_vars, slab_vars>>
InTree(A) == /\ part = "tree" /\ A
             /\ UNCHANGED <<part, space_vars, list_vars, zone_vars, slab_vars>>
InZone(A) == /\ part = "zone" /\ A
             /\ UNCHANGED <<part, space_vars, list_vars, tree_vars, slab_vars>>
InSlab(A) == /\ part = "slab" /\ A
             /\ UNCHANGED <<part, space_vars, list_vars, tree_vars, zone_vars>>

MCInit == /\ part \in {"space", "list", "tree", "zone", "slab"}
          /\ Init /\ mem = Space /\ key = Keys
          /\ List!Init /\ Tree!Init /\ Zone!Init /\ Slabs!Init
MCNext == \/ InSpace(Next) \/ InList(List!Next) \/ InTree(Tree!Next)
          \/ InZone(Zone!Next) \/ InSlab(Slabs!Next)
MCSpec == MCInit /\ [][MCNext]_all_vars

Symmetry == Permutations(Mms)

\* Which frame holds a page does not matter: a page is known by its users.
MCView ==
  IF part # "space" THEN <<part, list_vars, tree_vars, zone_vars, slab_vars>>
  ELSE <<[m \in Mms |-> [mm[m] EXCEPT !.pte = [q \in UPages |-> mm[m].pte[q].w]]],
         {<<page[f], {e \in Mms \X UPages : mm[e[1]].pte[e[2]].frame = f},
            {e \in Shmems \X Offsets : shm[e[1]].entry[e[2]] = f}>> :
              f \in {g \in Frames : page[g].ref > 0}},
         [x \in Shmems |-> <<shm[x].ref, shm[x].node>>], leaked, panic>>

-----------------------------------------------------------------------------
Built == INSTANCE AddressSpace WITH Strict <- FALSE
Meant == INSTANCE AddressSpace WITH Strict <- TRUE

\* A store of user code changes the page and its aliases, and nothing else.
UserStores == part = "space" /\ page' # page /\ mm' = mm =>
  \A m \in Mms, q \in UPages, v \in Values :
    store(m, q, v) /\ Intact' => Built!Store(m, q, v)

(* Demand paging, copy-on-write and shared memory give every process the   *)
(* memory of module AddressSpace: page faults (do_pgfault) change no       *)
(* contents, a fork (copy_range) copies them, and a store of user code     *)
(* reaches nobody else's memory.  Stores of the kernel may also reach      *)
(* untouched copies of the page.  It holds until mm_unmap makes a hole in  *)
(* a shared area.                                                          *)
Memory == Built!Spec /\ [][UserStores]_space_vars

(* copy_range, glue-ucore/pmm.c: "no body should be able to write this     *)
(* page before a W-pgfault".  So also the kernel's stores reach only the   *)
(* memory they are meant for.                                              *)
CopyOnWrite == Meant!Spec

\* Areas do not overlap, and find_vma finds what a walk of the list finds.
LookupsExact == part = "list" => List!LookupsExact

\* What check_tree asserts, and the searches in the tree are right.
TreeExact == part = "tree" => Tree!TreeExact

\* Each page is free or allocated once and free buddies are merged; each
\* object of kmalloc is free or used once and empty slabs are given back.
AllocatorsExact == /\ part = "zone" => Zone!BuddyExact
                   /\ part = "slab" => Slabs!SlabExact
=============================================================================
