--------------------------------- MODULE Vm ---------------------------------
(***************************************************************************)
(* Address spaces: the areas of an mm (mm/vmm.c), its page table and       *)
(* copy-on-write (glue-ucore/pmm.c), shared memory (mm/shmem.c) and the    *)
(* calls on them (process/proc.c).  Addresses are page numbers.  Every     *)
(* call holds the lock of its mm (module MmLock) and does not sleep, so    *)
(* that each is one step; the store of its result into user memory is a    *)
(* step of copy_to_user.  An area list is a set, ordered by vm_start.      *)
(***************************************************************************)
EXTENDS Vma

CONSTANTS
  Mms,       \* the address spaces
  NFrames,   \* the number of physical pages
  Shmems,    \* the shared memory objects, positive numbers
  PTSIZE,    \* the pages that one page table maps
  Values,    \* what a page may hold: 0 and others
  MapFlags,  \* the flags of mmap and shmem: subsets of {"write", "stack"}
  Ranges,    \* the ranges <<start, end>> that calls unmap
  MapLen,    \* the length that calls map, where the kernel chooses or at
             \* the start of a range
  Image,     \* the segments of a program: records of start, end, flags
  USTACKSIZE,
  ImageValue \* what a page of a program holds

ASSUME VmAssumption ==
  /\ IsFiniteSet(Mms) /\ IsFiniteSet(Shmems) /\ Shmems \subseteq Nat \ {0}
  /\ {NFrames, USERTOP, PTSIZE, MapLen, USTACKSIZE} \subseteq Nat \ {0}
  /\ \A r \in Ranges : USER_ACCESS(r[1], r[2])
  /\ 0 \in Values /\ ImageValue \in Values

VARIABLES
  mm,      \* the mm_structs with their page tables
  page,    \* the pages: page_ref and the contents
  shm,     \* the shmem_structs: ref, and a page or None for each entry
  leaked,  \* page tables that no mm has any more
  panic    \* the kernel stopped

vars == <<mm, page, shm, leaked, panic>>

Frames == 1..NFrames
Offsets == 0..MapLen - 1

NoPte == [frame |-> None, w |-> FALSE]
NoMm == [live |-> FALSE, areas |-> {},
         pte |-> [q \in UPages |-> NoPte], tables |-> {}]
NoPage == [ref |-> 0, val |-> 0]
NoShmem == [ref |-> 0, entry |-> [i \in Offsets |-> None], node |-> FALSE]

Init == /\ mm = [m \in Mms |-> NoMm]
        /\ page = [f \in Frames |-> NoPage]
        /\ shm = [x \in Shmems |-> NoShmem]
        /\ leaked = 0
        /\ panic = FALSE

\* Pages are allocated for contents, page tables and nodes of shared memory.
nr_free == NFrames - leaked - Cardinality({f \in Frames : page[f].ref > 0})
             - Cardinality({x \in Shmems : shm[x].node})
             - MapThenSumSet(LAMBDA m : Cardinality(mm[m].tables), Mms)
alloc_page == CHOOSE f \in Frames : page[f].ref = 0

Table(q) == 1 + (q - 1) \div PTSIZE

-----------------------------------------------------------------------------
(* Pages.                                                                  *)

Put(f, r, v) == IF r = 0 THEN NoPage ELSE [ref |-> r, val |-> v]

\* Fault: shmem_destroy leaves the pages of the object.
UnrefMapped(s, drop, gone) ==
  [f \in Frames |-> Put(f, page[f].ref
     - Cardinality({q \in drop : s.pte[q].frame = f}), page[f].val)]

\* page_remove_pte of the pages in drop, shmem_destroy of the objects gone.
Unref(s, drop, gone) ==
  [f \in Frames |-> Put(f, page[f].ref
     - Cardinality({q \in drop : s.pte[q].frame = f})
     - Cardinality({e \in gone \X Offsets : shm[e[1]].entry[e[2]] = f}),
     page[f].val)]

\* Shared areas without an object, which the lower part of a hole becomes.
Lost(areas) == {v \in areas : "share" \in v.flags /\ v.shmem = None}

Users(areas, x) == Cardinality({v \in areas : v.shmem = x})

(* The mm of m becomes t: unmap_range of the pages in drop, vma_destroy of *)
(* the areas in dead.  One of a shared area without object reads through   *)
(* NULL.  y is shm, perhaps after a page fault.                            *)
Release(m, t, y, drop, dead) ==
  LET s == mm[m]
      gone == {x \in Shmems : shm[x].ref > 0 /\ shm[x].ref = Users(dead, x)}
  IN IF Lost(dead) # {}
     THEN panic' = TRUE /\ UNCHANGED <<mm, page, shm>>
     ELSE /\ mm' = [mm EXCEPT ![m] = [t EXCEPT !.pte =
                     [q \in UPages |-> IF q \in drop THEN NoPte ELSE s.pte[q]]]]
          /\ page' = Unref(s, drop, gone)
          /\ shm' = [x \in Shmems |->
                       IF x \in gone THEN NoShmem
                       ELSE [y[x] EXCEPT !.ref = @ - Users(dead, x)]]
          /\ UNCHANGED panic

\* Fault: a shared page that was written stays shared.
MustCopyNever(f) == FALSE

\* do_pgfault: a page that others map too is copied before it is written.
MustCopy(f) == page[f].ref > 1

\* page_insert in place of what the page table entry had.
Insert(s, q, f, w) == [s EXCEPT !.pte[q] = [frame |-> f, w |-> w],
                                !.tables = @ \cup {Table(q)}]
Failed(s, t) == [ok |-> FALSE, oops |-> FALSE, mm |-> t, page |-> page,
                 shm |-> shm]

(* do_pgfault on page q of s, after find_vma found the area v.  u is what  *)
(* a page of shared memory, which is not cleared, turns out to hold.       *)
Resolve(s, v, q, u) ==
  LET w == "write" \in v.flags
      new == alloc_page
      old == s.pte[q].frame
      short == nr_free - Cardinality({Table(q)} \ s.tables)
      t == [s EXCEPT !.tables = @ \cup {Table(q)}]
      x == v.shmem
      i == q - v.start + v.off
      node == IF shm[x].node THEN 0 ELSE 1
      Done(f, p, y) == [ok |-> TRUE, oops |-> FALSE, mm |-> Insert(s, q, f, w),
                        page |-> p, shm |-> y]
  IN CASE short < 0 -> Failed(s, s)
       [] short >= 0 /\ old = None /\ "share" \notin v.flags ->
            IF short = 0 THEN Failed(s, t)
            ELSE Done(new, [page EXCEPT ![new] = [ref |-> 1, val |-> 0]], shm)
       [] short >= 0 /\ old = None /\ "share" \in v.flags /\ x = None ->
            [Failed(s, t) EXCEPT !.oops = TRUE]
       [] short >= 0 /\ old = None /\ "share" \in v.flags /\ x # None ->
            IF shm[x].entry[i] # None
            THEN Done(shm[x].entry[i],
                      [page EXCEPT ![shm[x].entry[i]].ref = @ + 1], shm)
            ELSE IF short < node THEN Failed(s, t)
            ELSE IF short = node
            THEN [Failed(s, t) EXCEPT !.shm[x].node = TRUE]
            ELSE Done(new, [page EXCEPT ![new] = [ref |-> 2, val |-> u]],
                      [shm EXCEPT ![x].entry[i] = new, ![x].node = TRUE])
       [] short >= 0 /\ old # None ->
            IF ~w \/ "share" \in v.flags THEN [Failed(s, t) EXCEPT !.oops = TRUE]
            ELSE IF ~MustCopy(old) THEN Done(old, page, shm)
            ELSE IF short = 0 THEN Failed(s, t)
            ELSE Done(new, [page EXCEPT ![new] = [ref |-> 1,
                                                  val |-> page[old].val],
                                        ![old].ref = @ - 1], shm)

\* The areas that an access to page q may go to: the lowest page of a stack
\* and, for a store, an area without VM_WRITE are refused.
Allowed(s, q, write) ==
  {v \in First(s.areas, q) : /\ v.start <= q
                             /\ "stack" \in v.flags => v.start + 1 <= q
                             /\ write => "write" \in v.flags}

Refused(s) == Failed(s, s)

\* do_pgfault.
Fault(m, q, write, u) ==
  LET s == mm[m]
      A == Allowed(mm[m], q, write)
  IN IF A = {} THEN Refused(s) ELSE Resolve(s, CHOOSE v \in A : TRUE, q, u)

-----------------------------------------------------------------------------
(* The calls of a process with address space m.                            *)

\* exit_mmap, put_pgdir and mm_destroy.  exit_range frees the page tables
\* that an area of the mm reaches.
exit_mm(m, y) ==
  LET s == mm[m]
      mapped == UNION {Pages(v) : v \in s.areas}
      reached == {Table(q) : q \in mapped}
  IN /\ Release(m, NoMm, y, mapped, s.areas)
     /\ leaked' = leaked + (IF panic' THEN 0
                            ELSE Cardinality(s.tables \ reached))

do_exit(m) == mm[m].live /\ exit_mm(m, shm)

\* A page fault in user code; killed_by_kernel if it cannot be resolved.
pgfault(m, q, write, u) ==
  LET s == mm[m]
      r == Fault(m, q, write, u)
  IN /\ s.live
     /\ s.pte[q].frame = None \/ (write /\ ~s.pte[q].w)
     /\ u = 0 \/ \E v \in Allowed(s, q, write) : "share" \in v.flags
     /\ CASE r.oops -> panic' = TRUE /\ UNCHANGED <<mm, page, shm, leaked>>
          [] ~r.oops /\ r.ok -> /\ mm' = [mm EXCEPT ![m] = r.mm]
                                /\ page' = r.page /\ shm' = r.shm
                                /\ UNCHANGED <<leaked, panic>>
          [] ~r.oops /\ ~r.ok -> exit_mm(m, r.shm)

\* User code changes a page that the page table lets it write.
store(m, q, v) ==
  /\ mm[m].pte[q].w /\ page[mm[m].pte[q].frame].val # v
  /\ page' = [page EXCEPT ![mm[m].pte[q].frame].val = v]
  /\ UNCHANGED <<mm, shm, leaked, panic>>

(* copy_to_user.  A page that user code may only read has the permission   *)
(* PTEX_U, Supervisor/Write, so that the kernel's store does not fault     *)
(* there.  A fault in the kernel that cannot be resolved is a panic.       *)
copy_to_user(m, q, v) ==
  LET s == mm[m]
      r == Fault(m, q, TRUE, v)
  IN /\ s.live /\ Allowed(s, q, TRUE) # {}
     /\ \/ /\ s.pte[q].frame # None /\ page[s.pte[q].frame].val # v
           /\ page' = [page EXCEPT ![s.pte[q].frame].val = v]
           /\ UNCHANGED <<mm, shm, leaked, panic>>
        \/ /\ s.pte[q].frame = None /\ r.ok
           /\ mm' = [mm EXCEPT ![m] = r.mm]
           /\ page' = [r.page EXCEPT ![r.mm.pte[q].frame].val = v]
           /\ shm' = r.shm
           /\ UNCHANGED <<leaked, panic>>
        \/ /\ s.pte[q].frame = None /\ ~r.ok
           /\ panic' = TRUE
           /\ UNCHANGED <<mm, page, shm, leaked>>

\* The address that a call maps at; 0 lets the kernel choose.
Address(s, addr, len) == IF addr = 0 THEN get_unmapped_area(s.areas, len)
                         ELSE addr
CanMap(s, start, end) == /\ USER_ACCESS(start, end)
                         /\ Free(First(s.areas, start), start, end)

\* do_mmap and mm_map.
do_mmap(m, addr, len, flags) ==
  LET s == mm[m]
      a == Address(s, addr, len)
  IN /\ s.live /\ CanMap(s, a, a + len)
     /\ mm' = [mm EXCEPT ![m].areas = @ \cup {vma(a, a + len, flags, None)}]
     /\ UNCHANGED <<page, shm, leaked, panic>>

\* do_shmem: a new object, mapped once by mm_map_shmem.
do_shmem(m, addr, len, flags) ==
  LET s == mm[m]
      a == Address(s, addr, len)
      X == {x \in Shmems : shm[x].ref = 0}
  IN /\ s.live /\ CanMap(s, a, a + len) /\ X # {}
     /\ mm' = [mm EXCEPT ![m].areas =
                  @ \cup {vma(a, a + len, flags \cup {"share"}, Min(X))}]
     /\ shm' = [shm EXCEPT ![Min(X)].ref = 1]
     /\ UNCHANGED <<page, leaked, panic>>

\* mm_unmap, which do_munmap calls and do_brk when the heap shrinks.
mm_unmap(m, start, end) ==
  LET A == mm[m].areas
      F == First(A, start)
  IN /\ mm[m].live /\ USER_ACCESS(start, end)
     /\ ~Free(F, start, end)
     /\ Release(m, [mm[m] EXCEPT !.areas = Unmapped(A, F, start, end)], shm,
                (start..end - 1) \cap UNION {Pages(v) : v \in A},
                Destroyed(A, F, start, end))
     /\ UNCHANGED leaked

(* load_icode, for a process that has no mm.  The pages of the segments    *)
(* and the topmost page of the stack, for the arguments, are there at      *)
(* once; without memory for the segments the new mm is destroyed again,    *)
(* without memory for the arguments the kernel faults.                     *)
load_icode(m) ==
  LET stack == [start |-> USERTOP - USTACKSIZE, end |-> USERTOP,
                flags |-> {"write", "stack"}]
      segs == Image \cup {stack}
      text == UNION {Pages(v) : v \in Image}
      filled == text \cup {USERTOP - 1}
      frame == CHOOSE g \in [filled -> {f \in Frames : page[f].ref = 0}] :
                 \A q, r \in filled : q # r => g[q] # g[r]
      tables(S) == {Table(q) : q \in S}
  IN /\ ~mm[m].live
     /\ nr_free >= Cardinality(text) + Cardinality(tables(text))
     /\ IF nr_free < Cardinality(filled) + Cardinality(tables(filled))
        THEN panic' = TRUE /\ UNCHANGED <<mm, page>>
        ELSE /\ mm' = [mm EXCEPT ![m] =
                  [live |-> TRUE, areas |-> {vma(v.start, v.end, v.flags, None) : v \in segs},
                   pte |-> [q \in UPages |->
                     IF q \in filled
                     THEN [frame |-> frame[q],
                           w |-> \E v \in segs : q \in Pages(v) /\ "write" \in v.flags]
                     ELSE NoPte],
                   tables |-> tables(filled)]]
             /\ page' = [f \in Frames |->
                  IF \E q \in filled : frame[q] = f
                  THEN [ref |-> 1, val |-> ImageValue] ELSE page[f]]
             /\ UNCHANGED panic
     /\ UNCHANGED <<shm, leaked>>

\* Fault: the pages of the parent stay writable.
KeepsWrite(v) == TRUE

\* copy_range leaves only shared memory writable, in parent and child.
Keeps(v) == "share" \in v.flags

(* do_fork, copy_mm and dup_mmap: the areas from the highest to the        *)
(* lowest, the pages of each upwards.  Memory runs out after got areas, or *)
(* at the first page that needs a page table too many; the child's memory  *)
(* is then given back, but the parent's pages stay as they are.            *)
do_fork(m, c, got) ==
  LET s == mm[m]
      Area(q) == CHOOSE v \in s.areas : q \in Pages(v)
      Rank(v) == Cardinality({w \in s.areas : w.start >= v.start})
      present == {q \in UPages : s.pte[q].frame # None}
      done == {q \in present : Rank(Area(q)) <= got}
      Upto(q) == {r \in done : \/ Area(r).start > Area(q).start
                               \/ Area(r) = Area(q) /\ r <= q}
      copied == {q \in done : Cardinality({Table(r) : r \in Upto(q)}) <= nr_free}
      Kept(q) == [s.pte[q] EXCEPT !.w = @ /\ Keeps(Area(q))]
      parent == [s EXCEPT !.pte = [q \in UPages |-> IF q \in copied THEN Kept(q)
                                                    ELSE @[q]]]
      child == [s EXCEPT !.pte = [q \in UPages |->
                                    IF q \in copied
                                    THEN [@[q] EXCEPT !.w = @ /\ "share" \in
                                                              Area(q).flags]
                                    ELSE NoPte],
                         !.tables = {Table(q) : q \in copied}]
      all == got = Cardinality(s.areas) /\ copied = present
  IN /\ s.live /\ ~mm[c].live
     /\ \/ /\ \E v \in Lost(s.areas) : Rank(v) <= got
           /\ panic' = TRUE
           /\ UNCHANGED <<mm, page, shm>>
        \/ /\ \A v \in Lost(s.areas) : Rank(v) > got
           /\ mm' = IF all THEN [mm EXCEPT ![m] = parent, ![c] = child]
                    ELSE [mm EXCEPT ![m] = parent]
           /\ page' = IF all
                      THEN [f \in Frames |-> [page[f] EXCEPT !.ref = @ +
                              Cardinality({q \in copied : s.pte[q].frame = f})]]
                      ELSE page
           /\ shm' = IF all
                     THEN [x \in Shmems |-> [shm[x] EXCEPT !.ref = @ +
                                                Users(s.areas, x)]]
                     ELSE shm
           /\ UNCHANGED panic
     /\ UNCHANGED leaked

Next == /\ ~panic
        /\ \E m \in Mms :
             \/ load_icode(m) \/ do_exit(m)
             \/ \E c \in Mms, n \in 0..USERTOP : /\ n <= Cardinality(mm[m].areas)
                                                 /\ do_fork(m, c, n)
             \/ \E q \in UPages, v \in Values :
                  \/ pgfault(m, q, TRUE, v) \/ pgfault(m, q, FALSE, v)
                  \/ store(m, q, v) \/ copy_to_user(m, q, v)
             \/ \E a \in {0} \cup {r[1] : r \in Ranges}, flags \in MapFlags :
                  do_mmap(m, a, MapLen, flags) \/ do_shmem(m, a, MapLen, flags)
             \/ \E r \in Ranges : mm_unmap(m, r[1], r[2])

Spec == Init /\ [][Next]_vars

-----------------------------------------------------------------------------
TypeOK ==
  /\ \A m \in Mms :
       /\ \A v \in mm[m].areas : 1 <= v.start /\ v.start < v.end /\ v.end <= USERTOP
       /\ mm[m].pte \in [UPages -> [frame : Frames \cup {None}, w : BOOLEAN]]
       /\ mm[m].tables \subseteq {Table(q) : q \in UPages}
  /\ page \in [Frames -> [ref : Nat, val : Values]]
  /\ leaked \in Nat /\ nr_free >= 0
  /\ panic \in BOOLEAN

(* page_ref counts the page table entries and the shared memory entries    *)
(* that hold a page, and shmem_ref the areas of an object: no page is      *)
(* freed while it is mapped and none is kept when it is not.               *)
RefsExact ==
  /\ \A f \in Frames : page[f].ref =
       Cardinality({e \in Mms \X UPages : mm[e[1]].pte[e[2]].frame = f})
         + Cardinality({e \in Shmems \X Offsets : shm[e[1]].entry[e[2]] = f})
  /\ \A x \in Shmems : shm[x].ref =
       Cardinality({e \in Mms \X UPages : \E v \in mm[e[1]].areas :
                      v.start = e[2] /\ v.shmem = x})

(* A page that is mapped lies in an area, can be written only if the area  *)
(* can, and belongs to the area's shared memory at the right offset; a     *)
(* page that can be written is in no other page table unless it is shared. *)
PtesAllowed ==
  \A m \in Mms, q \in UPages : LET p == mm[m].pte[q] IN p.frame # None =>
    /\ Table(q) \in mm[m].tables
    /\ \E v \in mm[m].areas :
         /\ q \in Pages(v)
         /\ p.w => "write" \in v.flags
         /\ v.shmem # None => shm[v.shmem].entry[q - v.start + v.off] = p.frame
         /\ p.w /\ "share" \notin v.flags => page[p.frame].ref = 1

Nothing == -1
Unset == -2
Private == <<>>

-----------------------------------------------------------------------------
(* The memory that a process sees: which piece of shared memory a page is, *)
(* and what it holds (module AddressSpace).                                *)
Key(m, q) == LET V == {v \in mm[m].areas : q \in Pages(v) /\ v.shmem # None} IN
  IF V = {} THEN Private
  ELSE LET v == CHOOSE v \in V : TRUE IN <<v.shmem, q - v.start + v.off>>
View(m, q) ==
  LET p == mm[m].pte[q]
      k == Key(m, q)
  IN IF p.frame # None THEN page[p.frame].val
     ELSE IF k # Private /\ shm[k[1]].entry[k[2]] # None
     THEN page[shm[k[1]].entry[k[2]]].val
     ELSE IF k # Private THEN Unset
     ELSE IF \E v \in mm[m].areas : q \in Pages(v) THEN 0 ELSE Nothing

Space == [m \in Mms |-> [q \in UPages |-> View(m, q)]]
Keys == [m \in Mms |-> [q \in UPages |-> Key(m, q)]]

(* init_main, process/proc.c: assert(nr_used_pages_store ==                *)
(* nr_used_pages()).  When no address space is left, every page is free.   *)
PagesReturned == (\A m \in Mms : ~mm[m].live) /\ ~panic => nr_free = NFrames
=============================================================================
