---------------------------- MODULE AddressSpace ----------------------------
(***************************************************************************)
(* What the memory of processes looks like to them, without page tables,   *)
(* page faults or copy-on-write: every address space has its own contents, *)
(* a fork copies them, and a store changes the stored page, also where the *)
(* same shared memory is mapped, and nothing else.                         *)
(***************************************************************************)
EXTENDS Integers

CONSTANTS
  Mms,     \* the address spaces
  UPages,  \* the page numbers of user space
  Values,  \* what a page may hold
  Nothing, \* the contents of a page that is not mapped
  Unset,   \* the contents of shared memory that nobody has touched
  Private, \* the key of a page that is not shared memory
  Strict   \* FALSE: a store by the kernel may reach pages with equal contents

VARIABLES
  mem,  \* mem[m][q]: the contents of page q
  key   \* key[m][q]: the piece of shared memory it is, or Private

vars == <<mem, key>>

Init == /\ mem = [m \in Mms |-> [q \in UPages |-> Nothing]]
        /\ key = [m \in Mms |-> [q \in UPages |-> Private]]

\* The pages that are the same memory as page q of m.
Alias(m, q) == IF key[m][q] = Private THEN {<<m, q>>}
               ELSE {a \in Mms \X UPages : key[a[1]][a[2]] = key[m][q]}

\* The pages in S get v, other pages keep their contents.
Written(S, v) == \A a \in Mms \X UPages :
  mem'[a[1]][a[2]] = IF a \in S THEN v ELSE mem[a[1]][a[2]]

Store(m, q, v) ==
  /\ mem[m][q] # Nothing
  /\ Written(Alias(m, q), v)
  /\ UNCHANGED key

\* A private page gets v, and perhaps also pages that have equal contents.
KernelStore(m, q, v) ==
  /\ ~Strict /\ key[m][q] = Private /\ mem[m][q] # Nothing
  /\ \A a \in Mms \X UPages :
       \/ mem'[a[1]][a[2]] = mem[a[1]][a[2]]
       \/ /\ key[a[1]][a[2]] = Private /\ mem[a[1]][a[2]] = mem[m][q]
          /\ mem'[a[1]][a[2]] = v
  /\ UNCHANGED key

\* Shared memory is touched for the first time and turns out to hold v.
Settle(m, q, v) ==
  /\ mem[m][q] = Unset
  /\ Written(Alias(m, q), v)
  /\ UNCHANGED key

Others(m) == \A n \in Mms \ {m} : mem'[n] = mem[n] /\ key'[n] = key[n]

\* A range of pages of m appears, empty or as new shared memory, or goes.
Remap(m) ==
  /\ Others(m)
  /\ \E S \in {{q \in UPages : mem'[m][q] # mem[m][q]}}, c \in {0, Unset, Nothing} :
       /\ S # {}
       /\ \A q \in UPages \ S : key'[m][q] = key[m][q]
       /\ \A q \in S : /\ mem'[m][q] = c
                       /\ c # Nothing => mem[m][q] = Nothing
                       /\ IF c = Unset
                          THEN \A a \in Mms \X UPages : key[a[1]][a[2]] # key'[m][q]
                          ELSE key'[m][q] = Private
       /\ \A q \in UPages \ S, r, t \in S : r < q /\ q < t => mem[m][q] = Nothing

\* A new program in an address space that had no memory.
Exec(m) ==
  /\ Others(m)
  /\ \A q \in UPages : /\ mem[m][q] = Nothing
                        /\ mem'[m][q] \in Values \cup {Nothing}
                        /\ key'[m][q] = Private

Fork(m, c) ==
  /\ \A q \in UPages : mem[c][q] = Nothing
  /\ mem'[c] = mem[m] /\ key'[c] = key[m]
  /\ Others(c)

Next == \E m \in Mms :
  \/ Remap(m) \/ Exec(m) \/ \E c \in Mms \ {m} : Fork(m, c)
  \/ \E q \in UPages : \E v \in Values \cap {mem'[m][q]} :
       Store(m, q, v) \/ KernelStore(m, q, v) \/ Settle(m, q, v)

Spec == Init /\ [][Next]_vars
=============================================================================
