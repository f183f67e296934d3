---------------------------- MODULE TableProofs -----------------------------
(***************************************************************************)
(* Proofs about the tables of open files (FileTable), for any processes,   *)
(* tables, inodes and size of a table: the counts of inodes are exact and  *)
(* an entry that is set up or torn down belongs to one process.  A step    *)
(* either moves one process and changes one entry of its table (OneEntry), *)
(* or opens free entries while nobody who is in a call moves (Opens).      *)
(***************************************************************************)
EXTENDS FileTable, FiniteSetTheorems, TLAPS

USE ZenonT(30)

\* The values of the fields.
Statuses == {"FD_NONE", "FD_INIT", "FD_OPENED", "FD_CLOSED"}
Destroying == {"destroy", "destroy_close", "destroy_free"}
ClosingNode == {"close", "destroy_close"}
Places == {"user", "lookup", "opened", "use", "close", "free"} \cup Destroying
Place == [at : Places, fd : Fd, node : Node \cup {None}]

\* Where a process sets an entry up or tears it down.
SettingUp(at) == at \notin {"user", "use", "destroy"}

\* What a condition adds to a count.
B(b) == IF b THEN 1 ELSE 0

\* The processes that have the table f, and are not taking it down.
Users(f) == {p \in Proc : fs_struct[p] = f /\ pc[p].at \notin Destroying}

\* The processes between filemap_acquire and filemap_release of an entry.
Inside(f, d) == {p \in Proc : fs_struct[p] = f /\ pc[p].at = "use" /\ pc[p].fd = d}

\* The processes that set up or tear down an entry.
Owners(f, d) == {p \in Proc : fs_struct[p] = f /\ pc[p].fd = d /\ SettingUp(pc[p].at)}

\* The entry holds its inode; it is being set up or torn down.
IsHeld(st, cnt) == st = "FD_OPENED" \/ (st = "FD_CLOSED" /\ cnt > 0)
IsBusy(st, cnt) == st = "FD_INIT" \/ (st = "FD_CLOSED" /\ cnt = 0)

TableTypes ==
  /\ fs_struct \in [Proc -> Fs \cup {None}]
  /\ fs_count \in [Fs -> Nat]
  /\ status \in [Fs -> [Fd -> Statuses]]
  /\ open_count \in [Fs -> [Fd -> Nat]]
  /\ node \in [Fs -> [Fd -> Node \cup {None}]]
  /\ node_ref \in [Node -> 0..MaxRef] /\ node_open \in [Node -> Nat]
  /\ pc \in [Proc -> Place]

\* Who is in a call has a table and the inode that the call needs, and who
\* takes a table down has it alone.
CallsHold ==
  \A p \in Proc :
    /\ pc[p].at # "user" => fs_struct[p] \in Fs
    /\ pc[p].at \in ClosingNode \cup {"opened"} => pc[p].node \in Node
    /\ pc[p].at = "use" => node[fs_struct[p]][pc[p].fd] = pc[p].node
    /\ pc[p].at \in Destroying => \A q \in Proc \ {p} : fs_struct[q] # fs_struct[p]

\* open_count counts the descriptor and the calls inside; who sets up or tears
\* down an entry is alone.
EntriesExact ==
  \A f \in Fs, d \in Fd :
    /\ open_count[f][d] = Cardinality(Inside(f, d)) + B(status[f][d] = "FD_OPENED")
    /\ status[f][d] \in {"FD_NONE", "FD_INIT"} => open_count[f][d] = 0
    /\ status[f][d] \in {"FD_OPENED", "FD_CLOSED"} => node[f][d] \in Node
    /\ IsBusy(status[f][d], open_count[f][d]) <=> Owners(f, d) # {}
    /\ \A p, q \in Owners(f, d) : p = q

\* fs_count counts the users, and an open descriptor is in somebody's table.
TablesUsed ==
  \A f \in Fs :
    /\ fs_count[f] = Cardinality(Users(f))
    /\ Opened(f) # {} => \E p \in Proc : fs_struct[p] = f

\* The inductive invariant.
TableInv == TableTypes /\ CallsHold /\ EntriesExact /\ TablesUsed /\ NodeCountsExact

-----------------------------------------------------------------------------
(* Counting.                                                               *)

\* A set that one element joins or leaves.
LEMMA CountOne ==
  ASSUME NEW S, IsFiniteSet(S), NEW x, NEW c \in BOOLEAN, NEW T,
         T = IF c THEN S \cup {x} ELSE S \ {x}
  PROVE  Cardinality(T) = Cardinality(S) + B(c) - B(x \in S)
<1>1. Cardinality(S) \in Nat
  BY FS_CardinalityType
<1>2. CASE c
  BY <1>1, <1>2, FS_AddElement, SMTT(30) DEF B
<1>3. CASE ~c
  BY <1>1, <1>3, FS_RemoveElement, SMTT(30) DEF B
<1> QED BY <1>2, <1>3

\* The sets that are counted are finite.
LEMMA FiniteSubsets ==
  ASSUME TableConstants
  PROVE  /\ \A S \in SUBSET Proc : IsFiniteSet(S) /\ Cardinality(S) \in Nat
         /\ \A S \in SUBSET (Fs \X Fd) : IsFiniteSet(S) /\ Cardinality(S) \in Nat
<1>1. \A S \in SUBSET Proc : IsFiniteSet(S) /\ Cardinality(S) \in Nat
  BY FS_Subset, FS_CardinalityType DEF TableConstants
<1>2. IsFiniteSet(Fs \X Fd)
  <2>1. IsFiniteSet(Fd)
    BY FS_Interval, SMTT(30) DEF TableConstants, Fd
  <2> QED BY <2>1, FS_Product DEF TableConstants
<1>3. \A S \in SUBSET (Fs \X Fd) : IsFiniteSet(S) /\ Cardinality(S) \in Nat
  BY <1>2, FS_Subset, FS_CardinalityType
<1> QED BY <1>1, <1>3

\* So are the sets of the invariant.
LEMMA Finite ==
  ASSUME TableConstants
  PROVE  /\ \A f, d : IsFiniteSet(Inside(f, d)) /\ Cardinality(Inside(f, d)) \in Nat
         /\ \A f : IsFiniteSet(Users(f)) /\ Cardinality(Users(f)) \in Nat
         /\ \A n : /\ IsFiniteSet(Holders(n)) /\ Cardinality(Holders(n)) \in Nat
                   /\ IsFiniteSet(Opening(n)) /\ Cardinality(Opening(n)) \in Nat
                   /\ IsFiniteSet(Closing(n)) /\ Cardinality(Closing(n)) \in Nat
<1>1. \A f, d : Inside(f, d) \in SUBSET Proc
  BY DEF Inside
<1>2. \A f : Users(f) \in SUBSET Proc
  BY DEF Users
<1>3. \A n : Opening(n) \in SUBSET Proc /\ Closing(n) \in SUBSET Proc
  BY DEF Opening, Closing
<1>4. \A n : Holders(n) \in SUBSET (Fs \X Fd)
  BY DEF Holders
<1> QED BY <1>1, <1>2, <1>3, <1>4, FiniteSubsets

\* So are they after a step.
LEMMA FiniteLater ==
  ASSUME TableConstants
  PROVE  \A n : /\ Cardinality(Holders(n)') \in Nat /\ Cardinality(Opening(n)') \in Nat
                /\ Cardinality(Closing(n)') \in Nat
<1>1. \A n : Opening(n)' \in SUBSET Proc /\ Closing(n)' \in SUBSET Proc
  BY DEF Opening, Closing
<1>2. \A n : Holders(n)' \in SUBSET (Fs \X Fd)
  BY DEF Holders
<1> QED BY <1>1, <1>2, FiniteSubsets

-----------------------------------------------------------------------------
(* Most steps move one process and change one entry of its table.          *)

\* p moves to r, and its entry d has the status st, the count cnt and the inode
\* nd then.
Moves(p, d, r, st, cnt, nd) ==
  /\ fs_struct[p] \in Fs
  /\ pc' = [pc EXCEPT ![p] = r]
  /\ UNCHANGED <<fs_struct, fs_count>>
  /\ status' \in [Fs -> [Fd -> Statuses]]
  /\ open_count' \in [Fs -> [Fd -> Nat]]
  /\ node' \in [Fs -> [Fd -> Node \cup {None}]]
  /\ status'[fs_struct[p]][d] = st /\ open_count'[fs_struct[p]][d] = cnt
  /\ node'[fs_struct[p]][d] = nd
  /\ \A g \in Fs, e \in Fd : g # fs_struct[p] \/ e # d =>
       /\ status'[g][e] = status[g][e] /\ open_count'[g][e] = open_count[g][e]
       /\ node'[g][e] = node[g][e]

\* What makes such a step harmless: it is about one entry, which is nobody
\* else's if it is set up or torn down, and whose count follows.
Harmless(p, d, r, st, cnt, nd) ==
  LET f == fs_struct[p] IN
  /\ r.at \in Destroying <=> pc[p].at \in Destroying
  /\ pc[p].at \notin {"user", "destroy"} => pc[p].fd = d
  /\ r.at \notin {"user", "destroy"} => r.fd = d
  /\ r.at \in ClosingNode \cup {"opened"} => r.node \in Node
  /\ r.at = "use" => r.node = nd
  /\ SettingUp(pc[p].at) \/ ~IsBusy(status[f][d], open_count[f][d])
  /\ IsBusy(st, cnt) <=> SettingUp(r.at)
  /\ cnt = open_count[f][d] + B(r.at = "use") - B(pc[p].at = "use")
             + B(st = "FD_OPENED") - B(status[f][d] = "FD_OPENED")
  /\ st \in {"FD_NONE", "FD_INIT"} => cnt = 0
  /\ st \in {"FD_OPENED", "FD_CLOSED"} => nd \in Node
  /\ nd = node[f][d] \/ open_count[f][d] = 0

\* The counts of the inodes follow.
Follows(p, d, r, st, cnt, nd) ==
  /\ node_open' \in [Node -> Int] /\ node_ref' \in [Node -> Int]
  /\ \A n \in Node :
     /\ node_open'[n] = node_open[n]
          + B(IsHeld(st, cnt) /\ nd = n)
          - B(/\ IsHeld(status[fs_struct[p]][d], open_count[fs_struct[p]][d])
              /\ node[fs_struct[p]][d] = n)
          + B(r.at = "opened" /\ r.node = n)
          - B(pc[p].at = "opened" /\ pc[p].node = n)
     /\ node_ref'[n] = node_ref[n] + node_open'[n] - node_open[n]
          + B(r.at \in ClosingNode /\ r.node = n)
          - B(pc[p].at \in ClosingNode /\ pc[p].node = n)
     /\ node_ref'[n] <= MaxRef

\* The processes that open an inode, after such a step.
LEMMA OpeningMoves ==
  ASSUME TableConstants, TableTypes, NEW p \in Proc, NEW r \in Place,
         pc' = [pc EXCEPT ![p] = r], UNCHANGED fs_struct, NEW n
  PROVE  Cardinality(Opening(n)') = Cardinality(Opening(n))
           + B(r.at = "opened" /\ r.node = n)
           - B(pc[p].at = "opened" /\ pc[p].node = n)
<1>1. Opening(n)' = IF r.at = "opened" /\ r.node = n THEN Opening(n) \cup {p}
                    ELSE Opening(n) \ {p}
  BY DEF Opening, TableTypes
<1>2. (p \in Opening(n)) = (pc[p].at = "opened" /\ pc[p].node = n)
  BY SMTT(30) DEF Opening
<1>3. Cardinality(Opening(n)') = Cardinality(Opening(n))
         + B(r.at = "opened" /\ r.node = n) - B(p \in Opening(n))
  BY <1>1, Finite, CountOne
<1> QED BY <1>2, <1>3

\* The same for the processes that close an inode ...
LEMMA ClosingMoves ==
  ASSUME TableConstants, TableTypes, NEW p \in Proc, NEW r \in Place,
         pc' = [pc EXCEPT ![p] = r], UNCHANGED fs_struct, NEW n
  PROVE  Cardinality(Closing(n)') = Cardinality(Closing(n))
           + B(r.at \in ClosingNode /\ r.node = n)
           - B(pc[p].at \in ClosingNode /\ pc[p].node = n)
<1>1. Closing(n)' = IF r.at \in ClosingNode /\ r.node = n THEN Closing(n) \cup {p}
                    ELSE Closing(n) \ {p}
  BY DEF Closing, ClosingNode, TableTypes
<1>2. (p \in Closing(n)) = (pc[p].at \in ClosingNode /\ pc[p].node = n)
  BY SMTT(30) DEF Closing, ClosingNode
<1>3. Cardinality(Closing(n)') = Cardinality(Closing(n))
         + B(r.at \in ClosingNode /\ r.node = n) - B(p \in Closing(n))
  BY <1>1, Finite, CountOne
<1> QED BY <1>2, <1>3

\* ... and for those inside an entry.
LEMMA InsideMoves ==
  ASSUME TableConstants, TableTypes, NEW p \in Proc, NEW r \in Place,
         pc' = [pc EXCEPT ![p] = r], UNCHANGED fs_struct, NEW f, NEW d
  PROVE  Cardinality(Inside(f, d)') = Cardinality(Inside(f, d))
           + B(p \in Inside(f, d)') - B(p \in Inside(f, d))
<1>1. IsFiniteSet(Inside(f, d)) /\ Cardinality(Inside(f, d)) \in Nat
  BY Finite
<1>2. CASE p \in Inside(f, d)'
  <2>1. Inside(f, d)' = Inside(f, d) \cup {p}
    BY <1>2 DEF Inside, TableTypes
  <2> QED BY <1>1, <1>2, <2>1, FS_AddElement, SMTT(30) DEF B
<1>3. CASE p \notin Inside(f, d)'
  <2>1. Inside(f, d)' = Inside(f, d) \ {p}
    BY <1>3 DEF Inside, TableTypes
  <2>2. Cardinality(Inside(f, d) \ {p}) =
          IF p \in Inside(f, d) THEN Cardinality(Inside(f, d)) - 1 ELSE Cardinality(Inside(f, d))
    BY <1>1, FS_RemoveElement
  <2> QED BY <1>1, <1>3, <2>1, <2>2, SMTT(30) DEF B
<1> QED BY <1>2, <1>3

\* The entries that hold an inode after such a step.
LEMMA EntryChanges ==
  ASSUME TableConstants, TableTypes, NEW p \in Proc, NEW d \in Fd,
         NEW r, NEW st, NEW cnt, NEW nd, Moves(p, d, r, st, cnt, nd)
  PROVE  \A n : Cardinality(Holders(n)') = Cardinality(Holders(n))
           + B(IsHeld(st, cnt) /\ nd = n)
           - B(/\ IsHeld(status[fs_struct[p]][d], open_count[fs_struct[p]][d])
               /\ node[fs_struct[p]][d] = n)
<1> SUFFICES ASSUME NEW n
             PROVE  Cardinality(Holders(n)') = Cardinality(Holders(n))
               + B(IsHeld(st, cnt) /\ nd = n)
               - B(/\ IsHeld(status[fs_struct[p]][d], open_count[fs_struct[p]][d])
                   /\ node[fs_struct[p]][d] = n)
  OBVIOUS
<1> DEFINE e == <<fs_struct[p], d>>
<1>1. Holders(n)' = IF IsHeld(st, cnt) /\ nd = n THEN Holders(n) \cup {e} ELSE Holders(n) \ {e}
  <2>1. \A x \in Fs \X Fd : x # e => (x \in Holders(n)' <=> x \in Holders(n))
    BY SMTT(30) DEF Moves, Holders
  <2>2. e \in Holders(n)' <=> IsHeld(st, cnt) /\ nd = n
    BY DEF Moves, Holders, IsHeld
  <2>3. Holders(n) \subseteq Fs \X Fd /\ Holders(n)' \subseteq Fs \X Fd /\ e \in Fs \X Fd
    BY DEF Holders, Moves
  <2> HIDE DEF e
  <2> QED BY <2>1, <2>2, <2>3
<1>2. e \in Holders(n) <=> /\ IsHeld(status[fs_struct[p]][d], open_count[fs_struct[p]][d])
                          /\ node[fs_struct[p]][d] = n
  BY DEF Holders, Moves, IsHeld
<1>3. Cardinality(Holders(n)') = Cardinality(Holders(n))
        + B(IsHeld(st, cnt) /\ nd = n) - B(e \in Holders(n))
  <2> HIDE DEF e
  <2> QED BY <1>1, Finite, CountOne DEF IsHeld
<1> QED BY <1>2, <1>3 DEF B

\* Such a step keeps the invariant.
LEMMA OneEntry ==
  ASSUME TableConstants, TableInv, NEW p \in Proc, NEW d \in Fd, NEW r \in Place,
         NEW st \in Statuses, NEW cnt \in Nat, NEW nd \in Node \cup {None},
         Moves(p, d, r, st, cnt, nd), Harmless(p, d, r, st, cnt, nd),
         Follows(p, d, r, st, cnt, nd)
  PROVE  TableInv'
<1> DEFINE f == fs_struct[p]
<1> USE DEF TableInv
<1>1. /\ f \in Fs /\ pc' = [pc EXCEPT ![p] = r] /\ UNCHANGED <<fs_struct, fs_count>>
      /\ fs_struct \in [Proc -> Fs \cup {None}] /\ pc \in [Proc -> Place]
  BY DEF Moves, TableTypes
<1>2. /\ pc' \in [Proc -> Place] /\ pc'[p] = r
      /\ \A q \in Proc \ {p} : pc'[q] = pc[q]
  BY <1>1
<1>3. NodeCountsExact'
  <2> SUFFICES ASSUME NEW n \in Node
               PROVE  /\ node_open'[n] = Cardinality(Holders(n)') + Cardinality(Opening(n)')
                      /\ node_ref'[n] = node_open'[n] + Cardinality(Closing(n)')
    BY DEF NodeCountsExact
  <2>1. /\ node_open[n] = Cardinality(Holders(n)) + Cardinality(Opening(n))
        /\ node_ref[n] = node_open[n] + Cardinality(Closing(n))
    BY DEF NodeCountsExact
  <2>2. Cardinality(Holders(n)') = Cardinality(Holders(n))
           + B(IsHeld(st, cnt) /\ nd = n)
           - B(/\ IsHeld(status[fs_struct[p]][d], open_count[fs_struct[p]][d])
               /\ node[fs_struct[p]][d] = n)
    BY EntryChanges, SMTT(30) DEF B
  <2>3. Cardinality(Opening(n)') = Cardinality(Opening(n))
           + B(r.at = "opened" /\ r.node = n)
           - B(pc[p].at = "opened" /\ pc[p].node = n)
    BY <1>1, OpeningMoves
  <2>4. Cardinality(Closing(n)') = Cardinality(Closing(n))
           + B(r.at \in ClosingNode /\ r.node = n)
           - B(pc[p].at \in ClosingNode /\ pc[p].node = n)
    BY <1>1, ClosingMoves
  <2>5. /\ Cardinality(Holders(n)) \in Nat /\ Cardinality(Opening(n)) \in Nat
        /\ Cardinality(Closing(n)) \in Nat
    BY Finite
  <2> QED BY <2>1, <2>2, <2>3, <2>4, <2>5, SMTT(30) DEF Follows, B
<1>4. TableTypes'
  <2>1. \A n \in Node : node_open'[n] \in Nat /\ node_ref'[n] \in 0..MaxRef
    <3> SUFFICES ASSUME NEW n \in Node
                 PROVE  node_open'[n] \in Nat /\ node_ref'[n] \in 0..MaxRef
      OBVIOUS
    <3>1. /\ Cardinality(Holders(n)') \in Nat /\ Cardinality(Opening(n)') \in Nat
          /\ Cardinality(Closing(n)') \in Nat
      BY FiniteLater
    <3>2. node_ref'[n] <= MaxRef /\ MaxRef \in Nat
      BY DEF Follows, TableConstants
    <3> QED BY <1>3, <3>1, <3>2, SMTT(30) DEF NodeCountsExact
  <2>2. node_open' \in [Node -> Nat] /\ node_ref' \in [Node -> 0..MaxRef]
    BY <2>1, SMTT(30) DEF Follows
  <2> QED BY <1>1, <1>2, <2>2 DEF TableTypes, Moves
<1>5. CallsHold'
  <2> SUFFICES ASSUME NEW q \in Proc
               PROVE  /\ pc'[q].at # "user" => fs_struct[q] \in Fs
                      /\ pc'[q].at \in ClosingNode \cup {"opened"} => pc'[q].node \in Node
                      /\ pc'[q].at = "use" => node'[fs_struct[q]][pc'[q].fd] = pc'[q].node
                      /\ pc'[q].at \in Destroying =>
                           \A x \in Proc \ {q} : fs_struct[x] # fs_struct[q]
    BY <1>1 DEF CallsHold
  <2>1. CASE q = p
    <3>1. r.at = "use" => node'[f][r.fd] = r.node
      BY DEF Moves, Harmless
    <3>2. r.at \in Destroying => \A x \in Proc \ {p} : fs_struct[x] # f
      BY DEF CallsHold, Harmless
    <3> QED BY <1>1, <1>2, <2>1, <3>1, <3>2 DEF Harmless
  <2>2. CASE q # p
    <3>1. pc'[q] = pc[q]
      BY <1>2, <2>2
    <3>2. ASSUME pc[q].at = "use"
          PROVE  node'[fs_struct[q]][pc[q].fd] = pc[q].node
      <4>1. fs_struct[q] \in Fs /\ pc[q].fd \in Fd
            /\ node[fs_struct[q]][pc[q].fd] = pc[q].node
        BY <1>1, <3>2 DEF CallsHold, Place
      <4>2. CASE fs_struct[q] = f /\ pc[q].fd = d
        <5>1. q \in Inside(f, d)
          BY <3>2, <4>2 DEF Inside
        <5>2. Cardinality(Inside(f, d)) # 0
          BY <5>1, Finite, FS_EmptySet
        <5>3. open_count[f][d] # 0
          BY <1>1, <5>2, Finite, SMTT(30) DEF EntriesExact, B
        <5> QED BY <4>1, <4>2, <5>3 DEF Harmless, Moves
      <4>3. CASE fs_struct[q] # f \/ pc[q].fd # d
        BY <4>1, <4>3 DEF Moves
      <4> QED BY <4>2, <4>3
    <3> QED BY <3>1, <3>2 DEF CallsHold
  <2> QED BY <2>1, <2>2
<1>6. EntriesExact'
  <2> SUFFICES ASSUME NEW g \in Fs, NEW e \in Fd
               PROVE  /\ open_count'[g][e] = Cardinality(Inside(g, e)') + B(status'[g][e] = "FD_OPENED")
                      /\ status'[g][e] \in {"FD_NONE", "FD_INIT"} => open_count'[g][e] = 0
                      /\ status'[g][e] \in {"FD_OPENED", "FD_CLOSED"} => node'[g][e] \in Node
                      /\ IsBusy(status'[g][e], open_count'[g][e]) <=> Owners(g, e)' # {}
                      /\ \A x, y \in Owners(g, e)' : x = y
    BY DEF EntriesExact, IsBusy
  <2>1. /\ Cardinality(Inside(g, e)') = Cardinality(Inside(g, e))
             + B(p \in Inside(g, e)') - B(p \in Inside(g, e))
        /\ p \in Inside(g, e)' <=> f = g /\ r.at = "use" /\ r.fd = e
        /\ p \in Inside(g, e) <=> f = g /\ pc[p].at = "use" /\ pc[p].fd = e
    <3>1. Cardinality(Inside(g, e)') = Cardinality(Inside(g, e))
            + B(p \in Inside(g, e)') - B(p \in Inside(g, e))
      BY <1>1, InsideMoves
    <3> QED BY <1>1, <1>2, <3>1 DEF Inside
  <2>2. /\ open_count[g][e] = Cardinality(Inside(g, e)) + B(status[g][e] = "FD_OPENED")
        /\ status[g][e] \in {"FD_NONE", "FD_INIT"} => open_count[g][e] = 0
        /\ status[g][e] \in {"FD_OPENED", "FD_CLOSED"} => node[g][e] \in Node
        /\ IsBusy(status[g][e], open_count[g][e]) <=> Owners(g, e) # {}
        /\ \A x, y \in Owners(g, e) : x = y
    BY DEF EntriesExact
  <2>3. Cardinality(Inside(g, e)) \in Nat /\ open_count[g][e] \in Nat
    BY Finite DEF TableTypes
  <2>4. \A q \in Proc \ {p} : q \in Owners(g, e)' <=> q \in Owners(g, e)
    BY <1>1, <1>2 DEF Owners
  <2>5. /\ p \in Owners(g, e)' <=> f = g /\ r.fd = e /\ SettingUp(r.at)
        /\ p \in Owners(g, e) <=> f = g /\ pc[p].fd = e /\ SettingUp(pc[p].at)
        /\ Owners(g, e) \subseteq Proc /\ Owners(g, e)' \subseteq Proc
    BY <1>1, <1>2 DEF Owners
  <2>6. CASE g = f /\ e = d
    <3>1. open_count'[g][e] = Cardinality(Inside(g, e)') + B(status'[g][e] = "FD_OPENED")
      <4>1. /\ p \in Inside(g, e)' <=> r.at = "use"
            /\ p \in Inside(g, e) <=> pc[p].at = "use"
        BY <2>1, <2>6 DEF Harmless
      <4>2. /\ open_count'[g][e] = open_count[g][e] + B(r.at = "use") - B(pc[p].at = "use")
                 + B(status'[g][e] = "FD_OPENED") - B(status[g][e] = "FD_OPENED")
        BY <2>6 DEF Harmless, Moves
      <4> QED BY <2>1, <2>2, <2>3, <4>1, <4>2, SMTT(30) DEF B
    <3>2. /\ status'[g][e] \in {"FD_NONE", "FD_INIT"} => open_count'[g][e] = 0
          /\ status'[g][e] \in {"FD_OPENED", "FD_CLOSED"} => node'[g][e] \in Node
      BY <2>6 DEF Harmless, Moves
    <3>3. Owners(g, e) \subseteq {p}
      <4>1. CASE SettingUp(pc[p].at)
        <5>1. p \in Owners(g, e)
          BY <2>5, <2>6, <4>1 DEF Harmless, SettingUp
        <5> QED BY <2>2, <5>1
      <4>2. CASE ~IsBusy(status[g][e], open_count[g][e])
        BY <2>2, <4>2
      <4> QED BY <2>6, <4>1, <4>2 DEF Harmless
    <3>4. p \in Owners(g, e)' <=> SettingUp(r.at)
      BY <2>5, <2>6 DEF Harmless, SettingUp
    <3>5. IsBusy(status'[g][e], open_count'[g][e]) <=> SettingUp(r.at)
      BY <2>6 DEF Harmless, Moves
    <3>6. Owners(g, e)' = IF SettingUp(r.at) THEN {p} ELSE {}
      BY <2>4, <2>5, <3>3, <3>4, SMTT(30)
    <3>7. /\ IsBusy(status'[g][e], open_count'[g][e]) <=> Owners(g, e)' # {}
          /\ \A x, y \in Owners(g, e)' : x = y
      BY <3>5, <3>6
    <3> QED BY <3>1, <3>2, <3>7
  <2>7. CASE g # f \/ e # d
    <3>1. status'[g][e] = status[g][e] /\ open_count'[g][e] = open_count[g][e]
          /\ node'[g][e] = node[g][e]
      BY <2>7 DEF Moves
    <3>2. Cardinality(Inside(g, e)') = Cardinality(Inside(g, e))
      <4>1. p \notin Inside(g, e)' /\ p \notin Inside(g, e)
        BY <2>1, <2>7 DEF Harmless
      <4> QED BY <2>1, <2>3, <4>1, SMTT(30) DEF B
    <3>3. p \notin Owners(g, e) /\ p \notin Owners(g, e)'
      BY <2>5, <2>7 DEF Harmless, SettingUp
    <3>4. Owners(g, e)' = Owners(g, e)
      BY <2>4, <2>5, <3>3, SMTT(30)
    <3> QED BY <2>2, <3>1, <3>2, <3>4
  <2> QED BY <2>6, <2>7
<1>7. TablesUsed'
  <2> SUFFICES ASSUME NEW g \in Fs
               PROVE  /\ fs_count[g] = Cardinality(Users(g)')
                      /\ Opened(g)' # {} => \E q \in Proc : fs_struct[q] = g
    BY <1>1 DEF TablesUsed
  <2>1. Users(g)' = Users(g)
    BY <1>1, <1>2 DEF Users, Harmless
  <2>2. g # f => Opened(g)' = Opened(g)
    BY DEF Opened, Moves
  <2> QED BY <2>1, <2>2 DEF TablesUsed
<1> QED BY <1>3, <1>4, <1>5, <1>6, <1>7

-----------------------------------------------------------------------------
(* The other steps move nobody who is in a call, and open free entries.    *)

\* Nobody who is in a call moves.
Quiet ==
  \A q \in Proc : \/ pc'[q] = pc[q] /\ fs_struct'[q] = fs_struct[q]
                  \/ {pc[q].at, pc'[q].at} \subseteq {"user", "destroy"}

\* The entries in E, which are free, are opened; no other one changes.
Opens(E) ==
  /\ E \subseteq Fs \X Fd
  /\ \A g \in Fs, e \in Fd :
       IF <<g, e>> \in E
       THEN /\ status[g][e] = "FD_NONE" /\ status'[g][e] = "FD_OPENED"
            /\ open_count'[g][e] = 1 /\ node'[g][e] \in Node
       ELSE /\ status'[g][e] = status[g][e] /\ open_count'[g][e] = open_count[g][e]
            /\ node'[g][e] = node[g][e] \/ status[g][e] = "FD_NONE"

\* The entries in E that are opened for n.
For(E, n) == {x \in E : node'[x[1]][x[2]] = n}

\* Such a step leaves the calls in progress where they are.
LEMMA QuietStep ==
  ASSUME Quiet
  PROVE  /\ \A f, d : Inside(f, d)' = Inside(f, d) /\ Owners(f, d)' = Owners(f, d)
         /\ \A n : Opening(n)' = Opening(n) /\ Closing(n)' = Closing(n)
<1>1. \A f, d : Inside(f, d)' = Inside(f, d)
  BY DEF Quiet, Inside
<1>2. \A f, d : Owners(f, d)' = Owners(f, d)
  BY DEF Quiet, Owners, SettingUp
<1>3. \A n : Opening(n)' = Opening(n) /\ Closing(n)' = Closing(n)
  BY DEF Quiet, Opening, Closing
<1> QED BY <1>1, <1>2, <1>3

\* Such a step keeps the counts of the entries ...
LEMMA OpensEntries ==
  ASSUME TableConstants, TableTypes, EntriesExact, Quiet, NEW E, Opens(E)
  PROVE  EntriesExact'
<1> SUFFICES ASSUME NEW g \in Fs, NEW e \in Fd
             PROVE  /\ open_count'[g][e] = Cardinality(Inside(g, e)') + B(status'[g][e] = "FD_OPENED")
                    /\ status'[g][e] \in {"FD_NONE", "FD_INIT"} => open_count'[g][e] = 0
                    /\ status'[g][e] \in {"FD_OPENED", "FD_CLOSED"} => node'[g][e] \in Node
                    /\ IsBusy(status'[g][e], open_count'[g][e]) <=> Owners(g, e)' # {}
                    /\ \A x, y \in Owners(g, e)' : x = y
  BY DEF EntriesExact, IsBusy
<1>1. /\ open_count[g][e] = Cardinality(Inside(g, e)) + B(status[g][e] = "FD_OPENED")
      /\ status[g][e] \in {"FD_NONE", "FD_INIT"} => open_count[g][e] = 0
      /\ status[g][e] \in {"FD_OPENED", "FD_CLOSED"} => node[g][e] \in Node
      /\ IsBusy(status[g][e], open_count[g][e]) <=> Owners(g, e) # {}
      /\ \A x, y \in Owners(g, e) : x = y
  BY DEF EntriesExact
<1>2. /\ Inside(g, e)' = Inside(g, e) /\ Owners(g, e)' = Owners(g, e)
      /\ Cardinality(Inside(g, e)) \in Nat
  BY QuietStep, Finite
<1>3. CASE <<g, e>> \in E
  <2>1. /\ status[g][e] = "FD_NONE" /\ status'[g][e] = "FD_OPENED"
        /\ open_count'[g][e] = 1 /\ node'[g][e] \in Node
    BY <1>3 DEF Opens
  <2>2. Cardinality(Inside(g, e)) = 0 /\ open_count[g][e] = 0
    BY <1>1, <1>2, <2>1, SMTT(30) DEF B
  <2>3. Owners(g, e) = {}
    BY <1>1, <2>1 DEF IsBusy
  <2> QED BY <1>2, <2>1, <2>2, <2>3, SMTT(30) DEF B, IsBusy
<1>4. CASE <<g, e>> \notin E
  <2>1. /\ status'[g][e] = status[g][e] /\ open_count'[g][e] = open_count[g][e]
        /\ node'[g][e] = node[g][e] \/ status[g][e] = "FD_NONE"
    BY <1>4 DEF Opens
  <2> QED BY <1>1, <1>2, <2>1
<1> QED BY <1>3, <1>4

\* ... and those of the inodes, if they grow by the entries opened.
LEMMA OpensNodes ==
  ASSUME TableConstants, TableTypes, EntriesExact, NodeCountsExact, Quiet, NEW E, Opens(E),
         node_open' \in [Node -> Int], node_ref' \in [Node -> Int],
         \A n \in Node : /\ node_open'[n] = node_open[n] + Cardinality(For(E, n))
                         /\ node_ref'[n] = node_ref[n] + Cardinality(For(E, n))
                         /\ node_ref'[n] <= MaxRef
  PROVE  /\ NodeCountsExact'
         /\ node_ref' \in [Node -> 0..MaxRef] /\ node_open' \in [Node -> Nat]
<1>1. ASSUME NEW n \in Node
      PROVE  /\ node_open'[n] = Cardinality(Holders(n)') + Cardinality(Opening(n)')
             /\ node_ref'[n] = node_open'[n] + Cardinality(Closing(n)')
  <2>1. Holders(n)' = Holders(n) \cup For(E, n)
    <3>1. ASSUME NEW g \in Fs, NEW e \in Fd
          PROVE  <<g, e>> \in Holders(n)' <=> <<g, e>> \in Holders(n) \/ <<g, e>> \in For(E, n)
      <4>1. /\ <<g, e>> \in Holders(n)' <=> /\ node'[g][e] = n
                                             /\ IsHeld(status'[g][e], open_count'[g][e])
            /\ <<g, e>> \in Holders(n) <=> /\ node[g][e] = n
                                            /\ IsHeld(status[g][e], open_count[g][e])
            /\ <<g, e>> \in For(E, n) <=> <<g, e>> \in E /\ node'[g][e] = n
        BY DEF Holders, For, IsHeld
      <4>2. CASE <<g, e>> \in E
        BY <4>1, <4>2 DEF Opens, IsHeld
      <4>3. CASE <<g, e>> \notin E
        BY <4>1, <4>3 DEF Opens, IsHeld
      <4> QED BY <4>2, <4>3
    <3>2. /\ Holders(n)' \subseteq Fs \X Fd /\ Holders(n) \subseteq Fs \X Fd
          /\ For(E, n) \subseteq Fs \X Fd
      BY DEF Holders, For, Opens
    <3> QED BY <3>1, <3>2, SMTT(30)
  <2>2. Holders(n) \cap For(E, n) = {}
    BY SMTT(30) DEF Holders, For, Opens
  <2>3. /\ IsFiniteSet(For(E, n)) /\ Cardinality(For(E, n)) \in Nat
        /\ IsFiniteSet(Holders(n)) /\ Cardinality(Holders(n)) \in Nat
    <3>1. For(E, n) \in SUBSET (Fs \X Fd)
      BY DEF For, Opens
    <3> QED BY <3>1, Finite, FiniteSubsets
  <2>4. Cardinality(Holders(n)') = Cardinality(Holders(n)) + Cardinality(For(E, n))
    <3>1. Cardinality(Holders(n) \cup For(E, n)) = Cardinality(Holders(n))
            + Cardinality(For(E, n)) - Cardinality(Holders(n) \cap For(E, n))
      BY <2>3, FS_Union
    <3>2. Cardinality(Holders(n) \cap For(E, n)) = 0
      BY <2>2, FS_EmptySet
    <3> QED BY <2>1, <2>3, <3>1, <3>2, SMTT(30)
  <2>5. Opening(n)' = Opening(n) /\ Closing(n)' = Closing(n)
    BY QuietStep
  <2>6. Cardinality(Opening(n)) \in Nat /\ Cardinality(Closing(n)) \in Nat
    BY Finite
  <2>7. /\ node_open[n] = Cardinality(Holders(n)) + Cardinality(Opening(n))
        /\ node_ref[n] = node_open[n] + Cardinality(Closing(n))
    BY DEF NodeCountsExact
  <2> QED BY <2>3, <2>4, <2>5, <2>6, <2>7, SMTT(30)
<1>2. NodeCountsExact'
  BY <1>1 DEF NodeCountsExact
<1>3. ASSUME NEW n \in Node
      PROVE  node_open'[n] \in Nat /\ node_ref'[n] \in 0..MaxRef
  <2>1. /\ Cardinality(Holders(n)') \in Nat /\ Cardinality(Opening(n)') \in Nat
        /\ Cardinality(Closing(n)') \in Nat
    BY FiniteLater
  <2> QED BY <1>1, <2>1, SMTT(30) DEF TableConstants
<1> QED BY <1>2, <1>3

\* A step that opens nothing keeps both.
LEMMA OpensNothing ==
  ASSUME TableConstants, TableTypes, EntriesExact, NodeCountsExact, Quiet,
         UNCHANGED <<status, open_count, node, node_ref, node_open>>
  PROVE  EntriesExact' /\ NodeCountsExact'
<1>1. Opens({})
  BY DEF Opens
<1>2. EntriesExact'
  BY <1>1, OpensEntries
<1>3. \A n \in Node : Holders(n)' = Holders(n)
  BY DEF Holders
<1>4. NodeCountsExact'
  BY <1>3, QuietStep DEF NodeCountsExact
<1> QED BY <1>2, <1>4

-----------------------------------------------------------------------------
(* The steps.                                                              *)

\* SetEntry changes one entry.
LEMMA SetsEntry ==
  ASSUME TableTypes, NEW p \in Proc, fs_struct[p] \in Fs, NEW d \in Fd, NEW r,
         NEW st \in Statuses, NEW cnt \in Nat, NEW nd \in Node \cup {None},
         SetEntry(fs_struct[p], d, st, cnt, nd), pc' = [pc EXCEPT ![p] = r],
         UNCHANGED <<fs_struct, fs_count>>
  PROVE  Moves(p, d, r, st, cnt, nd)
BY DEF TableTypes, SetEntry, Moves

\* What the invariant says of one entry.
LEMMA EntryFacts ==
  ASSUME TableConstants, TableTypes, EntriesExact, NEW f \in Fs, NEW d \in Fd
  PROVE  /\ status[f][d] \in Statuses /\ open_count[f][d] \in Nat
         /\ node[f][d] \in Node \cup {None}
         /\ status[f][d] = "FD_OPENED" => open_count[f][d] > 0
         /\ status[f][d] \in {"FD_NONE", "FD_INIT"} => open_count[f][d] = 0
         /\ status[f][d] \in {"FD_OPENED", "FD_CLOSED"} => node[f][d] \in Node
         /\ IsBusy(status[f][d], open_count[f][d]) <=> Owners(f, d) # {}
         /\ open_count[f][d] = Cardinality(Inside(f, d)) + B(status[f][d] = "FD_OPENED")
<1>1. Cardinality(Inside(f, d)) \in Nat
  BY Finite
<1> QED BY <1>1, SMTT(30) DEF EntriesExact, TableTypes, B

\* An entry that is set up or torn down is nobody's inode, and empty.
LEMMA CallFacts ==
  ASSUME TableConstants, TableTypes, CallsHold, EntriesExact, NEW p \in Proc, pc[p].at # "user"
  PROVE  /\ fs_struct[p] \in Fs /\ pc[p].fd \in Fd /\ pc[p] \in Place
         /\ SettingUp(pc[p].at) =>
              /\ IsBusy(status[fs_struct[p]][pc[p].fd], open_count[fs_struct[p]][pc[p].fd])
              /\ ~IsHeld(status[fs_struct[p]][pc[p].fd], open_count[fs_struct[p]][pc[p].fd])
              /\ status[fs_struct[p]][pc[p].fd] # "FD_OPENED"
              /\ open_count[fs_struct[p]][pc[p].fd] = 0
<1>1. fs_struct[p] \in Fs /\ pc[p].fd \in Fd /\ pc[p] \in Place
  BY DEF CallsHold, TableTypes, Place
<1>2. ASSUME SettingUp(pc[p].at)
      PROVE  IsBusy(status[fs_struct[p]][pc[p].fd], open_count[fs_struct[p]][pc[p].fd])
  <2>1. p \in Owners(fs_struct[p], pc[p].fd)
    BY <1>2 DEF Owners
  <2> QED BY <1>1, <2>1, EntryFacts
<1>3. SettingUp(pc[p].at) =>
        open_count[fs_struct[p]][pc[p].fd] = 0 /\ status[fs_struct[p]][pc[p].fd] # "FD_OPENED"
  BY <1>1, <1>2, EntryFacts DEF IsBusy
<1> QED BY <1>1, <1>2, <1>3, SMTT(30) DEF IsHeld

\* The end of a use and of a close, with the entry before it.
LEMMA DropStep ==
  ASSUME TableConstants, TableInv, NEW p \in Proc, fs_struct[p] \in Fs, NEW d \in Fd,
         NEW st \in {"FD_OPENED", "FD_CLOSED"}, NEW where \in {"close", "destroy_close"},
         where = "destroy_close" <=> pc[p].at \in Destroying,
         pc[p].at \in {"user", "use", "destroy"}, pc[p].at = "use" => pc[p].fd = d,
         status[fs_struct[p]][d] \in {"FD_OPENED", "FD_CLOSED"},
         open_count[fs_struct[p]][d] > 0,
         B(pc[p].at = "use") + B(status[fs_struct[p]][d] = "FD_OPENED") = 1 + B(st = "FD_OPENED"),
         st = "FD_OPENED" => open_count[fs_struct[p]][d] > 1,
         Drop(p, fs_struct[p], d, st, open_count[fs_struct[p]][d] - 1, where)
  PROVE  TableInv'
<1> DEFINE f == fs_struct[p]
           cnt == open_count[f][d] - 1
           back == IF where = "destroy_close" THEN "destroy" ELSE "user"
           r == IF cnt = 0 THEN [at |-> where, fd |-> d, node |-> node[f][d]]
                ELSE [at |-> back, fd |-> 0, node |-> None]
<1> USE DEF TableInv
<1>1. /\ status[f][d] \in Statuses /\ open_count[f][d] \in Nat /\ cnt \in Nat
      /\ node[f][d] \in Node /\ st \in Statuses
  BY EntryFacts, SMTT(30) DEF Statuses
<1>2. /\ r \in Place /\ 0 \in Fd
      /\ r.at = (IF cnt = 0 THEN where ELSE back)
      /\ r.node = (IF cnt = 0 THEN node[f][d] ELSE None)
      /\ cnt = 0 => r.fd = d
  <2>1. 0 \in Fd
    BY SMTT(30) DEF TableConstants, Fd
  <2> QED BY <1>1, <2>1 DEF Place, Places, Destroying
<1>3. /\ SetEntry(f, d, st, cnt, node[f][d]) /\ pc' = [pc EXCEPT ![p] = r]
      /\ UNCHANGED <<fs_struct, fs_count, node_ref>>
      /\ node_open' = IF cnt = 0 THEN [node_open EXCEPT ![node[f][d]] = @ - 1] ELSE node_open
  BY DEF Drop, NobodyInside, At
<1> HIDE DEF r
<1>4. Moves(p, d, r, st, cnt, node[f][d])
  BY <1>1, <1>3, SetsEntry
<1>5. Harmless(p, d, r, st, cnt, node[f][d])
  <2>1. cnt = open_count[f][d] + B(r.at = "use") - B(pc[p].at = "use")
               + B(st = "FD_OPENED") - B(status[f][d] = "FD_OPENED")
    BY <1>1, <1>2, SMTT(30) DEF B
  <2>2. IsBusy(st, cnt) <=> SettingUp(r.at)
    BY <1>1, <1>2, SMTT(30) DEF IsBusy, SettingUp
  <2>3. ~IsBusy(status[f][d], open_count[f][d])
    BY SMTT(30) DEF IsBusy
  <2>4. r.at \in Destroying <=> pc[p].at \in Destroying
    BY <1>2 DEF Destroying
  <2> QED BY <1>1, <1>2, <2>1, <2>2, <2>3, <2>4 DEF Harmless, ClosingNode
<1>6. Follows(p, d, r, st, cnt, node[f][d])
  <2>1. node_open' \in [Node -> Int] /\ node_ref' \in [Node -> Int]
    BY <1>1, <1>3, SMTT(30) DEF TableTypes, TableConstants
  <2>2. ASSUME NEW n \in Node
        PROVE  /\ node_open'[n] = node_open[n]
                    + B(IsHeld(st, cnt) /\ node[f][d] = n)
                    - B(IsHeld(status[f][d], open_count[f][d]) /\ node[f][d] = n)
                    + B(r.at = "opened" /\ r.node = n)
                    - B(pc[p].at = "opened" /\ pc[p].node = n)
               /\ node_ref'[n] = node_ref[n] + node_open'[n] - node_open[n]
                    + B(r.at \in ClosingNode /\ r.node = n)
                    - B(pc[p].at \in ClosingNode /\ pc[p].node = n)
               /\ node_ref'[n] <= MaxRef
    <3>1. /\ IsHeld(st, cnt) <=> cnt # 0
          /\ IsHeld(status[f][d], open_count[f][d])
          /\ r.at # "opened" /\ pc[p].at # "opened" /\ pc[p].at \notin ClosingNode
          /\ r.at \in ClosingNode <=> cnt = 0
      BY <1>1, <1>2, SMTT(30) DEF IsHeld, ClosingNode
    <3>2. node_open[n] \in Nat /\ node_ref[n] \in 0..MaxRef /\ MaxRef \in Nat
      BY DEF TableTypes, TableConstants
    <3>3. node_open'[n] = (IF cnt = 0 /\ node[f][d] = n THEN node_open[n] - 1 ELSE node_open[n])
          /\ node_ref'[n] = node_ref[n]
      BY <1>1, <1>3 DEF TableTypes
    <3>4. CASE cnt = 0 /\ node[f][d] = n
      <4>1. node_open'[n] = node_open[n] - 1 /\ r.node = n
        BY <1>2, <3>3, <3>4
      <4> QED BY <3>1, <3>2, <3>3, <3>4, <4>1, SMTT(30) DEF B
    <3>5. CASE ~(cnt = 0 /\ node[f][d] = n)
      <4>1. node_open'[n] = node_open[n] /\ ~(r.at \in ClosingNode /\ r.node = n)
        BY <1>2, <3>1, <3>3, <3>5
      <4> QED BY <3>1, <3>2, <3>3, <3>5, <4>1, SMTT(30) DEF B
    <3> QED BY <3>4, <3>5
  <2> QED BY <2>1, <2>2 DEF Follows
<1> QED BY <1>1, <1>2, <1>4, <1>5, <1>6, OneEntry

\* A step that tears nothing down and closes nothing, in which the entry holds
\* no inode: opening, and the ends of a failed open and of a close.
LEMMA SetUpStep ==
  ASSUME TableConstants, TableInv, NEW p \in Proc, fs_struct[p] \in Fs, NEW d \in Fd,
         NEW r \in Place, NEW st \in {"FD_NONE", "FD_INIT"}, NEW nd \in Node \cup {None},
         (SettingUp(pc[p].at) /\ pc[p].fd = d) \/ (pc[p].at = "user" /\ status[fs_struct[p]][d] = "FD_NONE"),
         (SettingUp(r.at) /\ st = "FD_INIT" /\ r.fd = d) \/ (r.at \in {"user", "destroy"} /\ st = "FD_NONE"),
         r.at \in Destroying <=> pc[p].at \in Destroying,
         {pc[p].at, r.at} \cap (ClosingNode \cup {"opened"}) = {},
         SetEntry(fs_struct[p], d, st, open_count[fs_struct[p]][d], nd),
         pc' = [pc EXCEPT ![p] = r], UNCHANGED <<fs_struct, fs_count, node_ref, node_open>>
  PROVE  TableInv'
<1> DEFINE f == fs_struct[p]
<1> USE DEF TableInv
<1>1. /\ open_count[f][d] = 0 /\ ~IsHeld(status[f][d], open_count[f][d])
      /\ status[f][d] # "FD_OPENED" /\ pc[p].at # "use"
      /\ SettingUp(pc[p].at) \/ ~IsBusy(status[f][d], open_count[f][d])
  <2>1. CASE SettingUp(pc[p].at) /\ pc[p].fd = d
    BY <2>1, CallFacts DEF SettingUp
  <2>2. CASE pc[p].at = "user" /\ status[f][d] = "FD_NONE"
    BY <2>2, EntryFacts DEF IsHeld, IsBusy
  <2> QED BY <2>1, <2>2
<1>2. st \in Statuses /\ 0 \in Nat
  BY DEF Statuses
<1>3. Moves(p, d, r, st, 0, nd)
  BY <1>1, <1>2, SetsEntry
<1>4. Harmless(p, d, r, st, 0, nd)
  <2>1. /\ IsBusy(st, 0) <=> SettingUp(r.at)
        /\ r.at # "use"
    BY DEF IsBusy, SettingUp
  <2>2. /\ pc[p].at \notin {"user", "destroy"} => pc[p].fd = d
        /\ r.at \notin {"user", "destroy"} => r.fd = d
    BY DEF SettingUp
  <2> QED BY <1>1, <2>1, <2>2, SMTT(30) DEF Harmless, B
<1>5. Follows(p, d, r, st, 0, nd)
  <2>1. node_open' \in [Node -> Int] /\ node_ref' \in [Node -> Int]
    BY SMTT(30) DEF TableTypes, TableConstants
  <2>2. ~IsHeld(st, 0)
    BY DEF IsHeld
  <2>3. \A n \in Node : node_open[n] \in Nat /\ node_ref[n] \in 0..MaxRef
    BY DEF TableTypes
  <2>4. MaxRef \in Nat
    BY DEF TableConstants
  <2> QED BY <1>1, <2>1, <2>2, <2>3, <2>4, SMTT(30) DEF Follows, B
<1> QED BY <1>2, <1>3, <1>4, <1>5, OneEntry

\* A step of a call that leaves its entry alone: the inode is opened, or closed
\* again, or its last reference is given up.
LEMMA NodeStep ==
  ASSUME TableConstants, TableInv, NEW p \in Proc, SettingUp(pc[p].at), NEW r \in Place,
         SettingUp(r.at), r.fd = pc[p].fd,
         r.at \in Destroying <=> pc[p].at \in Destroying,
         r.at \in ClosingNode \cup {"opened"} => r.node \in Node,
         pc' = [pc EXCEPT ![p] = r],
         UNCHANGED <<fs_struct, fs_count, status, open_count, node>>,
         node_open' \in [Node -> Int], node_ref' \in [Node -> Int],
         \A n \in Node :
           /\ node_open'[n] = node_open[n] + B(r.at = "opened" /\ r.node = n)
                - B(pc[p].at = "opened" /\ pc[p].node = n)
           /\ node_ref'[n] = node_ref[n] + node_open'[n] - node_open[n]
                + B(r.at \in ClosingNode /\ r.node = n)
                - B(pc[p].at \in ClosingNode /\ pc[p].node = n)
           /\ node_ref'[n] <= MaxRef
  PROVE  TableInv'
<1> USE DEF TableInv
<1>1. PICK f, d, st, cnt, nd : /\ f = fs_struct[p] /\ d = pc[p].fd /\ st = status[f][d]
                               /\ cnt = open_count[f][d] /\ nd = node[f][d]
  OBVIOUS
<1>2. /\ f \in Fs /\ d \in Fd /\ IsBusy(st, cnt) /\ ~IsHeld(st, cnt)
      /\ st # "FD_OPENED" /\ cnt = 0
  BY <1>1, CallFacts DEF SettingUp
<1>3. /\ st \in Statuses /\ nd \in Node \cup {None}
      /\ st \in {"FD_OPENED", "FD_CLOSED"} => nd \in Node
  BY <1>1, <1>2, EntryFacts
<1>4. Moves(p, d, r, st, cnt, nd)
  BY <1>1, <1>2 DEF Moves, TableTypes
<1>5. Harmless(p, d, r, st, cnt, nd)
  <2>1. r.at \notin {"user", "use", "destroy"} /\ pc[p].at \notin {"user", "use", "destroy"}
    BY DEF SettingUp
  <2>2. cnt = cnt + B(r.at = "use") - B(pc[p].at = "use") + B(st = "FD_OPENED") - B(st = "FD_OPENED")
    BY <1>2, <2>1, SMTT(30) DEF B
  <2> QED BY <1>1, <1>2, <1>3, <2>1, <2>2 DEF Harmless
<1>6. Follows(p, d, r, st, cnt, nd)
  <2>1. ASSUME NEW n \in Node
        PROVE  node_open'[n] = node_open[n]
                 + B(IsHeld(st, cnt) /\ nd = n)
                 - B(/\ IsHeld(status[fs_struct[p]][d], open_count[fs_struct[p]][d])
                     /\ node[fs_struct[p]][d] = n)
                 + B(r.at = "opened" /\ r.node = n)
                 - B(pc[p].at = "opened" /\ pc[p].node = n)
    <3>1. node_open[n] \in Nat
      BY DEF TableTypes
    <3>2. ~IsHeld(st, cnt) /\ ~IsHeld(status[fs_struct[p]][d], open_count[fs_struct[p]][d])
      BY <1>1, <1>2
    <3> QED BY <3>1, <3>2, SMTT(30) DEF B
  <2> QED BY <2>1 DEF Follows
<1> QED BY <1>2, <1>3, <1>4, <1>5, <1>6, OneEntry

\* The calls on one descriptor keep the invariant.
LEMMA CallSteps ==
  ASSUME TableConstants, TableInv, NEW p \in Proc
  PROVE  /\ \A n \in Node : vfs_open(p, n) => TableInv'
         /\ vfs_open_fails(p) => TableInv'
         /\ filemap_open(p) => TableInv'
         /\ open_fails(p) => TableInv'
         /\ filemap_release(p) => TableInv'
         /\ ref_dec(p) => TableInv'
         /\ filemap_free(p) => TableInv'
         /\ fs_destroy(p) => TableInv'
         /\ file_open(p) => TableInv'
         /\ \A d \in Fd : file_close(p, d) \/ filemap_acquire(p, d) => TableInv'
         /\ \A d1, d2 \in Fd : file_dup(p, d1, d2) => TableInv'
<1> USE DEF TableInv
<1>a. 0 \in Fd /\ MaxRef \in Nat /\ None \notin Node /\ None \notin Fs
  BY SMTT(30) DEF TableConstants, Fd
<1>b. Running(p) => fs_struct[p] \in Fs /\ pc[p].at = "user" /\ pc[p] \in Place
  BY DEF Running, TableTypes
<1>c. \A n \in Node : node_open[n] \in Nat /\ node_ref[n] \in 0..MaxRef
  BY DEF TableTypes
<1>1. ASSUME NEW n \in Node, vfs_open(p, n)
      PROVE  TableInv'
  <2> DEFINE r == [at |-> "opened", fd |-> pc[p].fd, node |-> n]
  <2>1. pc[p].at = "lookup" /\ pc[p].fd \in Fd
    BY <1>1, CallFacts DEF vfs_open
  <2>2. r \in Place
    BY <2>1 DEF Place, Places
  <2>3. /\ pc' = [pc EXCEPT ![p] = r] /\ UNCHANGED <<fs_struct, fs_count, status, open_count, node>>
        /\ node_open' \in [Node -> Int] /\ node_ref' \in [Node -> Int]
    BY <1>1, <1>a, SMTT(30) DEF vfs_open, At, TableTypes
  <2>4. ASSUME NEW m \in Node
        PROVE  /\ node_open'[m] = node_open[m] + B(r.at = "opened" /\ r.node = m)
                    - B(pc[p].at = "opened" /\ pc[p].node = m)
               /\ node_ref'[m] = node_ref[m] + node_open'[m] - node_open[m]
                    + B(r.at \in ClosingNode /\ r.node = m)
                    - B(pc[p].at \in ClosingNode /\ pc[p].node = m)
               /\ node_ref'[m] <= MaxRef
    <3>1. /\ node_open'[m] = IF m = n THEN node_open[m] + 1 ELSE node_open[m]
          /\ node_ref'[m] = IF m = n THEN node_ref[m] + 1 ELSE node_ref[m]
          /\ node_ref[n] < MaxRef
      BY <1>1 DEF vfs_open, TableTypes
    <3> QED BY <1>a, <1>c, <2>1, <3>1, SMTT(30) DEF B, ClosingNode
  <2>5. SettingUp(pc[p].at) /\ SettingUp(r.at) /\ (r.at \in Destroying <=> pc[p].at \in Destroying)
    BY <2>1 DEF SettingUp, Destroying
  <2>6. r.fd = pc[p].fd /\ r.node \in Node
    OBVIOUS
  <2> HIDE DEF r
  <2> QED BY <2>2, <2>3, <2>4, <2>5, <2>6, NodeStep
<1>2. ASSUME vfs_open_fails(p)
      PROVE  TableInv'
  <2>1. PICK d, r, st : /\ d = pc[p].fd /\ st = "FD_NONE"
                        /\ r = [at |-> "user", fd |-> 0, node |-> None]
    OBVIOUS
  <2>2. pc[p].at = "lookup" /\ fs_struct[p] \in Fs /\ d \in Fd
    BY <1>2, <2>1, CallFacts DEF vfs_open_fails
  <2>3. r \in Place /\ r.at = "user"
    BY <1>a, <2>1 DEF Place, Places
  <2>4. /\ SetEntry(fs_struct[p], d, st, open_count[fs_struct[p]][d], None)
        /\ pc' = [pc EXCEPT ![p] = r] /\ UNCHANGED <<fs_struct, fs_count, node_ref, node_open>>
    BY <1>2, <2>1 DEF vfs_open_fails, At
  <2>5. /\ SettingUp(pc[p].at) /\ pc[p].fd = d
        /\ r.at \in {"user", "destroy"} /\ st = "FD_NONE"
        /\ r.at \in Destroying <=> pc[p].at \in Destroying
        /\ {pc[p].at, r.at} \cap (ClosingNode \cup {"opened"}) = {}
    BY <2>1, <2>2, <2>3 DEF SettingUp, Destroying, ClosingNode
  <2>6. /\ (SettingUp(pc[p].at) /\ pc[p].fd = d) \/ (pc[p].at = "user" /\ status[fs_struct[p]][d] = "FD_NONE")
        /\ (SettingUp(r.at) /\ st = "FD_INIT" /\ r.fd = d) \/ (r.at \in {"user", "destroy"} /\ st = "FD_NONE")
        /\ st \in {"FD_NONE", "FD_INIT"} /\ None \in Node \cup {None}
    BY <2>5
  <2> QED BY <2>2, <2>3, <2>4, <2>5, <2>6, SetUpStep
<1>3. ASSUME filemap_open(p)
      PROVE  TableInv'
  <2>1. PICK f, d, st, cnt, nd, r :
                           /\ f = fs_struct[p] /\ d = pc[p].fd /\ nd = pc[p].node
                           /\ st = "FD_OPENED" /\ cnt = 1
                           /\ r = [at |-> "user", fd |-> 0, node |-> None]
    OBVIOUS
  <2>2. /\ pc[p].at = "opened" /\ f \in Fs /\ d \in Fd /\ nd \in Node
        /\ IsBusy(status[f][d], open_count[f][d]) /\ ~IsHeld(status[f][d], open_count[f][d])
        /\ status[f][d] # "FD_OPENED" /\ open_count[f][d] = 0
    BY <1>3, <2>1, CallFacts DEF filemap_open, CallsHold, SettingUp
  <2>3. r \in Place /\ r.at = "user" /\ cnt \in Nat /\ st \in Statuses
    BY <1>a, <2>1 DEF Place, Places, Statuses
  <2>4. /\ SetEntry(f, d, st, cnt, nd) /\ pc' = [pc EXCEPT ![p] = r]
        /\ UNCHANGED <<fs_struct, fs_count, node_ref, node_open>>
    BY <1>3, <2>1, <2>2, SMTT(30) DEF filemap_open, At
  <2>5. Moves(p, d, r, st, cnt, nd)
    BY <2>1, <2>2, <2>3, <2>4, SetsEntry
  <2>6. Harmless(p, d, r, st, cnt, nd)
    <3>1. r.at \notin Destroying /\ pc[p].at \notin Destroying
      BY <2>2, <2>3 DEF Destroying
    <3>2. SettingUp(pc[p].at) /\ ~SettingUp(r.at) /\ ~IsBusy(st, cnt)
      BY <2>1, <2>2, <2>3 DEF SettingUp, IsBusy
    <3>3. cnt = open_count[f][d] + B(r.at = "use") - B(pc[p].at = "use")
                  + B(st = "FD_OPENED") - B(status[f][d] = "FD_OPENED")
      BY <2>1, <2>2, <2>3, SMTT(30) DEF B
    <3> QED BY <2>1, <2>2, <2>3, <3>1, <3>2, <3>3 DEF Harmless, ClosingNode
  <2>7. Follows(p, d, r, st, cnt, nd)
    <3>1. node_open' \in [Node -> Int] /\ node_ref' \in [Node -> Int]
      BY <2>4, <1>a, SMTT(30) DEF TableTypes
    <3>2. ASSUME NEW n \in Node
          PROVE  /\ node_open'[n] = node_open[n]
                      + B(IsHeld(st, cnt) /\ nd = n)
                      - B(/\ IsHeld(status[fs_struct[p]][d], open_count[fs_struct[p]][d])
                          /\ node[fs_struct[p]][d] = n)
                      + B(r.at = "opened" /\ r.node = n)
                      - B(pc[p].at = "opened" /\ pc[p].node = n)
                 /\ node_ref'[n] = node_ref[n] + node_open'[n] - node_open[n]
                      + B(r.at \in ClosingNode /\ r.node = n)
                      - B(pc[p].at \in ClosingNode /\ pc[p].node = n)
                 /\ node_ref'[n] <= MaxRef
      <4>1. /\ IsHeld(st, cnt) /\ r.at # "opened" /\ r.at \notin ClosingNode
            /\ pc[p].at \notin ClosingNode /\ pc[p].at = "opened" /\ pc[p].node = nd
            /\ ~IsHeld(status[fs_struct[p]][d], open_count[fs_struct[p]][d])
        BY <2>1, <2>2, <2>3 DEF IsHeld, ClosingNode
      <4>2. node_open'[n] = node_open[n] /\ node_ref'[n] = node_ref[n]
        BY <2>4
      <4> QED BY <1>a, <1>c, <4>1, <4>2, SMTT(30) DEF B
    <3> QED BY <3>1, <3>2 DEF Follows
  <2> QED BY <2>2, <2>3, <2>5, <2>6, <2>7, OneEntry
<1>4. ASSUME open_fails(p)
      PROVE  TableInv'
  <2> DEFINE r == [at |-> "close", fd |-> pc[p].fd, node |-> pc[p].node]
  <2>1. pc[p].at = "opened" /\ pc[p].fd \in Fd /\ pc[p].node \in Node
    BY <1>4, CallFacts DEF open_fails, CallsHold
  <2>2. r \in Place
    BY <2>1 DEF Place, Places
  <2>3. /\ pc' = [pc EXCEPT ![p] = r] /\ UNCHANGED <<fs_struct, fs_count, status, open_count, node>>
        /\ node_open' \in [Node -> Int] /\ node_ref' \in [Node -> Int]
    BY <1>4, <1>a, <2>1, SMTT(30) DEF open_fails, At, TableTypes
  <2>4. ASSUME NEW m \in Node
        PROVE  /\ node_open'[m] = node_open[m] + B(r.at = "opened" /\ r.node = m)
                    - B(pc[p].at = "opened" /\ pc[p].node = m)
               /\ node_ref'[m] = node_ref[m] + node_open'[m] - node_open[m]
                    + B(r.at \in ClosingNode /\ r.node = m)
                    - B(pc[p].at \in ClosingNode /\ pc[p].node = m)
               /\ node_ref'[m] <= MaxRef
    <3>1. /\ node_open'[m] = IF m = pc[p].node THEN node_open[m] - 1 ELSE node_open[m]
          /\ node_ref'[m] = node_ref[m]
      BY <1>4 DEF open_fails, TableTypes
    <3> QED BY <1>a, <1>c, <2>1, <3>1, SMTT(30) DEF B, ClosingNode
  <2>5. SettingUp(pc[p].at) /\ SettingUp(r.at) /\ (r.at \in Destroying <=> pc[p].at \in Destroying)
    BY <2>1 DEF SettingUp, Destroying
  <2>6. r.fd = pc[p].fd /\ r.node \in Node
    BY <2>1
  <2> HIDE DEF r
  <2> QED BY <2>2, <2>3, <2>4, <2>5, <2>6, NodeStep
<1>5. ASSUME filemap_release(p)
      PROVE  TableInv'
  <2>1. PICK f, d, st, cnt : /\ f = fs_struct[p] /\ d = pc[p].fd /\ st = status[f][d]
                             /\ cnt = open_count[f][d]
    OBVIOUS
  <2>2. pc[p].at = "use" /\ f \in Fs /\ d \in Fd
    BY <1>5, <2>1, CallFacts DEF filemap_release
  <2>3. Cardinality(Inside(f, d)) \in Nat \ {0}
    <3>1. p \in Inside(f, d)
      BY <2>1, <2>2 DEF Inside
    <3> QED BY <3>1, Finite, FS_EmptySet
  <2>4. /\ cnt > 0 /\ st \in {"FD_OPENED", "FD_CLOSED"}
        /\ st = "FD_OPENED" => cnt > 1
    BY <2>1, <2>2, <2>3, EntryFacts, SMTT(30) DEF B, Statuses
  <2>5. Drop(p, f, d, st, cnt - 1, "close")
    BY <1>5, <2>1 DEF filemap_release
  <2>6. /\ "close" \in {"close", "destroy_close"}
        /\ "close" = "destroy_close" <=> pc[p].at \in Destroying
        /\ B(pc[p].at = "use") + B(st = "FD_OPENED") = 1 + B(st = "FD_OPENED")
    BY <2>2 DEF Destroying, B
  <2> QED BY <2>1, <2>2, <2>4, <2>5, <2>6, DropStep
<1>6. ASSUME ref_dec(p)
      PROVE  TableInv'
  <2>1. PICK w, r : /\ w = IF pc[p].at = "close" THEN "free" ELSE "destroy_free"
                    /\ r = [at |-> w, fd |-> pc[p].fd, node |-> None]
    OBVIOUS
  <2>2. pc[p].at \in ClosingNode /\ pc[p].fd \in Fd /\ pc[p].node \in Node
    BY <1>6, CallFacts DEF ref_dec, CallsHold, ClosingNode
  <2>3. r \in Place /\ r.at = w /\ r.fd = pc[p].fd
    BY <2>1, <2>2 DEF Place, Places, Destroying
  <2>4. /\ pc' = [pc EXCEPT ![p] = r] /\ UNCHANGED <<fs_struct, fs_count, status, open_count, node>>
        /\ node_open' \in [Node -> Int] /\ node_ref' \in [Node -> Int]
    BY <1>6, <1>a, <2>1, <2>2, SMTT(30) DEF ref_dec, At, TableTypes
  <2>5. /\ SettingUp(pc[p].at) /\ SettingUp(r.at) /\ (r.at \in Destroying <=> pc[p].at \in Destroying)
        /\ r.at \notin ClosingNode /\ r.at # "opened" /\ pc[p].at # "opened"
    BY <2>1, <2>2, <2>3 DEF SettingUp, Destroying, ClosingNode
  <2>6. ASSUME NEW m \in Node
        PROVE  /\ node_open'[m] = node_open[m] + B(r.at = "opened" /\ r.node = m)
                    - B(pc[p].at = "opened" /\ pc[p].node = m)
               /\ node_ref'[m] = node_ref[m] + node_open'[m] - node_open[m]
                    + B(r.at \in ClosingNode /\ r.node = m)
                    - B(pc[p].at \in ClosingNode /\ pc[p].node = m)
               /\ node_ref'[m] <= MaxRef
    <3>1. /\ node_ref'[m] = IF m = pc[p].node THEN node_ref[m] - 1 ELSE node_ref[m]
          /\ node_open'[m] = node_open[m]
      BY <1>6 DEF ref_dec, TableTypes
    <3> QED BY <1>a, <1>c, <2>2, <2>5, <3>1, SMTT(30) DEF B
  <2> QED BY <2>3, <2>4, <2>5, <2>6, NodeStep
<1>7. ASSUME filemap_free(p)
      PROVE  TableInv'
  <2>1. PICK d, r, st : /\ d = pc[p].fd /\ st = "FD_NONE"
                        /\ r = [at |-> IF pc[p].at = "free" THEN "user" ELSE "destroy",
                                fd |-> 0, node |-> None]
    OBVIOUS
  <2>2. pc[p].at \in {"free", "destroy_free"} /\ fs_struct[p] \in Fs /\ d \in Fd
    BY <1>7, <2>1, CallFacts DEF filemap_free
  <2>3. r \in Place /\ r.at = (IF pc[p].at = "free" THEN "user" ELSE "destroy")
    BY <1>a, <2>1 DEF Place, Places, Destroying
  <2>4. /\ SetEntry(fs_struct[p], d, st, open_count[fs_struct[p]][d], None)
        /\ pc' = [pc EXCEPT ![p] = r] /\ UNCHANGED <<fs_struct, fs_count, node_ref, node_open>>
    BY <1>7, <2>1 DEF filemap_free, At
  <2>5. /\ SettingUp(pc[p].at) /\ pc[p].fd = d
        /\ r.at \in {"user", "destroy"} /\ st = "FD_NONE"
        /\ r.at \in Destroying <=> pc[p].at \in Destroying
        /\ {pc[p].at, r.at} \cap (ClosingNode \cup {"opened"}) = {}
    BY <2>1, <2>2, <2>3 DEF SettingUp, Destroying, ClosingNode
  <2>6. /\ (SettingUp(pc[p].at) /\ pc[p].fd = d) \/ (pc[p].at = "user" /\ status[fs_struct[p]][d] = "FD_NONE")
        /\ (SettingUp(r.at) /\ st = "FD_INIT" /\ r.fd = d) \/ (r.at \in {"user", "destroy"} /\ st = "FD_NONE")
        /\ st \in {"FD_NONE", "FD_INIT"} /\ None \in Node \cup {None}
    BY <2>5
  <2> QED BY <2>2, <2>3, <2>4, <2>5, <2>6, SetUpStep
<1>8. ASSUME fs_destroy(p)
      PROVE  TableInv'
  <2>1. PICK f : f = fs_struct[p]
    OBVIOUS
  <2>2. PICK d \in Fd : /\ status[f][d] = "FD_OPENED"
                        /\ Drop(p, f, d, "FD_CLOSED", open_count[f][d] - 1, "destroy_close")
    BY <1>8, <2>1 DEF fs_destroy, IsFirst, Opened
  <2>3. PICK st, where : st = "FD_CLOSED" /\ where = "destroy_close"
    OBVIOUS
  <2>4. pc[p].at = "destroy" /\ f \in Fs
    BY <1>8, <2>1, CallFacts DEF fs_destroy
  <2>5. open_count[f][d] > 0
    BY <2>2, <2>4, EntryFacts
  <2>6. /\ st \in {"FD_OPENED", "FD_CLOSED"} /\ where \in {"close", "destroy_close"}
        /\ where = "destroy_close" <=> pc[p].at \in Destroying
        /\ B(pc[p].at = "use") + B(status[f][d] = "FD_OPENED") = 1 + B(st = "FD_OPENED")
        /\ st # "FD_OPENED"
    BY <2>2, <2>3, <2>4, SMTT(30) DEF Destroying, B
  <2>7. Drop(p, f, d, st, open_count[f][d] - 1, where)
    BY <2>2, <2>3
  <2> QED BY <2>1, <2>2, <2>4, <2>5, <2>6, <2>7, DropStep
<1>9. ASSUME file_open(p)
      PROVE  TableInv'
  <2>1. PICK d \in Fd : /\ status[fs_struct[p]][d] = "FD_NONE"
                        /\ SetEntry(fs_struct[p], d, "FD_INIT", open_count[fs_struct[p]][d], None)
                        /\ At(p, "lookup", d, None)
    BY <1>9 DEF file_open, IsFirst, Unused
  <2>2. PICK r, st : r = [at |-> "lookup", fd |-> d, node |-> None] /\ st = "FD_INIT"
    OBVIOUS
  <2>3. r \in Place /\ r.at = "lookup" /\ r.fd = d
    BY <2>2 DEF Place, Places
  <2>4. pc[p].at = "user" /\ fs_struct[p] \in Fs
    BY <1>9, <1>b DEF file_open
  <2>5. /\ SetEntry(fs_struct[p], d, st, open_count[fs_struct[p]][d], None)
        /\ pc' = [pc EXCEPT ![p] = r] /\ UNCHANGED <<fs_struct, fs_count, node_ref, node_open>>
    BY <1>9, <2>1, <2>2 DEF file_open, At
  <2>6. /\ SettingUp(r.at)
        /\ r.at \in Destroying <=> pc[p].at \in Destroying
        /\ {pc[p].at, r.at} \cap (ClosingNode \cup {"opened"}) = {}
    BY <2>3, <2>4 DEF SettingUp, Destroying, ClosingNode
  <2>7. /\ (SettingUp(pc[p].at) /\ pc[p].fd = d) \/ (pc[p].at = "user" /\ status[fs_struct[p]][d] = "FD_NONE")
        /\ (SettingUp(r.at) /\ st = "FD_INIT" /\ r.fd = d) \/ (r.at \in {"user", "destroy"} /\ st = "FD_NONE")
        /\ st \in {"FD_NONE", "FD_INIT"} /\ None \in Node \cup {None}
    BY <2>1, <2>2, <2>3, <2>4, <2>6
  <2> QED BY <2>3, <2>4, <2>5, <2>6, <2>7, SetUpStep
<1>10. ASSUME NEW d \in Fd, file_close(p, d)
       PROVE  TableInv'
  <2>1. PICK f, st, where : f = fs_struct[p] /\ st = "FD_CLOSED" /\ where = "close"
    OBVIOUS
  <2>2. /\ pc[p].at = "user" /\ f \in Fs /\ status[f][d] = "FD_OPENED"
        /\ Drop(p, f, d, st, open_count[f][d] - 1, where)
    BY <1>10, <1>b, <2>1 DEF file_close, fd2file
  <2>3. open_count[f][d] > 0
    BY <2>2, EntryFacts
  <2>4. /\ st \in {"FD_OPENED", "FD_CLOSED"} /\ where \in {"close", "destroy_close"}
        /\ where = "destroy_close" <=> pc[p].at \in Destroying
        /\ B(pc[p].at = "use") + B(status[f][d] = "FD_OPENED") = 1 + B(st = "FD_OPENED")
        /\ st # "FD_OPENED"
    BY <2>1, <2>2, SMTT(30) DEF Destroying, B
  <2> QED BY <2>1, <2>2, <2>3, <2>4, DropStep
<1>11. ASSUME NEW d \in Fd, filemap_acquire(p, d)
       PROVE  TableInv'
  <2>1. PICK f, st, cnt, nd, r : /\ f = fs_struct[p] /\ st = "FD_OPENED"
                                 /\ cnt = open_count[f][d] + 1 /\ nd = node[f][d]
                                 /\ r = [at |-> "use", fd |-> d, node |-> nd]
    OBVIOUS
  <2>2. pc[p].at = "user" /\ f \in Fs /\ status[f][d] = st
    BY <1>11, <1>b, <2>1 DEF filemap_acquire, fd2file
  <2>3. open_count[f][d] \in Nat /\ open_count[f][d] > 0 /\ cnt \in Nat /\ nd \in Node /\ st \in Statuses
    BY <2>1, <2>2, EntryFacts, SMTT(30)
  <2>4. r \in Place /\ r.at = "use" /\ r.fd = d /\ r.node = nd
    BY <2>1, <2>3 DEF Place, Places
  <2>5. Moves(p, d, r, st, cnt, nd)
    <3>1. pc' = [pc EXCEPT ![p] = r]
      BY <1>11, <2>1 DEF filemap_acquire, At
    <3> QED BY <1>11, <2>1, <2>2, <2>3, <3>1 DEF Moves, filemap_acquire, TableTypes
  <2>6. Harmless(p, d, r, st, cnt, nd)
    <3>1. /\ r.at \in Destroying <=> pc[p].at \in Destroying
          /\ r.at \notin ClosingNode \cup {"opened"}
      BY <2>2, <2>4 DEF Destroying, ClosingNode
    <3>2. ~IsBusy(status[f][d], open_count[f][d]) /\ ~IsBusy(st, cnt) /\ ~SettingUp(r.at)
      BY <2>1, <2>2, <2>3, <2>4 DEF IsBusy, SettingUp
    <3>3. cnt = open_count[f][d] + B(r.at = "use") - B(pc[p].at = "use")
                  + B(st = "FD_OPENED") - B(status[f][d] = "FD_OPENED")
      BY <2>1, <2>2, <2>3, <2>4, SMTT(30) DEF B
    <3> QED BY <2>1, <2>2, <2>3, <2>4, <3>1, <3>2, <3>3 DEF Harmless
  <2>7. Follows(p, d, r, st, cnt, nd)
    <3>1. node_open' = node_open /\ node_ref' = node_ref
      BY <1>11 DEF filemap_acquire
    <3>2. node_open' \in [Node -> Int] /\ node_ref' \in [Node -> Int]
      BY <3>1, <1>a, SMTT(30) DEF TableTypes
    <3>3. ASSUME NEW n \in Node
          PROVE  /\ node_open'[n] = node_open[n]
                      + B(IsHeld(st, cnt) /\ nd = n)
                      - B(/\ IsHeld(status[fs_struct[p]][d], open_count[fs_struct[p]][d])
                          /\ node[fs_struct[p]][d] = n)
                      + B(r.at = "opened" /\ r.node = n)
                      - B(pc[p].at = "opened" /\ pc[p].node = n)
                 /\ node_ref'[n] = node_ref[n] + node_open'[n] - node_open[n]
                      + B(r.at \in ClosingNode /\ r.node = n)
                      - B(pc[p].at \in ClosingNode /\ pc[p].node = n)
                 /\ node_ref'[n] <= MaxRef
      <4>1. /\ IsHeld(st, cnt) /\ IsHeld(status[fs_struct[p]][d], open_count[fs_struct[p]][d])
            /\ r.at # "opened" /\ r.at \notin ClosingNode /\ nd = node[fs_struct[p]][d]
            /\ pc[p].at \notin ClosingNode /\ pc[p].at # "opened"
        BY <2>1, <2>2, <2>4 DEF IsHeld, ClosingNode
      <4> QED BY <1>a, <1>c, <3>1, <4>1, SMTT(30) DEF B
    <3> QED BY <3>2, <3>3 DEF Follows
  <2> QED BY <2>3, <2>4, <2>5, <2>6, <2>7, OneEntry
<1>12. ASSUME NEW d1 \in Fd, NEW d \in Fd, file_dup(p, d1, d)
       PROVE  TableInv'
  <2>1. PICK f, st, cnt, nd, r : /\ f = fs_struct[p] /\ st = "FD_OPENED" /\ cnt = 1
                                 /\ nd = node[f][d1] /\ r = pc[p]
    OBVIOUS
  <2>2. /\ pc[p].at = "user" /\ f \in Fs /\ status[f][d1] = "FD_OPENED"
        /\ status[f][d] = "FD_NONE" /\ node_ref[nd] < MaxRef
    BY <1>12, <1>b, <2>1 DEF file_dup, fd2file, Unused
  <2>3. open_count[f][d] = 0 /\ nd \in Node /\ cnt \in Nat /\ st \in Statuses
    BY <2>1, <2>2, EntryFacts DEF Statuses
  <2>4. r \in Place /\ r.at = "user"
    BY <2>1, <2>2 DEF TableTypes
  <2>5. /\ SetEntry(f, d, st, cnt, nd) /\ UNCHANGED <<fs_struct, fs_count, pc>>
        /\ node_ref' = [node_ref EXCEPT ![nd] = @ + 1]
        /\ node_open' = [node_open EXCEPT ![nd] = @ + 1]
    BY <1>12, <2>1, <2>3, SMTT(30) DEF file_dup, DupRef
  <2>6. Moves(p, d, r, st, cnt, nd)
    <3>1. pc' = [pc EXCEPT ![p] = r]
      BY <2>1, <2>5 DEF TableTypes
    <3> QED BY <2>1, <2>2, <2>3, <2>5, <3>1, SetsEntry
  <2>7. Harmless(p, d, r, st, cnt, nd)
    <3>1. /\ r.at \in Destroying <=> pc[p].at \in Destroying
          /\ r.at \notin ClosingNode \cup {"opened"}
      BY <2>2, <2>4 DEF ClosingNode
    <3>2. ~IsBusy(status[f][d], open_count[f][d]) /\ ~IsBusy(st, cnt) /\ ~SettingUp(r.at)
      BY <2>1, <2>2, <2>3, <2>4 DEF IsBusy, SettingUp
    <3>3. cnt = open_count[f][d] + B(r.at = "use") - B(pc[p].at = "use")
                  + B(st = "FD_OPENED") - B(status[f][d] = "FD_OPENED")
      BY <2>1, <2>2, <2>3, <2>4, SMTT(30) DEF B
    <3> QED BY <2>1, <2>2, <2>3, <2>4, <3>1, <3>2, <3>3 DEF Harmless
  <2>8. Follows(p, d, r, st, cnt, nd)
    <3>1. node_open' \in [Node -> Int] /\ node_ref' \in [Node -> Int]
      BY <2>3, <2>5, <1>a, SMTT(30) DEF TableTypes
    <3>2. ASSUME NEW n \in Node
          PROVE  /\ node_open'[n] = node_open[n]
                      + B(IsHeld(st, cnt) /\ nd = n)
                      - B(/\ IsHeld(status[fs_struct[p]][d], open_count[fs_struct[p]][d])
                          /\ node[fs_struct[p]][d] = n)
                      + B(r.at = "opened" /\ r.node = n)
                      - B(pc[p].at = "opened" /\ pc[p].node = n)
                 /\ node_ref'[n] = node_ref[n] + node_open'[n] - node_open[n]
                      + B(r.at \in ClosingNode /\ r.node = n)
                      - B(pc[p].at \in ClosingNode /\ pc[p].node = n)
                 /\ node_ref'[n] <= MaxRef
      <4>1. /\ IsHeld(st, cnt) /\ ~IsHeld(status[fs_struct[p]][d], open_count[fs_struct[p]][d])
            /\ r.at # "opened" /\ r.at \notin ClosingNode
            /\ pc[p].at \notin ClosingNode /\ pc[p].at # "opened"
        BY <2>1, <2>2, <2>4 DEF IsHeld, ClosingNode
      <4>2. /\ node_open'[n] = IF nd = n THEN node_open[n] + 1 ELSE node_open[n]
            /\ node_ref'[n] = IF nd = n THEN node_ref[n] + 1 ELSE node_ref[n]
        BY <2>3, <2>5 DEF TableTypes
      <4> QED BY <1>a, <1>c, <2>2, <4>1, <4>2, SMTT(30) DEF B
    <3> QED BY <3>1, <3>2 DEF Follows
  <2> QED BY <2>3, <2>4, <2>6, <2>7, <2>8, OneEntry
<1> QED BY <1>1, <1>2, <1>3, <1>4, <1>5, <1>6, <1>7, <1>8, <1>9, <1>10, <1>11, <1>12

\* Sharing a table and giving it up keep the invariant.
LEMMA ShareSteps ==
  ASSUME TableConstants, TableInv, NEW p \in Proc
  PROVE  /\ \A q \in Proc : clone_fs(p, q) => TableInv'
         /\ put_fs(p) => TableInv'
         /\ fs_destroyed(p) => TableInv'
<1> USE DEF TableInv
<1>a. None \notin Fs /\ 0 \in Fd
  BY SMTT(30) DEF TableConstants, Fd
<1>1. ASSUME NEW q \in Proc, clone_fs(p, q)
      PROVE  TableInv'
  <2>1. PICK f : f = fs_struct[p]
    OBVIOUS
  <2>2. /\ f \in Fs /\ pc[p].at = "user" /\ fs_struct[q] = None /\ pc[q].at = "user" /\ p # q
    BY <1>1, <1>a, <2>1 DEF clone_fs, Running, CallsHold, TableTypes
  <2>3. /\ fs_struct' \in [Proc -> Fs \cup {None}] /\ fs_struct'[q] = f
        /\ \A x \in Proc \ {q} : fs_struct'[x] = fs_struct[x]
        /\ fs_count' \in [Fs -> Nat] /\ fs_count'[f] = fs_count[f] + 1
        /\ \A g \in Fs \ {f} : fs_count'[g] = fs_count[g]
        /\ UNCHANGED <<status, open_count, node, node_ref, node_open, pc>>
    BY <1>1, <2>1, <2>2, SMTT(30) DEF clone_fs, TableTypes
  <2>4. EntriesExact' /\ NodeCountsExact'
    <3>1. Quiet
      BY <2>2, <2>3 DEF Quiet
    <3> QED BY <2>3, <3>1, OpensNothing
  <2>5. TableTypes'
    BY <2>3 DEF TableTypes
  <2>6. CallsHold'
    <3> SUFFICES ASSUME NEW x \in Proc
                 PROVE  /\ pc[x].at # "user" => fs_struct'[x] \in Fs
                        /\ pc[x].at \in ClosingNode \cup {"opened"} => pc[x].node \in Node
                        /\ pc[x].at = "use" => node[fs_struct'[x]][pc[x].fd] = pc[x].node
                        /\ pc[x].at \in Destroying =>
                             \A y \in Proc \ {x} : fs_struct'[y] # fs_struct'[x]
      BY <2>3 DEF CallsHold
    <3>1. CASE x = q
      BY <2>2, <3>1 DEF ClosingNode, Destroying
    <3>2. CASE x # q
      <4>1. pc[x].at \in Destroying => x # p
        BY <2>2 DEF Destroying
      <4>2. pc[x].at \in Destroying => \A y \in Proc \ {x} : fs_struct'[y] # fs_struct'[x]
        BY <2>1, <2>3, <3>2, <4>1, SMTT(30) DEF CallsHold
      <4> QED BY <2>3, <3>2, <4>2 DEF CallsHold
    <3> QED BY <3>1, <3>2
  <2>7. TablesUsed'
    <3>1. Users(f)' = Users(f) \cup {q} /\ q \notin Users(f)
      BY <1>a, <2>2, <2>3 DEF Users, Destroying
    <3>2. \A g \in Fs \ {f} : Users(g)' = Users(g)
      BY <1>a, <2>2, <2>3 DEF Users
    <3>3. Cardinality(Users(f)') = Cardinality(Users(f)) + 1
      BY <3>1, Finite, FS_AddElement
    <3>4. \A g \in Fs : fs_count'[g] = Cardinality(Users(g)')
      BY <2>2, <2>3, <3>2, <3>3 DEF TablesUsed
    <3>5. \A g \in Fs : Opened(g)' # {} => \E x \in Proc : fs_struct'[x] = g
      BY <1>a, <2>2, <2>3, SMTT(30) DEF TablesUsed, Opened
    <3> QED BY <3>4, <3>5 DEF TablesUsed
  <2> QED BY <2>4, <2>5, <2>6, <2>7
<1>2. ASSUME put_fs(p)
      PROVE  TableInv'
  <2>1. PICK f : f = fs_struct[p]
    OBVIOUS
  <2>2. f \in Fs /\ pc[p].at = "user"
    BY <1>2, <1>a, <2>1 DEF put_fs, Running, TableTypes
  <2>3. /\ p \in Users(f) /\ IsFiniteSet(Users(f)) /\ Cardinality(Users(f)) \in Nat \ {0}
        /\ fs_count[f] = Cardinality(Users(f))
    <3>1. p \in Users(f)
      BY <2>1, <2>2 DEF Users, Destroying
    <3> QED BY <2>2, <3>1, Finite, FS_EmptySet DEF TablesUsed
  <2>4. /\ fs_count' \in [Fs -> Nat] /\ fs_count'[f] = fs_count[f] - 1
        /\ \A g \in Fs \ {f} : fs_count'[g] = fs_count[g]
        /\ UNCHANGED <<status, open_count, node, node_ref, node_open>>
    <3>1. /\ fs_count' = [fs_count EXCEPT ![f] = @ - 1]
          /\ UNCHANGED <<status, open_count, node, node_ref, node_open>>
      BY <1>2, <2>1 DEF put_fs
    <3>2. fs_count \in [Fs -> Nat] /\ fs_count[f] - 1 \in Nat
      BY <2>2, <2>3, SMTT(30) DEF TableTypes
    <3> QED BY <2>2, <3>1, <3>2
  <2>5. CASE fs_count'[f] = 0
    <3>1. \A q \in Proc \ {p} : fs_struct[q] # f
      <4>1. Users(f) = {p}
        BY <2>3, <2>4, <2>5, FS_Singleton, SMTT(30)
      <4> QED BY <2>1, <4>1 DEF Users, CallsHold
    <3>2. PICK r : r = [at |-> "destroy", fd |-> 0, node |-> None]
      OBVIOUS
    <3>3. /\ r \in Place /\ r.at = "destroy" /\ pc' = [pc EXCEPT ![p] = r] /\ UNCHANGED fs_struct
      BY <1>2, <1>a, <2>1, <2>5, <3>2 DEF put_fs, IsLastUser, At, Place, Places, Destroying
    <3>4. pc' \in [Proc -> Place] /\ pc'[p].at = "destroy" /\ \A x \in Proc \ {p} : pc'[x] = pc[x]
      BY <3>3 DEF TableTypes
    <3>5. EntriesExact' /\ NodeCountsExact'
      <4>1. Quiet
        BY <2>2, <3>3, <3>4 DEF Quiet
      <4> QED BY <2>4, <4>1, OpensNothing
    <3>6. TableTypes'
      BY <2>4, <3>3, <3>4 DEF TableTypes
    <3>7. CallsHold'
      <4> SUFFICES ASSUME NEW x \in Proc
                   PROVE  /\ pc'[x].at # "user" => fs_struct[x] \in Fs
                          /\ pc'[x].at \in ClosingNode \cup {"opened"} => pc'[x].node \in Node
                          /\ pc'[x].at = "use" => node[fs_struct[x]][pc'[x].fd] = pc'[x].node
                          /\ pc'[x].at \in Destroying =>
                               \A y \in Proc \ {x} : fs_struct[y] # fs_struct[x]
        BY <2>4, <3>3 DEF CallsHold
      <4>1. CASE x = p
        BY <2>1, <2>2, <3>1, <3>4, <4>1 DEF ClosingNode
      <4>2. CASE x # p
        BY <3>4, <4>2 DEF CallsHold
      <4> QED BY <4>1, <4>2
    <3>8. TablesUsed'
      <4>1. Users(f)' = {} /\ \A g \in Fs \ {f} : Users(g)' = Users(g)
        BY <2>1, <2>2, <3>1, <3>3, <3>4 DEF Users, Destroying
      <4>2. \A g \in Fs : fs_count'[g] = Cardinality(Users(g)')
        BY <2>4, <2>5, <4>1, FS_EmptySet, SMTT(30) DEF TablesUsed
      <4>3. \A g \in Fs : Opened(g)' # {} => \E x \in Proc : fs_struct'[x] = g
        BY <2>4, <3>3 DEF TablesUsed, Opened
      <4> QED BY <4>2, <4>3 DEF TablesUsed
    <3> QED BY <3>5, <3>6, <3>7, <3>8
  <2>6. CASE fs_count'[f] # 0
    <3>1. /\ fs_struct' \in [Proc -> Fs \cup {None}] /\ fs_struct'[p] = None /\ UNCHANGED pc
          /\ \A x \in Proc \ {p} : fs_struct'[x] = fs_struct[x]
      BY <1>2, <2>1, <2>6 DEF put_fs, IsLastUser, TableTypes
    <3>2. EntriesExact' /\ NodeCountsExact'
      <4>1. Quiet
        BY <2>2, <3>1 DEF Quiet
      <4> QED BY <2>4, <4>1, OpensNothing
    <3>3. TableTypes'
      BY <2>4, <3>1 DEF TableTypes
    <3>4. CallsHold'
      <4> SUFFICES ASSUME NEW x \in Proc
                   PROVE  /\ pc[x].at # "user" => fs_struct'[x] \in Fs
                          /\ pc[x].at \in ClosingNode \cup {"opened"} => pc[x].node \in Node
                          /\ pc[x].at = "use" => node[fs_struct'[x]][pc[x].fd] = pc[x].node
                          /\ pc[x].at \in Destroying =>
                               \A y \in Proc \ {x} : fs_struct'[y] # fs_struct'[x]
        BY <2>4, <3>1 DEF CallsHold
      <4>1. CASE x = p
        BY <2>2, <4>1 DEF ClosingNode, Destroying
      <4>2. CASE x # p
        <5>1. pc[x].at \in Destroying => fs_struct[x] \in Fs
          BY DEF CallsHold, Destroying
        <5> QED BY <1>a, <3>1, <4>2, <5>1, SMTT(30) DEF CallsHold
      <4> QED BY <4>1, <4>2
    <3>5. TablesUsed'
      <4>1. Users(f)' = Users(f) \ {p} /\ \A g \in Fs \ {f} : Users(g)' = Users(g)
        BY <1>a, <2>1, <2>2, <3>1 DEF Users
      <4>2. Cardinality(Users(f)') = Cardinality(Users(f)) - 1
        BY <2>3, <4>1, FS_RemoveElement, SMTT(30)
      <4>3. \A g \in Fs : fs_count'[g] = Cardinality(Users(g)')
        BY <2>3, <2>4, <4>1, <4>2 DEF TablesUsed
      <4>4. \E x \in Proc : fs_struct'[x] = f
        <5>1. Users(f)' # {}
          BY <2>3, <2>4, <2>6, <4>2, FS_EmptySet
        <5> QED BY <5>1 DEF Users
      <4>5. \A g \in Fs : Opened(g)' # {} => \E x \in Proc : fs_struct'[x] = g
        BY <2>1, <2>4, <3>1, <4>4 DEF TablesUsed, Opened
      <4> QED BY <4>3, <4>5 DEF TablesUsed
    <3> QED BY <3>2, <3>3, <3>4, <3>5
  <2> QED BY <2>5, <2>6
<1>3. ASSUME fs_destroyed(p)
      PROVE  TableInv'
  <2>1. PICK f, r : f = fs_struct[p] /\ r = [at |-> "user", fd |-> 0, node |-> None]
    OBVIOUS
  <2>2. pc[p].at = "destroy" /\ f \in Fs /\ Opened(f) = {}
    BY <1>3, <2>1, CallFacts DEF fs_destroyed
  <2>3. r \in Place /\ r.at = "user"
    BY <1>a, <2>1 DEF Place, Places
  <2>4. /\ fs_struct' \in [Proc -> Fs \cup {None}] /\ fs_struct'[p] = None
        /\ pc' \in [Proc -> Place] /\ pc'[p].at = "user"
        /\ \A x \in Proc \ {p} : fs_struct'[x] = fs_struct[x] /\ pc'[x] = pc[x]
        /\ UNCHANGED <<fs_count, status, open_count, node, node_ref, node_open>>
    BY <1>3, <2>1, <2>3 DEF fs_destroyed, At, TableTypes
  <2>5. EntriesExact' /\ NodeCountsExact'
    <3>1. Quiet
      BY <2>2, <2>4 DEF Quiet
    <3> QED BY <2>4, <3>1, OpensNothing
  <2>6. TableTypes'
    BY <2>4 DEF TableTypes
  <2>7. CallsHold'
    <3> SUFFICES ASSUME NEW x \in Proc
                 PROVE  /\ pc'[x].at # "user" => fs_struct'[x] \in Fs
                        /\ pc'[x].at \in ClosingNode \cup {"opened"} => pc'[x].node \in Node
                        /\ pc'[x].at = "use" => node[fs_struct'[x]][pc'[x].fd] = pc'[x].node
                        /\ pc'[x].at \in Destroying =>
                             \A y \in Proc \ {x} : fs_struct'[y] # fs_struct'[x]
      BY <2>4 DEF CallsHold
    <3>1. CASE x = p
      BY <2>4, <3>1 DEF ClosingNode, Destroying
    <3>2. CASE x # p
      <4>1. pc[x].at \in Destroying => fs_struct[x] \in Fs
        BY DEF CallsHold, Destroying
      <4> QED BY <1>a, <2>4, <3>2, <4>1, SMTT(30) DEF CallsHold
    <3> QED BY <3>1, <3>2
  <2>8. TablesUsed'
    <3>1. \A g \in Fs : Users(g)' = Users(g)
      BY <1>a, <2>2, <2>4 DEF Users, Destroying
    <3>2. \A g \in Fs : Opened(g)' # {} => \E x \in Proc : fs_struct'[x] = g
      BY <2>1, <2>2, <2>4, SMTT(30) DEF TablesUsed, Opened
    <3> QED BY <2>4, <3>1, <3>2, SMTT(30) DEF TablesUsed
  <2> QED BY <2>5, <2>6, <2>7, <2>8
<1> QED BY <1>1, <1>2, <1>3

\* So does opening a pipe, which takes two entries at once.
LEMMA PipeStep ==
  ASSUME TableConstants, TableInv, NEW p \in Proc, NEW n1 \in Node, NEW n2 \in Node,
         file_pipe(p, n1, n2)
  PROVE  TableInv'
<1> USE DEF TableInv
<1>1. PICK f : f = fs_struct[p]
  OBVIOUS
<1>2. f \in Fs /\ n1 # n2 /\ node_ref[n1] = 0 /\ node_ref[n2] = 0
  BY <1>1 DEF file_pipe, Running, TableTypes
<1>3. PICK d1 \in Fd, d2 \in Fd :
        /\ status[f][d1] = "FD_NONE" /\ status[f][d2] = "FD_NONE" /\ d1 # d2
        /\ status' = [status EXCEPT ![f][d1] = "FD_OPENED", ![f][d2] = "FD_OPENED"]
        /\ open_count' = [open_count EXCEPT ![f][d1] = @ + 1, ![f][d2] = @ + 1]
        /\ node' = [node EXCEPT ![f][d1] = n1, ![f][d2] = n2]
  BY <1>1 DEF file_pipe, IsFirst, Unused
<1>4. open_count[f][d1] = 0 /\ open_count[f][d2] = 0
  BY <1>2, <1>3, EntryFacts
<1>5. PICK E : E = {<<f, d1>>, <<f, d2>>}
  OBVIOUS
<1>6. /\ UNCHANGED <<fs_struct, fs_count, pc>>
      /\ node_ref' = [node_ref EXCEPT ![n1] = 1, ![n2] = 1]
      /\ node_open' = [node_open EXCEPT ![n1] = 1, ![n2] = 1]
  BY DEF file_pipe
<1>7. /\ status' \in [Fs -> [Fd -> Statuses]] /\ open_count' \in [Fs -> [Fd -> Nat]]
      /\ node' \in [Fs -> [Fd -> Node \cup {None}]]
  <2>1. status' \in [Fs -> [Fd -> Statuses]]
    BY <1>2, <1>3 DEF TableTypes, Statuses
  <2>2. open_count' \in [Fs -> [Fd -> Nat]]
    BY <1>2, <1>3, SMTT(30) DEF TableTypes
  <2>3. node' \in [Fs -> [Fd -> Node \cup {None}]]
    BY <1>2, <1>3 DEF TableTypes
  <2> QED BY <2>1, <2>2, <2>3
<1>8. /\ node'[f][d1] = n1 /\ node'[f][d2] = n2
      /\ status'[f][d1] = "FD_OPENED" /\ status'[f][d2] = "FD_OPENED"
      /\ open_count'[f][d1] = 1 /\ open_count'[f][d2] = 1
      /\ \A g \in Fs, e \in Fd : <<g, e>> \notin E =>
           /\ status'[g][e] = status[g][e] /\ open_count'[g][e] = open_count[g][e]
           /\ node'[g][e] = node[g][e]
  BY <1>2, <1>3, <1>4, <1>5, SMTT(30) DEF TableTypes
<1>9. Opens(E)
  <2>1. ASSUME NEW g \in Fs, NEW e \in Fd, <<g, e>> \in E
        PROVE  g = f /\ (e = d1 \/ e = d2)
    BY <1>5, <2>1
  <2>2. E \subseteq Fs \X Fd
    BY <1>2, <1>3, <1>5, SMTT(30)
  <2>3. ASSUME NEW g \in Fs, NEW e \in Fd, <<g, e>> \in E
        PROVE  /\ status[g][e] = "FD_NONE" /\ status'[g][e] = "FD_OPENED"
               /\ open_count'[g][e] = 1 /\ node'[g][e] \in Node
    BY <1>3, <1>8, <2>1, <2>3
  <2> QED BY <1>8, <2>2, <2>3, SMTT(30) DEF Opens
<1>10. Quiet
  BY <1>6 DEF Quiet
<1>11. EntriesExact'
  BY <1>9, <1>10, OpensEntries
<1>12. NodeCountsExact' /\ node_ref' \in [Node -> 0..MaxRef] /\ node_open' \in [Node -> Nat]
  <2>1. /\ For(E, n1) = {<<f, d1>>} /\ For(E, n2) = {<<f, d2>>}
        /\ \A n \in Node \ {n1, n2} : For(E, n) = {}
    <3>1. \A n : For(E, n) = {x \in {<<f, d1>>, <<f, d2>>} : node'[x[1]][x[2]] = n}
      BY <1>5 DEF For
    <3>2. node'[<<f, d1>>[1]][<<f, d1>>[2]] = n1 /\ node'[<<f, d2>>[1]][<<f, d2>>[2]] = n2
      BY <1>8
    <3> QED BY <1>2, <3>1, <3>2, SMTT(30)
  <2>2. /\ Cardinality(For(E, n1)) = 1 /\ Cardinality(For(E, n2)) = 1
        /\ \A n \in Node \ {n1, n2} : Cardinality(For(E, n)) = 0
    BY <2>1, FS_Singleton, FS_EmptySet
  <2>3. node_open[n1] = 0 /\ node_open[n2] = 0
    <3>1. ASSUME NEW n \in Node, node_ref[n] = 0
          PROVE  node_open[n] = 0
      <4>1. Cardinality(Closing(n)) \in Nat /\ node_open[n] \in Nat
        BY Finite DEF TableTypes
      <4> QED BY <3>1, <4>1, SMTT(30) DEF NodeCountsExact
    <3> QED BY <1>2, <3>1
  <2>4. MaxRef \in Nat /\ MaxRef >= 1 /\ \A n \in Node : node_open[n] \in Nat /\ node_ref[n] \in 0..MaxRef
    BY SMTT(30) DEF TableConstants, TableTypes
  <2>5. node_open' \in [Node -> Int] /\ node_ref' \in [Node -> Int]
    BY <1>6, <2>4, SMTT(30) DEF TableTypes
  <2>6. ASSUME NEW n \in Node
        PROVE  /\ node_open'[n] = node_open[n] + Cardinality(For(E, n))
               /\ node_ref'[n] = node_ref[n] + Cardinality(For(E, n))
               /\ node_ref'[n] <= MaxRef
    <3>1. CASE n \in {n1, n2}
      <4>1. node_open'[n] = 1 /\ node_ref'[n] = 1
        BY <1>2, <1>6, <3>1 DEF TableTypes
      <4> QED BY <1>2, <2>2, <2>3, <2>4, <3>1, <4>1, SMTT(30)
    <3>2. CASE n \notin {n1, n2}
      <4>1. node_open'[n] = node_open[n] /\ node_ref'[n] = node_ref[n]
        BY <1>6, <3>2 DEF TableTypes
      <4> QED BY <2>2, <2>4, <3>2, <4>1, SMTT(30)
    <3> QED BY <3>1, <3>2
  <2> QED BY <1>9, <1>10, <2>5, <2>6, OpensNodes
<1>13. TableTypes'
  BY <1>6, <1>7, <1>12 DEF TableTypes
<1>14. CallsHold'
  <2>1. ASSUME NEW x \in Proc, pc[x].at = "use"
        PROVE  node'[fs_struct[x]][pc[x].fd] = node[fs_struct[x]][pc[x].fd]
    <3>1. fs_struct[x] \in Fs /\ pc[x].fd \in Fd
      BY <2>1, CallFacts
    <3>2. open_count[fs_struct[x]][pc[x].fd] # 0
      <4>1. x \in Inside(fs_struct[x], pc[x].fd)
        BY <2>1 DEF Inside
      <4>2. Cardinality(Inside(fs_struct[x], pc[x].fd)) \in Nat \ {0}
        BY <4>1, Finite, FS_EmptySet
      <4> QED BY <3>1, <4>2, EntryFacts, SMTT(30) DEF B
    <3> QED BY <1>4, <1>5, <1>8, <3>1, <3>2
  <2> QED BY <1>6, <2>1 DEF CallsHold
<1>15. TablesUsed'
  <2>1. \A g \in Fs : Users(g)' = Users(g)
    BY <1>6 DEF Users
  <2>2. \A g \in Fs \ {f} : Opened(g)' = Opened(g)
    BY <1>5, <1>8 DEF Opened
  <2> QED BY <1>1, <1>6, <2>1, <2>2 DEF TablesUsed
<1> QED BY <1>11, <1>12, <1>13, <1>14, <1>15

\* And so does copying a table.
LEMMA DupStep ==
  ASSUME TableConstants, TableInv, NEW p \in Proc, NEW q \in Proc, NEW f \in Fs,
         dup_fs(p, q, f)
  PROVE  TableInv'
<1> USE DEF TableInv
<1> DEFINE Of(n) == {d \in Opened(fs_struct[p]) : node[fs_struct[p]][d] = n}
<1>1. PICK from : from = fs_struct[p]
  OBVIOUS
<1>2. /\ from \in Fs /\ from # f /\ fs_struct[q] = None /\ pc[q].at = "user"
      /\ None \notin Fs /\ \A x \in Proc : fs_struct[x] # f
  <2>1. None \notin Fs
    BY DEF TableConstants
  <2> QED BY <1>1, <2>1 DEF dup_fs, Running, CallsHold, TableTypes
<1>3. /\ status' = [status EXCEPT ![f] = [d \in Fd |->
                     IF d \in Opened(from) THEN "FD_OPENED" ELSE "FD_NONE"]]
      /\ open_count' = [open_count EXCEPT ![f] = [d \in Fd |->
                     IF d \in Opened(from) THEN 1 ELSE 0]]
      /\ node' = [node EXCEPT ![f] = [d \in Fd |->
                     IF d \in Opened(from) THEN node[from][d] ELSE None]]
      /\ \A n \in Node : node_ref[n] + Cardinality(Of(n)) <= MaxRef
      /\ node_ref' = [n \in Node |-> node_ref[n] + Cardinality(Of(n))]
      /\ node_open' = [n \in Node |-> node_open[n] + Cardinality(Of(n))]
      /\ fs_struct' = [fs_struct EXCEPT ![q] = f]
      /\ fs_count' = [fs_count EXCEPT ![f] = 1]
      /\ pc' = pc
  BY <1>1 DEF dup_fs, DupRef
<1>4. \A d \in Opened(from) : d \in Fd /\ node[from][d] \in Node
  BY <1>2, EntryFacts DEF Opened
<1>5. \A d \in Fd : status[f][d] = "FD_NONE" /\ open_count[f][d] = 0
  <2> SUFFICES ASSUME NEW d \in Fd
               PROVE  status[f][d] = "FD_NONE" /\ open_count[f][d] = 0
    OBVIOUS
  <2>1. Inside(f, d) = {} /\ Owners(f, d) = {} /\ Opened(f) = {}
    BY <1>2 DEF Inside, Owners, TablesUsed
  <2>2. status[f][d] # "FD_OPENED"
    BY <2>1 DEF Opened
  <2>3. open_count[f][d] = 0
    BY <2>1, <2>2, EntryFacts, FS_EmptySet, SMTT(30) DEF B
  <2> QED BY <2>1, <2>2, <2>3, EntryFacts DEF IsBusy, Statuses
<1>6. PICK E : E = {f} \X Opened(from)
  OBVIOUS
<1>7. /\ status' \in [Fs -> [Fd -> Statuses]] /\ open_count' \in [Fs -> [Fd -> Nat]]
      /\ node' \in [Fs -> [Fd -> Node \cup {None}]]
      /\ fs_struct' \in [Proc -> Fs \cup {None}] /\ fs_count' \in [Fs -> Nat]
  <2>1. status' \in [Fs -> [Fd -> Statuses]]
    BY <1>3 DEF TableTypes, Statuses
  <2>2. open_count' \in [Fs -> [Fd -> Nat]]
    BY <1>3 DEF TableTypes
  <2>3. node' \in [Fs -> [Fd -> Node \cup {None}]]
    BY <1>3, <1>4 DEF TableTypes
  <2>4. fs_struct' \in [Proc -> Fs \cup {None}] /\ fs_count' \in [Fs -> Nat]
    BY <1>3 DEF TableTypes
  <2> QED BY <2>1, <2>2, <2>3, <2>4
<1>8. /\ \A g \in Fs \ {f} : /\ status'[g] = status[g] /\ open_count'[g] = open_count[g]
                             /\ node'[g] = node[g] /\ fs_count'[g] = fs_count[g]
      /\ \A d \in Opened(from) : /\ status'[f][d] = "FD_OPENED" /\ open_count'[f][d] = 1
                                 /\ node'[f][d] = node[from][d]
      /\ \A d \in Fd \ Opened(from) : status'[f][d] = "FD_NONE" /\ open_count'[f][d] = 0
      /\ fs_count'[f] = 1 /\ fs_struct'[q] = f
      /\ \A x \in Proc \ {q} : fs_struct'[x] = fs_struct[x]
  BY <1>3, <1>4 DEF TableTypes
<1>9. Opens(E)
  <2>1. E \subseteq Fs \X Fd
    BY <1>4, <1>6
  <2>2. \A g, e : <<g, e>> \in E <=> g = f /\ e \in Opened(from)
    BY <1>6
  <2> QED BY <1>4, <1>5, <1>8, <2>1, <2>2, SMTT(30) DEF Opens
<1>10. Quiet
  BY <1>2, <1>3, <1>8 DEF Quiet
<1>11. EntriesExact'
  BY <1>9, <1>10, OpensEntries
<1>12. NodeCountsExact' /\ node_ref' \in [Node -> 0..MaxRef] /\ node_open' \in [Node -> Nat]
  <2>1. ASSUME NEW n \in Node
        PROVE  Cardinality(For(E, n)) = Cardinality(Of(n)) /\ Cardinality(Of(n)) \in Nat
    <3>1. IsFiniteSet(Of(n)) /\ Cardinality(Of(n)) \in Nat
      <4>1. IsFiniteSet(Fd)
        BY FS_Interval, SMTT(30) DEF TableConstants, Fd
      <4>2. Of(n) \in SUBSET Fd
        BY DEF Opened
      <4> QED BY <4>1, <4>2, FS_Subset, FS_CardinalityType
    <3>2. For(E, n) = {<<f, d>> : d \in Of(n)}
      BY <1>1, <1>6, <1>8, SMTT(30) DEF For
    <3> DEFINE copy == [d \in Of(n) |-> <<f, d>>]
    <3>3. copy \in Bijection(Of(n), For(E, n))
      BY <3>2 DEF Bijection, Injection, Surjection, IsInjective
    <3> QED BY <3>1, <3>3, FS_Bijection, SMTT(30) DEF ExistsBijection
  <2>2. MaxRef \in Nat /\ \A n \in Node : node_open[n] \in Nat /\ node_ref[n] \in 0..MaxRef
    BY DEF TableConstants, TableTypes
  <2>3. node_open' \in [Node -> Int] /\ node_ref' \in [Node -> Int]
    BY <1>3, <2>1, <2>2, SMTT(30)
  <2>4. ASSUME NEW n \in Node
        PROVE  /\ node_open'[n] = node_open[n] + Cardinality(For(E, n))
               /\ node_ref'[n] = node_ref[n] + Cardinality(For(E, n))
               /\ node_ref'[n] <= MaxRef
    BY <1>3, <2>1
  <2> QED BY <1>9, <1>10, <2>3, <2>4, OpensNodes
<1>13. TableTypes'
  BY <1>3, <1>7, <1>12 DEF TableTypes
<1>14. CallsHold'
  <2> SUFFICES ASSUME NEW x \in Proc
               PROVE  /\ pc[x].at # "user" => fs_struct'[x] \in Fs
                      /\ pc[x].at \in ClosingNode \cup {"opened"} => pc[x].node \in Node
                      /\ pc[x].at = "use" => node'[fs_struct'[x]][pc[x].fd] = pc[x].node
                      /\ pc[x].at \in Destroying =>
                           \A y \in Proc \ {x} : fs_struct'[y] # fs_struct'[x]
    BY <1>3 DEF CallsHold
  <2>1. CASE x = q
    BY <1>2, <2>1 DEF ClosingNode, Destroying
  <2>2. CASE x # q
    BY <1>2, <1>8, <2>2, SMTT(30) DEF CallsHold
  <2> QED BY <2>1, <2>2
<1>15. TablesUsed'
  <2>1. Users(f)' = {q} /\ \A g \in Fs \ {f} : Users(g)' = Users(g)
    BY <1>2, <1>3, <1>8, SMTT(30) DEF Users, Destroying
  <2>2. \A g \in Fs : fs_count'[g] = Cardinality(Users(g)')
    <3>1. Cardinality(Users(f)') = 1
      BY <2>1, FS_Singleton
    <3>2. \A g \in Fs \ {f} : fs_count'[g] = Cardinality(Users(g)')
      BY <1>8, <2>1, SMTT(30) DEF TablesUsed
    <3> QED BY <1>8, <3>1, <3>2
  <2>3. \A g \in Fs : Opened(g)' # {} => \E x \in Proc : fs_struct'[x] = g
    BY <1>2, <1>8, SMTT(30) DEF TablesUsed, Opened
  <2> QED BY <2>2, <2>3 DEF TablesUsed
<1> QED BY <1>11, <1>12, <1>13, <1>14, <1>15

-----------------------------------------------------------------------------
\* No file is open when the system starts.
LEMMA TableInvInit ==
  ASSUME TableConstants, TableInit
  PROVE  TableInv
<1>1. PICK first \in Proc, g \in Fs : TableBoot([p \in Proc |-> IF p = first THEN g ELSE None])
  BY DEF TableInit
<1>2. /\ fs_struct = [p \in Proc |-> IF p = first THEN g ELSE None]
      /\ fs_count = [f \in Fs |-> Cardinality({p \in Proc : fs_struct[p] = f})]
      /\ status = [f \in Fs |-> [d \in Fd |-> "FD_NONE"]]
      /\ open_count = [f \in Fs |-> [d \in Fd |-> 0]]
      /\ node = [f \in Fs |-> [d \in Fd |-> None]]
      /\ node_ref = [n \in Node |-> 0] /\ node_open = [n \in Node |-> 0]
      /\ pc = [p \in Proc |-> User]
  BY <1>1 DEF TableBoot
<1>3. 0 \in Fd /\ MaxRef \in Nat /\ \A p \in Proc : pc[p].at = "user"
  BY <1>2, SMTT(30) DEF TableConstants, Fd, User
<1>4. \A f \in Fs : {p \in Proc : fs_struct[p] = f} = Users(f)
  BY <1>3 DEF Users, Destroying
<1>5. TableTypes
  <2>1. fs_count \in [Fs -> Nat]
    BY <1>2, <1>4, Finite
  <2>2. pc \in [Proc -> Place]
    BY <1>2, <1>3 DEF User, Place, Places
  <2>3. /\ status \in [Fs -> [Fd -> Statuses]] /\ open_count \in [Fs -> [Fd -> Nat]]
        /\ node \in [Fs -> [Fd -> Node \cup {None}]]
    BY <1>2 DEF Statuses
  <2>4. /\ node_ref \in [Node -> 0..MaxRef] /\ node_open \in [Node -> Nat]
        /\ fs_struct \in [Proc -> Fs \cup {None}]
    BY <1>2, <1>3, SMTT(30)
  <2> QED BY <2>1, <2>2, <2>3, <2>4 DEF TableTypes
<1>6. CallsHold
  BY <1>3 DEF CallsHold, ClosingNode, Destroying
<1>7. EntriesExact
  <2>1. \A f \in Fs, d \in Fd : Inside(f, d) = {} /\ Owners(f, d) = {}
    BY <1>3 DEF Inside, Owners, SettingUp
  <2>2. \A f \in Fs, d \in Fd : status[f][d] = "FD_NONE" /\ open_count[f][d] = 0
    BY <1>2
  <2>3. \A f \in Fs, d \in Fd : Cardinality(Inside(f, d)) = 0
    BY <2>1, FS_EmptySet
  <2> QED BY <2>1, <2>2, <2>3, SMTT(30) DEF EntriesExact, B, IsBusy
<1>8. TablesUsed
  BY <1>2, <1>4 DEF TablesUsed, Opened
<1>9. NodeCountsExact
  <2>1. \A n \in Node : Holders(n) = {} /\ Opening(n) = {} /\ Closing(n) = {}
    BY <1>2, <1>3 DEF Holders, Opening, Closing
  <2>2. \A n \in Node : /\ Cardinality(Holders(n)) = 0 /\ Cardinality(Opening(n)) = 0
                        /\ Cardinality(Closing(n)) = 0
    BY <2>1, FS_EmptySet
  <2> QED BY <1>2, <2>2, SMTT(30) DEF NodeCountsExact
<1> QED BY <1>5, <1>6, <1>7, <1>8, <1>9 DEF TableInv

\* Every step keeps the invariant.
LEMMA TableInvStep ==
  ASSUME TableConstants, TableInv, [TableNext]_table_vars
  PROVE  TableInv'
<1>1. CASE UNCHANGED table_vars
  <2>1. TableTypes' /\ CallsHold'
    BY <1>1 DEF table_vars, TableInv, TableTypes, CallsHold
  <2>2. EntriesExact' /\ NodeCountsExact'
    <3>1. Quiet
      BY <1>1 DEF table_vars, Quiet
    <3> QED BY <1>1, <3>1, OpensNothing DEF table_vars, TableInv
  <2>3. TablesUsed'
    BY <1>1 DEF table_vars, TableInv, TablesUsed, Users, Opened
  <2> QED BY <2>1, <2>2, <2>3 DEF TableInv
<1>2. ASSUME NEW p \in Proc, CallReturns(p)
      PROVE  TableInv'
  BY <1>2, CallSteps, ShareSteps DEF CallReturns
<1>3. ASSUME NEW p \in Proc, \E n1, n2 \in Node : file_pipe(p, n1, n2)
      PROVE  TableInv'
  BY <1>3, PipeStep
<1>4. ASSUME NEW p \in Proc, NEW q \in Proc, \E f \in Fs : dup_fs(p, q, f)
      PROVE  TableInv'
  BY <1>4, DupStep
<1>5. ASSUME NEW p \in Proc,
             \/ file_open(p) \/ put_fs(p)
             \/ \E d \in Fd : file_close(p, d) \/ filemap_acquire(p, d)
             \/ \E d1, d2 \in Fd : file_dup(p, d1, d2)
             \/ \E q \in Proc : clone_fs(p, q)
      PROVE  TableInv'
  BY <1>5, CallSteps, ShareSteps
<1> QED BY <1>1, <1>2, <1>3, <1>4, <1>5 DEF TableNext

\* So it always holds.
LEMMA TableInvHolds ==
  ASSUME TableConstants
  PROVE  TableSpec => []TableInv
<1>1. TableInit => TableInv
  BY TableInvInit
<1>2. TableInv /\ [TableNext]_table_vars => TableInv'
  BY TableInvStep
<1> QED BY <1>1, <1>2, PTL DEF TableSpec

(* For any processes, tables and inodes: vop_ref_dec and vop_open_dec       *)
(* never run ahead of, or fall behind, what the tables and the calls in    *)
(* progress hold of an inode, through shared tables, copied tables, opens   *)
(* that fail half way, and a descriptor closed under a running call; and    *)
(* every count stays in its range.                                         *)
THEOREM CountsCorrect ==
  ASSUME TableConstants
  PROVE  TableSpec => [](TableTypeOK /\ NodeCountsExact)
<1>1. TableInv => TableTypeOK /\ NodeCountsExact
  <2> SUFFICES ASSUME TableInv
               PROVE  TableTypeOK
    BY DEF TableInv
  <2> USE DEF TableInv
  <2>1. Cardinality(Proc) \in Nat
    BY FS_CardinalityType DEF TableConstants
  <2>2. \A S \in SUBSET Proc : Cardinality(S) \in 0..Cardinality(Proc)
    BY <2>1, FS_Subset, FS_CardinalityType, SMTT(30) DEF TableConstants
  <2>3. fs_count \in [Fs -> 0..Cardinality(Proc)]
    <3>1. \A f \in Fs : Users(f) \in SUBSET Proc /\ fs_count[f] = Cardinality(Users(f))
      BY DEF TablesUsed, Users
    <3>2. \A f \in Fs : fs_count[f] \in 0..Cardinality(Proc)
      BY <2>2, <3>1
    <3> QED BY <3>2 DEF TableTypes
  <2>4. open_count \in [Fs -> [Fd -> 0..(Cardinality(Proc) + 1)]]
    <3>1. ASSUME NEW f \in Fs, NEW d \in Fd
          PROVE  open_count[f][d] \in 0..(Cardinality(Proc) + 1)
      <4>1. Cardinality(Inside(f, d)) \in 0..Cardinality(Proc)
        <5>1. Inside(f, d) \in SUBSET Proc
          BY DEF Inside
        <5> QED BY <2>2, <5>1
      <4> QED BY <2>1, <4>1, EntryFacts, SMTT(30) DEF B
    <3> QED BY <3>1 DEF TableTypes
  <2>5. node_open \in [Node -> 0..MaxRef]
    <3>1. ASSUME NEW n \in Node
          PROVE  node_open[n] \in 0..MaxRef
      <4>1. /\ Cardinality(Closing(n)) \in Nat /\ node_open[n] \in Nat
            /\ node_ref[n] \in 0..MaxRef /\ MaxRef \in Nat
        BY Finite DEF TableTypes, TableConstants
      <4> QED BY <4>1, SMTT(30) DEF NodeCountsExact
    <3> QED BY <3>1 DEF TableTypes
  <2>6. pc \in [Proc -> [at : {"user", "lookup", "opened", "use", "close", "free",
                               "destroy", "destroy_close", "destroy_free"},
                         fd : Fd, node : Node \cup {None}]]
    <3>1. Places = {"user", "lookup", "opened", "use", "close", "free",
                    "destroy", "destroy_close", "destroy_free"}
      BY DEF Places, Destroying
    <3> QED BY <3>1 DEF TableTypes, Place
  <2> QED BY <2>3, <2>4, <2>5, <2>6 DEF TableTypeOK, TableTypes, Statuses
<1> QED BY <1>1, TableInvHolds, PTL

(* For any processes, tables and inodes: a call works on the inode it       *)
(* started with until filemap_release, whatever the other threads of the    *)
(* table close meanwhile, and the assertions of filemap_alloc,              *)
(* filemap_open, filemap_free and fs_destroy hold: an entry that is set up  *)
(* or torn down is one process's.                                          *)
THEOREM EntriesCorrect ==
  ASSUME TableConstants
  PROVE  TableSpec => []EntriesOwned
<1>1. TableInv => EntriesOwned
  <2> SUFFICES ASSUME TableInv
               PROVE  EntriesOwned
    OBVIOUS
  <2> USE DEF TableInv
  <2>1. CallKeepsFile
    <3> SUFFICES ASSUME NEW p \in Proc, pc[p].at = "use"
                 PROVE  /\ node[fs_struct[p]][pc[p].fd] = pc[p].node
                        /\ status[fs_struct[p]][pc[p].fd] \in {"FD_OPENED", "FD_CLOSED"}
                        /\ node_open[pc[p].node] > 0
      BY DEF CallKeepsFile
    <3>1. PICK f, d : f = fs_struct[p] /\ d = pc[p].fd
      OBVIOUS
    <3>2. f \in Fs /\ d \in Fd /\ node[f][d] = pc[p].node
      BY <3>1, CallFacts DEF CallsHold
    <3>3. Cardinality(Inside(f, d)) \in Nat \ {0}
      <4>1. p \in Inside(f, d)
        BY <3>1 DEF Inside
      <4> QED BY <4>1, Finite, FS_EmptySet
    <3>4. open_count[f][d] > 0 /\ status[f][d] \in {"FD_OPENED", "FD_CLOSED"} /\ node[f][d] \in Node
      BY <3>2, <3>3, EntryFacts, SMTT(30) DEF B, Statuses
    <3>5. <<f, d>> \in Holders(pc[p].node)
      BY <3>2, <3>4 DEF Holders
    <3>6. Cardinality(Holders(pc[p].node)) \in Nat \ {0} /\ Cardinality(Opening(pc[p].node)) \in Nat
      BY <3>5, Finite, FS_EmptySet
    <3>7. node_open[pc[p].node] > 0
      BY <3>2, <3>4, <3>6, SMTT(30) DEF NodeCountsExact
    <3> QED BY <3>1, <3>2, <3>4, <3>7
  <2>2. ASSUME NEW f \in Fs, NEW d \in Fd
        PROVE  /\ status[f][d] \in {"FD_NONE", "FD_INIT"} => open_count[f][d] = 0
               /\ (status[f][d] = "FD_INIT" \/ (status[f][d] = "FD_CLOSED" /\ open_count[f][d] = 0)) =>
                    Cardinality({p \in Proc : /\ fs_struct[p] = f /\ pc[p].fd = d
                                              /\ pc[p].at \notin {"user", "use", "destroy"}}) = 1
    <3>1. {p \in Proc : /\ fs_struct[p] = f /\ pc[p].fd = d
                        /\ pc[p].at \notin {"user", "use", "destroy"}} = Owners(f, d)
      BY DEF Owners, SettingUp
    <3>2. ASSUME IsBusy(status[f][d], open_count[f][d])
          PROVE  Cardinality(Owners(f, d)) = 1
      <4>1. PICK p : p \in Owners(f, d)
        BY <3>2 DEF EntriesExact
      <4>2. Owners(f, d) = {p}
        BY <4>1, SMTT(30) DEF EntriesExact
      <4> QED BY <4>2, FS_Singleton
    <3> QED BY <3>1, <3>2, EntryFacts DEF IsBusy
  <2>3. ASSUME NEW p \in Proc, pc[p].at = "destroy"
        PROVE  /\ \A q \in Proc \ {p} : fs_struct[q] # fs_struct[p]
               /\ \A d \in Fd : status[fs_struct[p]][d] \in {"FD_NONE", "FD_OPENED"}
    <3>1. fs_struct[p] \in Fs /\ \A q \in Proc \ {p} : fs_struct[q] # fs_struct[p]
      BY <2>3 DEF CallsHold, Destroying
    <3>2. ASSUME NEW d \in Fd
          PROVE  status[fs_struct[p]][d] \in {"FD_NONE", "FD_OPENED"}
      <4>1. Inside(fs_struct[p], d) = {} /\ Owners(fs_struct[p], d) = {}
        BY <2>3, <3>1 DEF Inside, Owners, SettingUp
      <4>2. status[fs_struct[p]][d] # "FD_OPENED" => open_count[fs_struct[p]][d] = 0
        <5>1. Cardinality(Inside(fs_struct[p], d)) = 0
          BY <4>1, FS_EmptySet
        <5> QED BY <3>1, <5>1, EntryFacts, SMTT(30) DEF B
      <4> QED BY <3>1, <4>1, <4>2, EntryFacts DEF IsBusy, Statuses
    <3> QED BY <3>1, <3>2
  <2> QED BY <2>1, <2>2, <2>3 DEF EntriesOwned
<1> QED BY <1>1, TableInvHolds, PTL
=============================================================================
