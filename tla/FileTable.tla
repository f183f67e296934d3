----------------------------- MODULE FileTable ------------------------------
(***************************************************************************)
(* The tables of open files (fs/file.c, fs/fs.c) and the counts of the     *)
(* inodes in them (fs/vfs/inode.c, fs/vfs/vfsfile.c).  Threads share a     *)
(* table.  A call sleeps while a path is looked up, while it is in the     *)
(* file system, and while the last close or the last release of an inode   *)
(* is in the file system: then other threads use the same descriptors.     *)
(***************************************************************************)
EXTENDS Integers, FiniteSets, Processes

CONSTANTS
  Fs, Node,
  FS_STRUCT_NENTRY,   \* entries of a table
  MaxRef              \* bound on the references to an inode

\* The constants are what they should be.
TableConstants == /\ IsFiniteSet(Proc) /\ IsFiniteSet(Fs)
                  /\ None \notin Fs \cup Node
                  /\ FS_STRUCT_NENTRY \in Nat \ {0} /\ MaxRef \in Nat \ {0}

VARIABLES
  fs_struct,   \* the table of each process, None for one that has exited
  fs_count,    \* of each table
  status, open_count, node,   \* fields of the entries of each table
  node_ref, node_open,        \* ref_count and open_count of each inode
  pc           \* where a process is, with the entry and the inode it holds

table_vars == <<fs_struct, fs_count, status, open_count, node, node_ref, node_open, pc>>

Fd == 0..(FS_STRUCT_NENTRY - 1)

User == [at |-> "user", fd |-> 0, node |-> None]

At(p, where, d, n) == pc' = [pc EXCEPT ![p] = [at |-> where, fd |-> d, node |-> n]]

\* No file is open; tables says which table each process has.
TableBoot(tables) ==
  /\ fs_struct = tables
  /\ fs_count = [f \in Fs |-> Cardinality({p \in Proc : tables[p] = f})]
  /\ status = [f \in Fs |-> [d \in Fd |-> "FD_NONE"]]
  /\ open_count = [f \in Fs |-> [d \in Fd |-> 0]]
  /\ node = [f \in Fs |-> [d \in Fd |-> None]]
  /\ node_ref = [n \in Node |-> 0]
  /\ node_open = [n \in Node |-> 0]
  /\ pc = [p \in Proc |-> User]

\* The process that starts the system has an empty table.
TableInit == \E first \in Proc, f \in Fs :
               TableBoot([p \in Proc |-> IF p = first THEN f ELSE None])

Running(p) == fs_struct[p] # None /\ pc[p].at = "user"

\* fd2file: the descriptor is open.
fd2file(p, d) == status[fs_struct[p]][d] = "FD_OPENED"

\* filemap_alloc: the entries a call may take, the first free one if no
\* descriptor is asked for.
Unused(f) == {d \in Fd : status[f][d] = "FD_NONE"}
IsFirst(d, S) == d \in S /\ \A e \in S : d <= e

SetEntry(f, d, st, cnt, n) ==
  /\ status' = [status EXCEPT ![f][d] = st]
  /\ open_count' = [open_count EXCEPT ![f][d] = cnt]
  /\ node' = [node EXCEPT ![f][d] = n]

-----------------------------------------------------------------------------
(* Closing.  The steps of vfs_close: vop_open_dec, in which the file       *)
(* system may be called, vop_ref_dec, in which it may be called again, and *)
(* then the entry is free.                                                 *)

\* Fault: the entry is freed while calls are still in it.
NobodyInsideAnyway(cnt) == TRUE

\* The count dropped to zero: the entry is freed.
NobodyInside(cnt) == cnt = 0

\* The end of filemap_release and of filemap_close: the entry, now with this
\* status and count, is freed if nobody is left in it.
Drop(p, f, d, st, cnt, where) ==
  /\ SetEntry(f, d, st, cnt, node[f][d])
  /\ IF NobodyInside(cnt)
     THEN /\ node_open' = [node_open EXCEPT ![node[f][d]] = @ - 1]
          /\ At(p, where, d, node[f][d])
     ELSE /\ At(p, IF where = "destroy_close" THEN "destroy" ELSE "user", 0, None)
          /\ UNCHANGED node_open
  /\ UNCHANGED <<fs_struct, fs_count, node_ref>>

file_close(p, d) ==
  /\ Running(p) /\ fd2file(p, d)
  /\ LET f == fs_struct[p] IN
       Drop(p, f, d, "FD_CLOSED", open_count[f][d] - 1, "close")

\* vop_open_dec is over: vop_ref_dec.
ref_dec(p) ==
  /\ pc[p].at \in {"close", "destroy_close"}
  /\ node_ref' = [node_ref EXCEPT ![pc[p].node] = @ - 1]
  /\ At(p, IF pc[p].at = "close" THEN "free" ELSE "destroy_free", pc[p].fd, None)
  /\ UNCHANGED <<fs_struct, fs_count, status, open_count, node, node_open>>

\* vop_ref_dec is over: the entry is free.
filemap_free(p) ==
  /\ pc[p].at \in {"free", "destroy_free"}
  /\ LET f == fs_struct[p] IN
       SetEntry(f, pc[p].fd, "FD_NONE", open_count[f][pc[p].fd], None)
  /\ At(p, IF pc[p].at = "free" THEN "user" ELSE "destroy", 0, None)
  /\ UNCHANGED <<fs_struct, fs_count, node_ref, node_open>>

-----------------------------------------------------------------------------
(* Opening: file_open and file_mkfifo.                                     *)

file_open(p) ==
  /\ Running(p)
  /\ \E d \in Fd :
     /\ IsFirst(d, Unused(fs_struct[p]))
     /\ SetEntry(fs_struct[p], d, "FD_INIT", open_count[fs_struct[p]][d], None)
     /\ At(p, "lookup", d, None)
  /\ UNCHANGED <<fs_struct, fs_count, node_ref, node_open>>

\* The path leads to n: vfs_open takes a reference and opens it.
vfs_open(p, n) ==
  /\ pc[p].at = "lookup" /\ node_ref[n] < MaxRef
  /\ node_ref' = [node_ref EXCEPT ![n] = @ + 1]
  /\ node_open' = [node_open EXCEPT ![n] = @ + 1]
  /\ At(p, "opened", pc[p].fd, n)
  /\ UNCHANGED <<fs_struct, fs_count, status, open_count, node>>

\* The lookup or vop_open fails, in file_open or in file_mkfifo.
vfs_open_fails(p) ==
  /\ pc[p].at = "lookup"
  /\ SetEntry(fs_struct[p], pc[p].fd, "FD_NONE", open_count[fs_struct[p]][pc[p].fd], None)
  /\ At(p, "user", 0, None)
  /\ UNCHANGED <<fs_struct, fs_count, node_ref, node_open>>

filemap_open(p) ==
  /\ pc[p].at = "opened"
  /\ SetEntry(fs_struct[p], pc[p].fd, "FD_OPENED",
              open_count[fs_struct[p]][pc[p].fd] + 1, pc[p].node)
  /\ At(p, "user", 0, None)
  /\ UNCHANGED <<fs_struct, fs_count, node_ref, node_open>>

\* vop_truncate or vop_fstat fails: the inode is closed again.
open_fails(p) ==
  /\ pc[p].at = "opened"
  /\ node_open' = [node_open EXCEPT ![pc[p].node] = @ - 1]
  /\ At(p, "close", pc[p].fd, pc[p].node)
  /\ UNCHANGED <<fs_struct, fs_count, status, open_count, node, node_ref>>

\* file_pipe takes two entries for two new inodes, or fails and frees them.
file_pipe(p, n1, n2) ==
  /\ Running(p)
  /\ n1 # n2 /\ node_ref[n1] = 0 /\ node_ref[n2] = 0
  /\ LET f == fs_struct[p] IN \E d1, d2 \in Fd :
     /\ IsFirst(d1, Unused(f)) /\ IsFirst(d2, Unused(f) \ {d1})
     /\ status' = [status EXCEPT ![f][d1] = "FD_OPENED", ![f][d2] = "FD_OPENED"]
     /\ open_count' = [open_count EXCEPT ![f][d1] = @ + 1, ![f][d2] = @ + 1]
     /\ node' = [node EXCEPT ![f][d1] = n1, ![f][d2] = n2]
  /\ node_ref' = [node_ref EXCEPT ![n1] = 1, ![n2] = 1]
  /\ node_open' = [node_open EXCEPT ![n1] = 1, ![n2] = 1]
  /\ UNCHANGED <<fs_struct, fs_count, pc>>

\* Fault: the copy takes no reference.
DupRefNone(ref, n, k) == ref

\* filemap_dup takes a reference for each copy, k of them here.
DupRef(ref, n, k) == ref + k

file_dup(p, d1, d2) ==
  /\ Running(p) /\ fd2file(p, d1) /\ d2 \in Unused(fs_struct[p])
  /\ LET f == fs_struct[p]
         n == node[f][d1] IN
     /\ node_ref[n] < MaxRef
     /\ SetEntry(f, d2, "FD_OPENED", open_count[f][d2] + 1, n)
     /\ node_ref' = [node_ref EXCEPT ![n] = DupRef(@, n, 1)]
     /\ node_open' = [node_open EXCEPT ![n] = @ + 1]
  /\ UNCHANGED <<fs_struct, fs_count, pc>>

-----------------------------------------------------------------------------
(* Using a file: file_read, file_write, file_seek and the others go into   *)
(* the file system between filemap_acquire and filemap_release.            *)

filemap_acquire(p, d) ==
  /\ Running(p) /\ fd2file(p, d)
  /\ open_count' = [open_count EXCEPT ![fs_struct[p]][d] = @ + 1]
  /\ At(p, "use", d, node[fs_struct[p]][d])
  /\ UNCHANGED <<fs_struct, fs_count, status, node, node_ref, node_open>>

filemap_release(p) ==
  /\ pc[p].at = "use"
  /\ LET f == fs_struct[p]
         d == pc[p].fd IN
       Drop(p, f, d, status[f][d], open_count[f][d] - 1, "close")

-----------------------------------------------------------------------------
(* Sharing, copying and giving up a table: copy_fs and put_fs.             *)

clone_fs(p, q) ==
  /\ Running(p) /\ fs_struct[q] = None
  /\ fs_struct' = [fs_struct EXCEPT ![q] = fs_struct[p]]
  /\ fs_count' = [fs_count EXCEPT ![fs_struct[p]] = @ + 1]
  /\ UNCHANGED <<status, open_count, node, node_ref, node_open, pc>>

\* The open entries: dup_fs copies them, and fs_destroy closes them.
Opened(f) == {d \in Fd : status[f][d] = "FD_OPENED"}

dup_fs(p, q, f) ==
  /\ Running(p) /\ fs_struct[q] = None
  /\ \A r \in Proc : fs_struct[r] # f
  /\ LET from == fs_struct[p]
         Of(n) == {d \in Opened(from) : node[from][d] = n} IN
     /\ \A n \in Node : node_ref[n] + Cardinality(Of(n)) <= MaxRef
     /\ status' = [status EXCEPT ![f] = [d \in Fd |->
                     IF d \in Opened(from) THEN "FD_OPENED" ELSE "FD_NONE"]]
     /\ open_count' = [open_count EXCEPT ![f] = [d \in Fd |->
                     IF d \in Opened(from) THEN 1 ELSE 0]]
     /\ node' = [node EXCEPT ![f] = [d \in Fd |->
                     IF d \in Opened(from) THEN node[from][d] ELSE None]]
     /\ node_ref' = [n \in Node |-> DupRef(node_ref[n], n, Cardinality(Of(n)))]
     /\ node_open' = [n \in Node |-> node_open[n] + Cardinality(Of(n))]
  /\ fs_struct' = [fs_struct EXCEPT ![q] = f]
  /\ fs_count' = [fs_count EXCEPT ![f] = 1]
  /\ UNCHANGED pc

IsLastUser(cnt) == cnt = 0

\* put_fs, in __do_exit.
put_fs(p) ==
  /\ Running(p)
  /\ fs_count' = [fs_count EXCEPT ![fs_struct[p]] = @ - 1]
  /\ IF IsLastUser(fs_count'[fs_struct[p]])
     THEN At(p, "destroy", 0, None) /\ UNCHANGED fs_struct
     ELSE fs_struct' = [fs_struct EXCEPT ![p] = None] /\ UNCHANGED pc
  /\ UNCHANGED <<status, open_count, node, node_ref, node_open>>

\* fs_destroy closes the open entries one after the other ...
fs_destroy(p) ==
  /\ pc[p].at = "destroy"
  /\ LET f == fs_struct[p] IN \E d \in Fd :
     /\ IsFirst(d, Opened(f))
     /\ Drop(p, f, d, "FD_CLOSED", open_count[f][d] - 1, "destroy_close")

\* ... and frees the table.
fs_destroyed(p) ==
  /\ pc[p].at = "destroy"
  /\ Opened(fs_struct[p]) = {}
  /\ fs_struct' = [fs_struct EXCEPT ![p] = None]
  /\ At(p, "user", 0, None)
  /\ UNCHANGED <<fs_count, status, open_count, node, node_ref, node_open>>

CallReturns(p) ==
  \/ (\E n \in Node : vfs_open(p, n)) \/ vfs_open_fails(p)
  \/ filemap_open(p) \/ open_fails(p) \/ filemap_release(p)
  \/ ref_dec(p) \/ filemap_free(p) \/ fs_destroy(p) \/ fs_destroyed(p)

TableNext == \E p \in Proc :
  \/ CallReturns(p) \/ file_open(p) \/ put_fs(p)
  \/ \E d \in Fd : file_close(p, d) \/ filemap_acquire(p, d)
  \/ \E d1, d2 \in Fd : file_dup(p, d1, d2)
  \/ \E n1, n2 \in Node : file_pipe(p, n1, n2)
  \/ \E q \in Proc : clone_fs(p, q) \/ \E f \in Fs : dup_fs(p, q, f)

TableSpec == TableInit /\ [][TableNext]_table_vars

\* A call that is in the file system comes back.
FairTableSpec == TableSpec /\ \A p \in Proc : WF_table_vars(CallReturns(p))

-----------------------------------------------------------------------------
TableTypeOK ==
  /\ fs_struct \in [Proc -> Fs \cup {None}]
  /\ fs_count \in [Fs -> 0..Cardinality(Proc)]
  /\ status \in [Fs -> [Fd -> {"FD_NONE", "FD_INIT", "FD_OPENED", "FD_CLOSED"}]]
  /\ open_count \in [Fs -> [Fd -> 0..(Cardinality(Proc) + 1)]]
  /\ node \in [Fs -> [Fd -> Node \cup {None}]]
  /\ node_ref \in [Node -> 0..MaxRef] /\ node_open \in [Node -> 0..MaxRef]
  /\ pc \in [Proc -> [at : {"user", "lookup", "opened", "use", "close", "free",
                            "destroy", "destroy_close", "destroy_free"},
                      fd : Fd, node : Node \cup {None}]]

\* The entries that hold n, and the processes that are closing n.
Holders(n) == {e \in Fs \X Fd : /\ node[e[1]][e[2]] = n
                                /\ \/ status[e[1]][e[2]] = "FD_OPENED"
                                   \/ status[e[1]][e[2]] = "FD_CLOSED" /\ open_count[e[1]][e[2]] > 0}
Opening(n) == {p \in Proc : pc[p].at = "opened" /\ pc[p].node = n}
Closing(n) == {p \in Proc : pc[p].at \in {"close", "destroy_close"} /\ pc[p].node = n}

(* The counts of an inode are exact, through shared and copied tables,     *)
(* opens that fail half way and calls that outlive the descriptor: no      *)
(* inode is reclaimed while an entry or a call has it, and none stays.     *)
NodeCountsExact ==
  \A n \in Node :
    /\ node_open[n] = Cardinality(Holders(n)) + Cardinality(Opening(n))
    /\ node_ref[n] = node_open[n] + Cardinality(Closing(n))

(* A call works on the inode it started with until it is over: other       *)
(* threads can close the descriptor meanwhile, but the entry is not used   *)
(* again and the inode stays open.                                         *)
CallKeepsFile ==
  \A p \in Proc : pc[p].at = "use" =>
    /\ node[fs_struct[p]][pc[p].fd] = pc[p].node
    /\ status[fs_struct[p]][pc[p].fd] \in {"FD_OPENED", "FD_CLOSED"}
    /\ node_open[pc[p].node] > 0

(* What the assertions of filemap_alloc, filemap_open, filemap_free and    *)
(* fs_destroy say: an entry that is free or being set up has nobody in it, *)
(* one that is being set up or torn down belongs to one process, and a     *)
(* table that is torn down to nobody else; one in use is not used again.   *)
EntriesOwned ==
  /\ CallKeepsFile
  /\ \A f \in Fs, d \in Fd :
       /\ status[f][d] \in {"FD_NONE", "FD_INIT"} => open_count[f][d] = 0
       /\ (status[f][d] = "FD_INIT" \/ (status[f][d] = "FD_CLOSED" /\ open_count[f][d] = 0)) =>
            Cardinality({p \in Proc : /\ fs_struct[p] = f /\ pc[p].fd = d
                                      /\ pc[p].at \notin {"user", "use", "destroy"}}) = 1
  /\ \A p \in Proc : pc[p].at = "destroy" =>
       /\ \A q \in Proc \ {p} : fs_struct[q] # fs_struct[p]
       /\ \A d \in Fd : status[fs_struct[p]][d] \in {"FD_NONE", "FD_OPENED"}

(* A descriptor that was closed becomes free again, and a process that     *)
(* takes its table down gets to the end of it.                             *)
ClosedIsFreed ==
  /\ \A f \in Fs, d \in Fd : (status[f][d] = "FD_CLOSED") ~> (status[f][d] = "FD_NONE")
  /\ \A p \in Proc : (pc[p].at = "destroy") ~> (fs_struct[p] = None)
=============================================================================
