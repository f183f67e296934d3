-------------------------------- MODULE Sfs ---------------------------------
(***************************************************************************)
(* The Simple File System, fs/sfs: the block map of an inode with its      *)
(* indirect blocks, directories, link counts, and the inodes in memory     *)
(* with the references to them.  disk0 polls its device and panics when it *)
(* fails, so that no operation sleeps or sees an I/O error; what can fail  *)
(* is sfs_block_alloc, on a full disk.  An operation works on the file     *)
(* system as a record k and returns the next one.                          *)
(*                                                                         *)
(* Not modelled: what files contain (tab and ent hold what index blocks    *)
(* and directory entries contain), kmalloc failing, and the flushing of    *)
(* the superblock and the free map at unmount.                             *)
(***************************************************************************)
EXTENDS Integers, Sequences, FiniteSets, FiniteSetsExt, SequencesExt

CONSTANTS
  NBlocks,         \* super.blocks
  SFS_NDIRECT,
  SFS_BLK_NENTRY,
  SFS_BLKSIZE,
  SFS_MAX_FILE_SIZE,
  Names,           \* of directory entries
  Handle,          \* open files and current directories
  Lens,            \* the lengths of writes
  MaxInodes,       \* how many inodes there may be, the root included
  MaxSkip          \* how many blocks past the end of a file a seek may go

VARIABLES
  free,   \* the blocks that freemap has free
  sin,    \* sin[i]: the inode i in memory, sin[i].ref = 0 when it is not
  dino,   \* dino[i]: the inode that block i of the disk holds
  tab,    \* tab[b]: the entries of block b, an index block
  ent,    \* ent[b]: the directory entry in block b
  hold,   \* hold[h]: the inode of handle h and its position, or inode 0
  panic

vars == <<free, sin, dino, tab, ent, hold, panic>>

SFS_BLKN_ROOT == 1
Block == 0..NBlocks - 1
Reserved == {0, SFS_BLKN_ROOT, 2}  \* the superblock, the root, the free map

NoInode == [type |-> "none", nlinks |-> 0, blocks |-> 0, size |-> 0, slots |-> 0,
            parent |-> 0, direct |-> [k \in 0..SFS_NDIRECT - 1 |-> 0],
            indirect |-> 0, db_indirect |-> 0]
NoSin == [din |-> NoInode, dirty |-> FALSE, removed |-> FALSE, ref |-> 0]
NoTable == [k \in 0..SFS_BLK_NENTRY - 1 |-> 0]
NoEntry == [ino |-> 0, name |-> ""]
Closed == [ino |-> 0, pos |-> 0]

\* The file system that mksfs makes, with the root held by vfs_set_bootfs.
RootInode == [NoInode EXCEPT !.type = "dir", !.nlinks = 2, !.parent = SFS_BLKN_ROOT]
Init ==
  /\ free = Block \ Reserved
  /\ dino = [b \in Block |-> IF b = SFS_BLKN_ROOT THEN RootInode ELSE NoInode]
  /\ sin = [b \in Block |-> IF b = SFS_BLKN_ROOT
              THEN [NoSin EXCEPT !.din = RootInode, !.ref = 1] ELSE NoSin]
  /\ tab = [b \in Block |-> NoTable]
  /\ ent = [b \in Block |-> NoEntry]
  /\ hold = [h \in Handle |-> Closed]
  /\ panic = FALSE

State == [free |-> free, sin |-> sin, dino |-> dino, tab |-> tab, ent |-> ent,
          panic |-> panic]
Become(k) == /\ free' = k.free /\ sin' = k.sin /\ dino' = k.dino
             /\ tab' = k.tab /\ ent' = k.ent /\ panic' = k.panic

\* What an operation returns: the next file system, with a block and perhaps
\* the index block that leads to it; Op follows where it succeeds.
Got(k, b) == [ok |-> TRUE, k |-> k, ino |-> b, index |-> 0]
Failed(k) == [ok |-> FALSE, k |-> k, ino |-> 0, index |-> 0]
Then(r, Op(_)) == IF r.ok THEN Op(r) ELSE r
Check(k, c) == [k EXCEPT !.panic = @ \/ ~c]
Times(n) == [j \in 1..n |-> j]

-----------------------------------------------------------------------------
\* Blocks.  bitmap_alloc takes the first free bit; sfs_clear_block.
Cleared(k, b) == [k EXCEPT !.dino[b] = NoInode, !.tab[b] = NoTable, !.ent[b] = NoEntry]
sfs_block_alloc(k) ==
  IF k.free = {} THEN Failed(k)
  ELSE LET b == Min(k.free) IN Got(Cleared([k EXCEPT !.free = @ \ {b}], b), b)

\* A free block is shown cleared: it is cleared before it is used again.
sfs_block_free(k, b) ==
  Cleared([Check(k, b # 0 /\ b \notin k.free) EXCEPT !.free = @ \cup {b}], b)

\* Fault: the new index block stays allocated when there is none for its entry.
KeepsTable(k, e, new) == k

\* sfs_bmap_get_sub_nolock at failed_cleanup.
failed_cleanup(k, e, new) == IF new THEN sfs_block_free(k, e) ELSE k

\* sfs_bmap_get_sub_nolock with create: entry j of the index block e, or of a
\* new one.
new_entry(b, e, j, new) ==
  IF b.ok THEN [b EXCEPT !.k.tab[e][j] = b.ino, !.index = e]
  ELSE Failed(failed_cleanup(b.k, e, new))
bmap_create_sub(k, e, j) ==
  IF e # 0 /\ k.tab[e][j] # 0 THEN [Got(k, k.tab[e][j]) EXCEPT !.index = e]
  ELSE Then(IF e # 0 THEN Got(k, e) ELSE sfs_block_alloc(k),
            LAMBDA a : new_entry(sfs_block_alloc(a.k), a.ino, j, e = 0))

\* sfs_bmap_get_nolock without create: block j of inode d, or 0.
Sub(k, e, j) == IF e = 0 THEN 0 ELSE k.tab[e][j]
bmap_get(k, d, j) ==
  LET n == j - SFS_NDIRECT  m == n - SFS_BLK_NENTRY
  IN IF n < 0 THEN d.direct[j]
     ELSE IF m < 0 THEN Sub(k, d.indirect, n)
     ELSE Sub(k, Sub(k, d.db_indirect, m \div SFS_BLK_NENTRY), m % SFS_BLK_NENTRY)

\* sfs_bmap_get_nolock with create; each sets dirty where the inode changes.
create_direct(k, i, j) ==
  IF k.sin[i].din.direct[j] # 0 THEN Got(k, k.sin[i].din.direct[j])
  ELSE Then(sfs_block_alloc(k), LAMBDA b :
         [b EXCEPT !.k.sin[i].din.direct[j] = b.ino, !.k.sin[i].dirty = TRUE])
create_indirect(k, i, n) ==
  Then(bmap_create_sub(k, k.sin[i].din.indirect, n), LAMBDA b :
    [b EXCEPT !.k.sin[i].dirty = @ \/ b.index # k.sin[i].din.indirect,
              !.k.sin[i].din.indirect = b.index])
create_db_indirect(k, i, m) ==
  Then(bmap_create_sub(k, k.sin[i].din.db_indirect, m \div SFS_BLK_NENTRY), LAMBDA e :
    bmap_create_sub(
      [e.k EXCEPT !.sin[i].dirty = @ \/ e.index # k.sin[i].din.db_indirect,
                  !.sin[i].din.db_indirect = e.index],
      e.ino, m % SFS_BLK_NENTRY))
bmap_create(k, i, j) ==
  LET n == j - SFS_NDIRECT  m == n - SFS_BLK_NENTRY
  IN IF n < 0 THEN create_direct(k, i, j)
     ELSE IF m < 0 THEN create_indirect(k, i, n) ELSE create_db_indirect(k, i, m)

\* sfs_bmap_load_nolock: block j of inode i, a new one if j is their number.
sfs_bmap_load(k, i, j) ==
  LET d == k.sin[i].din
  IN IF j > d.blocks THEN Failed(Check(k, FALSE))
     ELSE IF j < d.blocks
     THEN Got(Check(k, bmap_get(k, d, j) \notin k.free \cup {0}), bmap_get(k, d, j))
     ELSE Then(bmap_create(k, i, j), LAMBDA b : [b EXCEPT !.k.sin[i].din.blocks = @ + 1])

\* sfs_bmap_free_sub_nolock.
bmap_free_sub(k, e, j) ==
  IF Sub(k, e, j) = 0 THEN k
  ELSE sfs_block_free([k EXCEPT !.tab[e][j] = 0], k.tab[e][j])

\* sfs_bmap_free_nolock.
bmap_free(k, i, j) ==
  LET d == k.sin[i].din
      n == j - SFS_NDIRECT  m == n - SFS_BLK_NENTRY
  IN IF n < 0
     THEN IF d.direct[j] = 0 THEN k
          ELSE [sfs_block_free(k, d.direct[j]) EXCEPT !.sin[i].din.direct[j] = 0]
     ELSE IF m < 0 THEN bmap_free_sub(k, d.indirect, n)
     ELSE bmap_free_sub(k, Sub(k, d.db_indirect, m \div SFS_BLK_NENTRY), m % SFS_BLK_NENTRY)

\* sfs_bmap_truncate_nolock, n times: the last block goes.
sfs_bmap_truncate(k, i, n) ==
  FoldLeft(LAMBDA acc, x : [bmap_free(acc, i, acc.sin[i].din.blocks - 1)
             EXCEPT !.sin[i].din.blocks = @ - 1, !.sin[i].dirty = TRUE],
           k, Times(n))

-----------------------------------------------------------------------------
\* Inodes in memory.  sfs_load_inode.  Where the block does not hold an inode
\* any more (see chdir_parent) the model ends with the assertions; what the
\* code makes of other contents is not modelled.
sfs_load_inode(k, i) ==
  IF k.sin[i].ref > 0 THEN [k EXCEPT !.sin[i].ref = @ + 1]
  ELSE [Check(k, i \notin k.free /\ k.dino[i].nlinks # 0)
          EXCEPT !.sin[i] = [NoSin EXCEPT !.din = k.dino[i], !.ref = 1]]

\* sfs_fsync.
sfs_fsync(k, i) ==
  LET s == k.sin[i]
  IN IF s.din.nlinks = 0 \/ ~s.dirty \/ s.removed THEN k
     ELSE [k EXCEPT !.dino[i] = s.din, !.sin[i].dirty = FALSE]

\* sfs_reclaim: the index blocks of an inode without links.
free_indirect(k, d) == IF d.indirect = 0 THEN k ELSE sfs_block_free(k, d.indirect)
free_db_indirect(k, d) ==
  IF d.db_indirect = 0 THEN k
  ELSE sfs_block_free(
         FoldLeft(LAMBDA acc, j : bmap_free_sub(acc, d.db_indirect, j - 1),
                  k, Times(SFS_BLK_NENTRY)), d.db_indirect)

\* sfs_reclaim.
sfs_reclaim(k, i) ==
  LET d == k.sin[i].din
  IN [(IF d.nlinks # 0 THEN sfs_fsync(k, i)
       ELSE free_db_indirect(free_indirect(
              sfs_block_free(sfs_bmap_truncate(k, i, d.blocks), i), d), d))
        EXCEPT !.sin[i] = NoSin]

\* vop_ref_dec.
ref_dec(k, i) ==
  IF k.sin[i].ref > 1 THEN [k EXCEPT !.sin[i].ref = @ - 1]
  ELSE sfs_reclaim([k EXCEPT !.sin[i].ref = 0], i)

-----------------------------------------------------------------------------
\* Files.  sfs_truncfile, and with it sfs_tryseek past the end.
ROUNDUP_DIV(n) == (n + SFS_BLKSIZE - 1) \div SFS_BLKSIZE
grow(k, i, n) ==
  FoldLeft(LAMBDA acc, x : Then(acc, LAMBDA r :
             sfs_bmap_load(r.k, i, r.k.sin[i].din.blocks)), Got(k, 0), Times(n))
sfs_truncfile(k, i, len) ==
  LET d == k.sin[i].din
      tblks == ROUNDUP_DIV(len)
  IN IF d.size = len THEN Got(Check(k, tblks = d.blocks), 0)
     ELSE Then(IF d.blocks < tblks THEN grow(k, i, tblks - d.blocks)
               ELSE Got(sfs_bmap_truncate(k, i, d.blocks - tblks), 0),
               LAMBDA r : [r EXCEPT !.k.sin[i].din.size = len, !.k.sin[i].dirty = TRUE])

\* sfs_io_nolock, writing: the blocks from offset to endpos until one is
\* missing.  The result has the number of bytes.
write_block(r, offset, endpos, i, blkno) ==
  LET b == sfs_bmap_load(r.k, i, blkno)
  IN [ok |-> b.ok, k |-> b.k,
      alen |-> IF b.ok THEN Min({endpos, (blkno + 1) * SFS_BLKSIZE}) - offset ELSE r.alen]
write_end(r, offset, i) ==
  IF offset + r.alen <= r.k.sin[i].din.size THEN r
  ELSE [r EXCEPT !.k.sin[i].din.size = offset + r.alen, !.k.sin[i].dirty = TRUE]
sfs_io(k, i, offset, n) ==
  LET endpos == Min({offset + n, SFS_MAX_FILE_SIZE})
      blkno == offset \div SFS_BLKSIZE
      Write(acc, x) == Then(acc, LAMBDA r : write_block(r, offset, endpos, i, blkno + x - 1))
  IN write_end(FoldLeft(Write, [ok |-> TRUE, k |-> k, alen |-> 0],
                        Times((endpos - 1) \div SFS_BLKSIZE - blkno + 1)), offset, i)

-----------------------------------------------------------------------------
\* Directories.  An entry takes a block; sfs_dirent_read_nolock.
Entry(k, d, j) == k.ent[bmap_get(k, d, j)]
Slots(d) == 0..d.blocks - 1

\* sfs_dirent_search_nolock: the slot of a name, and the last empty slot, or
\* the end, when the name is not there.
Named(k, i, name) == \E j \in Slots(k.sin[i].din) :
  LET e == Entry(k, k.sin[i].din, j) IN e.ino # 0 /\ e.name = name
Slot(k, i, name) == CHOOSE j \in Slots(k.sin[i].din) :
  LET e == Entry(k, k.sin[i].din, j) IN e.ino # 0 /\ e.name = name
Ino(k, i, name) == Entry(k, k.sin[i].din, Slot(k, i, name)).ino
EmptySlot(k, i) ==
  LET d == k.sin[i].din
      empty == {j \in Slots(d) : Entry(k, d, j).ino = 0}
  IN IF empty = {} THEN d.blocks ELSE Max(empty)

\* sfs_dirent_write_nolock.
sfs_dirent_write(k, i, slot, ino, name) ==
  Then(sfs_bmap_load(k, i, slot), LAMBDA b :
    [b EXCEPT !.k.ent[b.ino] = [ino |-> ino, name |-> name]])

\* Fault: the inode is not marked as dirty.
LinksQuietly(k, i, n) == [k EXCEPT !.sin[i].din.nlinks = @ + n]

\* sfs_nlinks_inc_nolock and sfs_nlinks_dec_nolock.
Links(k, i, n) == [k EXCEPT !.sin[i].din.nlinks = @ + n, !.sin[i].dirty = TRUE]

\* sfs_dirent_link_nolock and sfs_dirent_unlink_nolock; the entry to unlink is
\* there, so that writing it does not fail.
Uses(k, i, n) == [k EXCEPT !.sin[i].din.slots = @ + n, !.sin[i].dirty = TRUE]
sfs_dirent_link(k, i, slot, l, name) ==
  Then(sfs_dirent_write(k, i, slot, l, name), LAMBDA w :
    [w EXCEPT !.k = Links(Uses(@, i, 1), l, 1)])
sfs_dirent_unlink(k, i, slot, l) ==
  Links(Uses(sfs_dirent_write(k, i, slot, 0, "").k, i, -1), l, -1)

\* sfs_dirent_create_inode, and the link to it: if it fails the inode, which
\* has no links, goes.
sfs_dirent_create_inode(k, type) ==
  Then(sfs_block_alloc(k), LAMBDA b :
    [b EXCEPT !.k.sin[b.ino] = [NoSin EXCEPT !.din.type = type, !.ref = 1]])
keep_or_drop(l, new) == IF l.ok THEN Got(l.k, new) ELSE Failed(ref_dec(l.k, new))
create_named(k, i, name, type) ==
  Then(sfs_dirent_create_inode(k, type), LAMBDA b :
    keep_or_drop(sfs_dirent_link(b.k, i, EmptySlot(k, i), b.ino, name), b.ino))

\* sfs_load_inode of a file by its name, with a reference; -E_EXISTS or
\* -E_ISDIR for a directory.
open_named(k, i, name) ==
  LET l == Ino(k, i, name)
  IN IF sfs_load_inode(k, l).sin[l].din.type = "file" THEN Got(sfs_load_inode(k, l), l)
     ELSE Failed(k)

\* sfs_create_nolock.
sfs_create(k, i, name) ==
  IF Named(k, i, name) THEN open_named(k, i, name) ELSE create_named(k, i, name, "file")

\* sfs_mkdir_nolock: the parent, the link '.' and the link '..'.
set_parent(k, i, l) == Links(Links([k EXCEPT !.sin[l].din.parent = i], l, 1), i, 1)
mkdir_end(r, i) == IF r.ok THEN ref_dec(set_parent(r.k, i, r.ino), r.ino) ELSE r.k
sfs_mkdir(k, i, name) ==
  IF Named(k, i, name) THEN k ELSE mkdir_end(create_named(k, i, name, "dir"), i)

\* sfs_link_nolock, for the file l.
sfs_link(k, i, name, l) ==
  IF Named(k, i, name) THEN k ELSE sfs_dirent_link(k, i, EmptySlot(k, i), l, name).k

\* sfs_unlink_nolock; k has the inode l of the name.
removed(k, i, l) == [Links(Links(k, l, -1), i, -1) EXCEPT !.sin[l].removed = TRUE]
unlink_inode(k, i, slot, l) ==
  LET isdir == k.sin[l].din.type = "dir"
      out == sfs_dirent_unlink(k, i, slot, l)
  IN IF isdir /\ k.sin[l].din.slots # 0 THEN k
     ELSE IF isdir THEN removed(out, i, l) ELSE out
sfs_unlink(k, i, name) ==
  LET l == Ino(k, i, name)
  IN IF ~Named(k, i, name) THEN k
     ELSE ref_dec(unlink_inode(sfs_load_inode(k, l), i, Slot(k, i, name), l), l)

\* sfs_rename1_nolock.
sfs_rename1(k, i, name, new_name) ==
  IF name = new_name \/ ~Named(k, i, name) \/ Named(k, i, new_name) THEN k
  ELSE sfs_dirent_write(k, i, Slot(k, i, name), Ino(k, i, name), new_name).k

\* Fault: when the new link fails the old one is lost.
NoRecovery(k, i, slot, l, name, isdir) == k

\* sfs_rename2_nolock when the new link fails: the slot is there.
recover(k, i, slot, l, name, isdir) ==
  Links(sfs_dirent_link(k, i, slot, l, name).k, i, isdir)

\* sfs_rename2_nolock, from i to the directory n; k has the inode l, and isdir
\* is 1 if it is a directory.
new_parent(k, n, l, isdir) ==
  IF isdir = 0 THEN k ELSE [Links(k, n, 1) EXCEPT !.sin[l].din.parent = n]
rename_end(r, i, slot, name, n, l, isdir) ==
  IF r.ok THEN new_parent(r.k, n, l, isdir) ELSE recover(r.k, i, slot, l, name, isdir)
move(k, i, slot, name, n, new_name, l, isdir) ==
  rename_end(
    sfs_dirent_link(Links(sfs_dirent_unlink(k, i, slot, l), i, -isdir),
                    n, EmptySlot(k, n), l, new_name),
    i, slot, name, n, l, isdir)
sfs_rename2(k, i, name, n, new_name) ==
  LET l == Ino(k, i, name)
      in == sfs_load_inode(k, l)
  IN IF ~Named(k, i, name) \/ Named(k, n, new_name) THEN k
     ELSE ref_dec(move(in, i, Slot(k, i, name), name, n, new_name, l,
                       IF in.sin[l].din.type = "dir" THEN 1 ELSE 0), l)

-----------------------------------------------------------------------------
\* The operations of the VFS.  A path starts at the root or at a current
\* directory and leads through entries; the lookups on the way hold no inode
\* when they are done.
Din(i) == IF sin[i].ref > 0 THEN sin[i].din ELSE dino[i]
Exists(i) == sin[i].ref > 0 \/ dino[i].nlinks # 0
Inodes == {i \in Block : Exists(i)}
IsDir(i) == Din(i).type = "dir"
Entries(i) == {e \in {Entry(State, Din(i), j) : j \in Slots(Din(i))} : e.ino # 0}
Below(D) == D \cup {e.ino : e \in UNION {Entries(i) : i \in D}}
Held == {hold[h].ino : h \in Handle} \ {0}
Dirs ==
  LET Onward(D, j) == {i \in Below(D) : IsDir(i)}
  IN FoldLeft(Onward, {SFS_BLKN_ROOT} \cup {i \in Held : IsDir(i)}, Times(MaxInodes))

\* trylock_sin.
trylock_sin(i) == ~sin[i].removed

\* The directory d of a path is in memory.
sfs_lookup_parent(d) == sfs_load_inode(State, d)

\* An operation on the directory d is over, with a state of ends; without the
\* lock it returns -E_NOENT.
InDir(d, ends) == ~panic /\ trylock_sin(d) /\ \E k \in ends : Become(ref_dec(k, d))

\* vfs_open with O_CREAT or without it, and with O_TRUNC or without it, of a
\* file.  O_EXCL adds only the error for a name that is there.
opened(k, d, name, creat) ==
  IF creat THEN sfs_create(k, d, name)
  ELSE IF Named(k, d, name) THEN open_named(k, d, name) ELSE Failed(k)
trunc_opened(k, i, trunc) == IF trunc THEN sfs_truncfile(k, i, 0).k ELSE k
open_end(r, h, trunc) ==
  /\ Become(IF r.ok THEN trunc_opened(r.k, r.ino, trunc) ELSE r.k)
  /\ hold' = IF r.ok THEN [hold EXCEPT ![h] = [ino |-> r.ino, pos |-> 0]] ELSE hold
vfs_open(h, d, name, creat, trunc) ==
  /\ ~panic /\ hold[h] = Closed /\ trylock_sin(d)
  /\ \E r \in {opened(sfs_load_inode(State, d), d, name, creat)} :
       open_end([r EXCEPT !.k = ref_dec(@, d)], h, trunc)

\* vfs_close: inode_open_dec syncs the file that nobody has open, ref_dec; or
\* vfs_set_curdir away from a directory.
vfs_close(h) ==
  LET i == hold[h].ino
      last == ~IsDir(i) /\ \A g \in Handle \ {h} : hold[g].ino # i
  IN /\ ~panic /\ i # 0
     /\ Become(ref_dec(IF last THEN sfs_fsync(State, i) ELSE State, i))
     /\ hold' = [hold EXCEPT ![h] = Closed]

\* vfs_chdir to a subdirectory.
vfs_chdir(h, d, name) ==
  LET k == sfs_load_inode(State, d)
      l == Ino(k, d, name)
  IN /\ ~panic /\ hold[h] = Closed /\ trylock_sin(d)
     /\ Named(k, d, name) /\ IsDir(l)
     /\ Become(ref_dec(sfs_load_inode(k, l), d))
     /\ hold' = [hold EXCEPT ![h].ino = l]

\* vfs_chdir to '..', sfs_load_parent.  A removed directory still has the number
\* of its parent, which may be gone, too.
chdir_parent(h) ==
  LET i == hold[h].ino  p == sin[i].din.parent
  IN /\ ~panic /\ i # 0 /\ IsDir(i)
     /\ Become(ref_dec(sfs_load_inode(State, p), i))
     /\ hold' = [hold EXCEPT ![h].ino = p]

\* file_write.
file_write(h, n) ==
  /\ ~panic /\ hold[h].ino # 0 /\ ~IsDir(hold[h].ino) /\ hold[h].pos < SFS_MAX_FILE_SIZE
  /\ \E r \in {sfs_io(State, hold[h].ino, hold[h].pos, n)} :
       Become(r.k) /\ hold' = [hold EXCEPT ![h].pos = @ + r.alen]

\* file_seek with sfs_tryseek.
sfs_tryseek(k, i, pos) == IF pos > k.sin[i].din.size THEN sfs_truncfile(k, i, pos) ELSE Got(k, 0)
file_seek(h, pos) ==
  /\ ~panic /\ hold[h].ino # 0 /\ ~IsDir(hold[h].ino) /\ pos < SFS_MAX_FILE_SIZE
  /\ ROUNDUP_DIV(pos) <= sin[hold[h].ino].din.blocks + MaxSkip
  /\ \E r \in {sfs_tryseek(State, hold[h].ino, pos)} :
       Become(r.k) /\ hold' = IF r.ok THEN [hold EXCEPT ![h].pos = pos] ELSE hold

vfs_mkdir(d, name) == /\ InDir(d, {sfs_mkdir(sfs_lookup_parent(d), d, name)})
                      /\ UNCHANGED hold

\* vfs_unlink.  To unlink a directory that was renamed into itself is to wait
\* for ever for a lock that the caller has: no step.
vfs_unlink(d, name) ==
  /\ \A e \in Entries(d) : e.name = name => e.ino # d
  /\ InDir(d, {sfs_unlink(sfs_lookup_parent(d), d, name)})
  /\ UNCHANGED hold

\* vfs_link, of a file that is open or not.
vfs_link(d, name, l) ==
  /\ ~IsDir(l)
  /\ InDir(d, {ref_dec(sfs_link(sfs_load_inode(sfs_lookup_parent(d), l), d, name, l), l)})
  /\ UNCHANGED hold

\* vfs_rename, sfs_rename.
vfs_rename(d, name, n, new_name) ==
  /\ trylock_sin(n)
  /\ LET k == sfs_lookup_parent(d) IN
     InDir(d, {IF d = n THEN sfs_rename1(k, d, name, new_name)
               ELSE ref_dec(sfs_rename2(sfs_load_inode(k, n), d, name, n, new_name), n)})
  /\ UNCHANGED hold

\* sfs_sync, without the superblock and the free map.
sfs_sync == /\ ~panic
            /\ Become(FoldSet(LAMBDA i, k : sfs_fsync(k, i), State, Block))
            /\ UNCHANGED hold

Next ==
  \/ \E d \in Dirs, name \in Names :
       \/ Cardinality(Inodes) < MaxInodes /\ vfs_mkdir(d, name)
       \/ vfs_unlink(d, name)
       \/ \E h \in Handle : \/ vfs_chdir(h, d, name)
                            \/ \E trunc \in BOOLEAN :
                                 \/ vfs_open(h, d, name, FALSE, trunc)
                                 \/ /\ Cardinality(Inodes) < MaxInodes
                                    /\ vfs_open(h, d, name, TRUE, trunc)
       \/ \E i \in Dirs : \E e \in Entries(i) : vfs_link(d, name, e.ino)
       \/ \E n \in Dirs, new_name \in Names : vfs_rename(d, name, n, new_name)
  \/ \E h \in Handle : \/ vfs_close(h) \/ chdir_parent(h)
                       \/ \E n \in Lens : file_write(h, n)
                       \/ \E pos \in 0..SFS_MAX_FILE_SIZE : file_seek(h, pos)
  \/ sfs_sync

Spec == Init /\ [][Next]_vars

-----------------------------------------------------------------------------
\* The blocks of inode i, each with what it is used for.
BlocksOf(i) ==
  LET d == Din(i)
      T(e) == IF e = 0 THEN NoTable ELSE tab[e]
  IN {<<b, u>> \in
       {<<i, <<"inode">>>>, <<d.indirect, <<"indirect">>>>,
        <<d.db_indirect, <<"db_indirect">>>>}
       \cup {<<d.direct[j], <<"direct", j>>>> : j \in DOMAIN d.direct}
       \cup {<<T(d.indirect)[j], <<"indirect", j>>>> : j \in DOMAIN NoTable}
       \cup {<<T(d.db_indirect)[j], <<"db", j>>>> : j \in DOMAIN NoTable}
       \cup {<<T(T(d.db_indirect)[j])[x], <<"db", j, x>>>> : j, x \in DOMAIN NoTable}
      : b # 0}

\* Every block is free or has one use in one inode: sfs_block_alloc and
\* sfs_block_free are matched on every path, the failures on a full disk
\* (failed_cleanup, sfs_create_nolock, sfs_mkdir_nolock) and the deletion of
\* a file that is still open included.  No block leaks and none is shared.
BlocksExact ==
  ~panic =>
    LET uses == UNION {{<<i, u>> : u \in BlocksOf(i)} : i \in Inodes}
        used == {u[2][1] : u \in uses}
    IN /\ used = (Block \ {0, 2}) \ free
       /\ Cardinality(uses) = Cardinality(used)

\* The entries that name inode i: directory and slot.
NamedBy(i) == UNION {{<<d, j>> : j \in {j \in Slots(Din(d)) : Entry(State, Din(d), j).ino = i}}
                       : d \in {d \in Inodes : IsDir(d)}}

\* The counts of an inode agree with the directories: nlinks is the number of
\* entries that name it, for a directory with '.' and the '..' of its
\* subdirectories; slots is the number of entries in use; a directory has one
\* name, in its parent.  rename, with its recovery on a full disk, and unlink
\* of a directory that is somebody's current directory keep this.
LinksExact ==
  ~panic => \A i \in Inodes :
    LET d == Din(i)
        sub == {c \in Inodes : IsDir(c) /\ ~sin[c].removed /\ Din(c).parent = i}
    IN /\ d.nlinks = Cardinality(NamedBy(i))
                     + (IF IsDir(i) /\ ~sin[i].removed THEN 1 + Cardinality(sub) ELSE 0)
       /\ IsDir(i) => d.slots = Cardinality({j \in Slots(d) : Entry(State, d, j).ino # 0})
       /\ IsDir(i) /\ ~sin[i].removed /\ i # SFS_BLKN_ROOT =>
            \E j \in Slots(Din(d.parent)) : NamedBy(i) = {<<d.parent, j>>}
       /\ \A e \in Entries(i) : IsDir(i) => e.ino \in Inodes

\* dirty is "true if inode modified" (sfs.h): an inode that is not dirty is on
\* the disk as it is in memory, so that sfs_reclaim loses no change.
DirtyExact ==
  ~panic => \A i \in Inodes :
    sin[i].ref > 0 /\ ~sin[i].dirty /\ sin[i].din.nlinks # 0 => dino[i] = sin[i].din

\* The assertions of sfs_inode.c hold.
NoPanic == ~panic
=============================================================================
