------------------------------- MODULE MCSfs --------------------------------
(***************************************************************************)
(* The Simple File System for TLC, on two small disks, one of which a      *)
(* behaviour is about: one where directories change ("dirs"), and one with *)
(* a file that two openers change and that grows to its double indirect    *)
(* block ("file").                                                         *)
(***************************************************************************)
EXTENDS Sfs

CONSTANT FileBlocks  \* NBlocks of the second disk

ASSUME DisksAssumption == NBlocks > 3 /\ FileBlocks > 3

VARIABLE disk

all_vars == <<disk, vars>>

File == INSTANCE Sfs
  WITH NBlocks <- FileBlocks, SFS_NDIRECT <- 1, SFS_BLK_NENTRY <- 2,
       SFS_BLKSIZE <- 1, SFS_MAX_FILE_SIZE <- 4, Lens <- {1, 2},
       Names <- {"a"}, Handle <- {1, 2}, MaxInodes <- 2, MaxSkip <- 1

MCInit == \/ disk = "dirs" /\ Init
          \/ disk = "file" /\ File!Init
MCNext == \/ disk = "dirs" /\ Next /\ UNCHANGED disk
          \/ disk = "file" /\ File!Next /\ UNCHANGED disk
MCSpec == MCInit /\ [][MCNext]_all_vars

-----------------------------------------------------------------------------
\* sfs_block_alloc and sfs_block_free: every block is free or has one use.
DiskExact == /\ disk = "dirs" => BlocksExact
             /\ disk = "file" => File!BlocksExact

\* nlinks, slots and parent agree with the entries (sfs_dirent_link_nolock,
\* sfs_dirent_unlink_nolock, sfs_mkdir, sfs_rename).
NamesExact == disk = "dirs" => LinksExact

\* sfs_reclaim loses no change of an inode: one that is not dirty is on disk.
InodesKept == /\ disk = "dirs" => DirtyExact
              /\ disk = "file" => File!DirtyExact
=============================================================================
