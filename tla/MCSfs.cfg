SPECIFICATION MCSpec
CONSTANTS
  NBlocks = 8
  SFS_NDIRECT = 1
  SFS_BLK_NENTRY = 1
  SFS_BLKSIZE = 1
  SFS_MAX_FILE_SIZE = 1
  Names = {"a", "b"}
  Handle = {1}
  Lens = {}
  MaxInodes = 3
  MaxSkip = 1
  FileBlocks = 12
CHECK_DEADLOCK FALSE
INVARIANTS  NamesExact 
