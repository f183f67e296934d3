SPECIFICATION MCSpec
CONSTANTS
  Proc = {p1, p2, p3}
  Byte = {x, y}
  PIPE_BUFSIZE = 2
  Wrap = 16
  MaxLen = 3
  MaxPos = 5
  Fs = {f1, f2}
  Node = {n1, n2}
  None = None
  FS_STRUCT_NENTRY = 2
  MaxRef = 4
SYMMETRY MCSymmetry
CHECK_DEADLOCK FALSE
INVARIANTS SleepersMustSleep NodeCountsExact EntriesOwned
PROPERTY Stream
