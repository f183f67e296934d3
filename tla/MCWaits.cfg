SPECIFICATION WaitsSpec
CONSTANTS
  Thread = {p1, p2, p3}
  NoProc = NoProc
  Sigkill = FALSE
  Proc = {p1, p2}
  Sem = {s1}
  Table = {t1, t2}
  None = None
  MaxValue = 1
  MaxSlots = 1
  CopyFails = FALSE
  Timer = {}
  Times = {1}
  Byte = {x}
  PIPE_BUFSIZE = 2
  Wrap = 16
  MaxLen = 3
  MaxPos = 4
  Fs = {f1, f2}
  Node = {n1}
  FS_STRUCT_NENTRY = 2
  MaxRef = 3
CHECK_DEADLOCK FALSE
INVARIANT SlotsBounded
PROPERTIES LockGranted CallsEnd ClosesEnd
