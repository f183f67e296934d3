SPECIFICATION MCSpec
CONSTANTS
  Thread = {p1, p2, p3}
  NoProc = NoProc
  Sigkill = TRUE
  Proc = {p1, p2}
  Sem = {s1}
  Table = {t1, t2}
  None = None
  MaxValue = 1
  MaxSlots = 1
  CopyFails = FALSE
  Timer = {}
  Times = {1}
CHECK_DEADLOCK FALSE
INVARIANT DownNotInterrupted
