SPECIFICATION MCSpec
CONSTANTS
  Thread = {p1, p2, p3}
  NoProc = NoProc
  Sigkill = TRUE
  Proc = {p1, p2, p3}
  Sem = {s1}
  Table = {t1, t2, t3}
  None = None
  MaxValue = 1
  MaxSlots = 1
  CopyFails = TRUE
  Timer = {tm1, tm2, tm3, tm4}
  Times = {1, 2, 3}
SYMMETRY MCSymmetry
CHECK_DEADLOCK FALSE
INVARIANTS LockExact MailboxExact MemoryHeld PostsExact EventsExact
PROPERTIES Exclusive Implements
