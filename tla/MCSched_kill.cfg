SPECIFICATION FairSpec
CONSTANTS
  p1 = p1
  p2 = p2
  p3 = p3
  Proc = {p1, p2}
  Idle = Idle
  Group = {p1}
  Levels = 1
  MaxSlice <- MCSlice1
  Times = {1}
PROPERTY KilledExits
