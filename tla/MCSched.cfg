SPECIFICATION Spec
CONSTANTS
  p1 = p1
  p2 = p2
  p3 = p3
  Proc = {p1, p2, p3}
  Idle = Idle
  Group = {p1, p2, p3}
  Levels = 2
  MaxSlice <- MCSlice2
  Times = {1}
SYMMETRY MCSymmetry
INVARIANTS RunQueueExact SleepersAreHeld NoDanglingTimer SlicesInBounds
PROPERTY StateDiagram
