SPECIFICATION MCSpec
CONSTANTS
  MAX_PID = 8
  MAX_PROCESS = 5
  lcpu_count = 1
  Proc = {init, a, b, c}
  initproc = init
  None = None
  AnyChild = AnyChild
  Thread = {t, u}
  Outside = Outside
  Masks <- MCMasks
  Actions <- MCActions
  Signals = {10}
  MaxFrames = 1
  MaxCalls = 1
  Parts = {"life"}
SYMMETRY MCSymmetry
CHECK_DEADLOCK FALSE
INVARIANT AllQuit
