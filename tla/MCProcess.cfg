SPECIFICATION MCSpec
CONSTANTS
  MAX_PID = 8
  MAX_PROCESS = 5
  lcpu_count = 1
  Proc = {init, a, b, c}
  initproc = init
  None = None
  AnyChild = AnyChild
  Thread = {t, u}
  Outside = Outside
  Masks <- MCMasks
  Actions <- MCActions
  Signals = {10, 18, 19}
  MaxFrames = 1
  MaxCalls = 4
  Parts = {"pids", "life", "signal"}
SYMMETRY MCSymmetry
CHECK_DEADLOCK FALSE
INVARIANTS PidsUnique ParentsLive NoExitMissed FlagKept 
