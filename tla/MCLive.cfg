SPECIFICATION LiveSpec
CONSTANTS
  MAX_PID = 6
  MAX_PROCESS = 4
  lcpu_count = 1
  Proc = {init, a, b}
  initproc = init
  None = None
  AnyChild = AnyChild
  Thread = {t, u}
  Outside = Outside
  Masks <- MCMasks
  Actions <- MCActions
  Signals = {10}
  MaxFrames = 1
  MaxCalls = 3
  Parts = {"pids", "life", "signal", "sched"}
  Task = {p1, p2}
  Idle = Idle
  Group = {p1}
  Levels = 1
  Times = {1}
CHECK_DEADLOCK FALSE
PROPERTIES PidIsFound OrphansReaped  SignalTaken RunnableRuns SleepEnds
