SPECIFICATION MCSpec
CONSTANTS
  m1 = m1
  m2 = m2
  Mms = {m1, m2}
  NFrames = 5
  Shmems = {1}
  USERTOP = 7
  PTSIZE = 6
  Values = {0, 1}
  MapFlags <- MCFlags
  Ranges <- MCRanges
  MapLen = 3
  Image <- MCImage
  USTACKSIZE = 2
  ImageValue = 1
  ListTop = 7
  ListLen = 2
  HeapStart = 2
  StackStart = 5
  NNodes = 6
  ZonePages = 11
  MAX_ORDER = 3
  MaxRequest = 8
  SlabPages = 3
SYMMETRY Symmetry
VIEW MCView
CHECK_DEADLOCK FALSE
INVARIANTS RefsExact PtesAllowed LookupsExact TreeExact AllocatorsExact
PROPERTY Memory
