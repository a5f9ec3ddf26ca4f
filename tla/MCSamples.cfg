\* Each module and program with two or three actors.  Every one of them may
\* end, and a module that is gone does nothing.
SPECIFICATION Spec
CONSTANTS
  NULL = NULL
  TORN = TORN
  Writers = {"w1", "w2"}
  SuperBlocks <- MCSuperBlocks
  Processes <- MCProcesses
  NoBdev = {"s2"}
  Inodes <- MCInodes
  Files <- MCFiles
  Freeing = {"d"}
  Unlinked = {"a"}
  Cached <- MCCached
  Pages <- MCPages
  TopNs = {2}
  Modes = {1, 2}
  MaxWrites = 3
  MaxSettings = 1
  MaxTouches = 1
  Tasks = {"t1", "t2"}
  Child = "child"
  RCVBUF = 1
  Wrap = 3
  Procs = {"p1", "p2"}
  MaxCalls = 4
  COUNT_INTERVAL = 3
  MaxKeys = 3
  Total = 2
  Bits = {"b1", "b2"}
  MaxRaised = 2
INVARIANTS LocksExclude NothingLeftBehind AnswersRight HandedOver
PROPERTIES CallsReturn WaitsEnd
CHECK_DEADLOCK FALSE
