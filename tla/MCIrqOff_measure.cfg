SPECIFICATION Spec
CONSTANTS
  Cpus = {c1}
  Procs = {p1}
  NULL = NULL
  MAX_STACE_TRACE_ENTRIES = 2
  MAX_TRACE_ENTRIES = 5
  MAX_LATENCY_RECORD = 2
  NsPerMs = 1
  Word = 16
  InitPeriod = 2
  InitLatency = 7
  Periods = {3}
  Latencies = {0, 4, 18}
  Depths = {1, 3}
  Jiffy = 1
  WheelSlack = {0, 1}
  MaxTime = 9
  MaxWrites = 2
INVARIANTS FramesPacked SoftDelayMarked
PROPERTIES HardOffMeasured SoftOffReal
CHECK_DEADLOCK FALSE
