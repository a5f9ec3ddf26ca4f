SPECIFICATION Spec
CONSTANTS
  NULL = NULL
  Idle = Idle
  Cpus = {c1, c2}
  Tasks = {t1}
  Writers = {w1}
  Stacks = 1
  MAX_TRACE_ENTRIES = 4
  MAX_STACE_TRACE_ENTRIES = 3
  Buckets = 5
  Depths = {1}
  Thresholds = {2}
  Failing = {"register", "unregister"}
  MaxLate = 1
  NsPerMilli = 3
  InitPeriod = 2
  InitLatency = 5
  Periods = {1, 3, 9, 18}
  Latencies = {0, 3, 7, 17}
  Word = 50
  Jiffy = 1
  WheelSlack = {0}
  SamplingPeriods = {1, 2, 5}
  MaxDelta = 400
  MaxTime = 2
  MaxToggles = 4
  MaxWrites = 4
  MaxRecords = 4
  MaxClears = 1
SYMMETRY Symmetry
CHECK_DEADLOCK FALSE
INVARIANTS QuietWhenOff LatencyAboveThrottle ExactUntilCleared CountedWhereShown
