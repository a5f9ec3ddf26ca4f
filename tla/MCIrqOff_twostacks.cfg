SPECIFICATION Spec
CONSTANTS
  Cpus = {c1}
  Procs = {p1}
  NULL = NULL
  MAX_STACE_TRACE_ENTRIES = 1
  MAX_TRACE_ENTRIES = 4
  MAX_LATENCY_RECORD = 2
  NsPerMs = 1
  Word = 16
  InitPeriod = 2
  InitLatency = 5
  Periods = {}
  Latencies = {}
  Depths = {1}
  Jiffy = 1
  WheelSlack = {0, 1}
  MaxTime = 12
  MaxWrites = 1
PROPERTY SoftDelayHasTwoStacks
CHECK_DEADLOCK FALSE
