SPECIFICATION Spec
CONSTANTS
  Cpus = {c1, c2}
  Tasks = {t1, t2}
  Targets = {t1}
  Writers = {w1}
  Readers = {r1}
  Idle = Idle
  INVALID = INVALID
  NULL = NULL
  MAX_TRACE_ENTRIES = 2
  MAX_TRACE_ENTRY_TASKS = 3
  LATENCY_HISTOGRAM_ENTRY = 2
  NsPerMs = 2
  Thresholds = {2}
  Deltas = {1}
  MaxTime = 5
SYMMETRY Symmetry
PROPERTY LatencyIsWaitingTime
