SPECIFICATION Spec
CONSTANTS
  Cpus = {c1}
  Tasks = {t1, t2}
  Writers = {w1}
  Idle = Idle
  NULL = NULL
  MAX_STACE_TRACE_ENTRIES = 2
  MAX_TRACE_ENTRIES = 4
  DURATION_HISTOGRAM_ENTRY = 2
  sampling_period = 1
  Thresholds = {2}
  Depths = {1, 3}
  Failing = {}
  MaxLate = 1
  MaxTime = 6
  MaxToggles = 2
  MaxClears = 1
SYMMETRY Symmetry
INVARIANTS FramesPacked OneRecordPerStretch LongStretchMarked
