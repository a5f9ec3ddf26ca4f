SPECIFICATION Spec
CONSTANTS
  NULL = NULL
  MaxRefused = 2
CHECK_DEADLOCK FALSE
INVARIANTS
  QueuesSuffice
  PrintedRight
  ReleasedInOrder
PROPERTIES
  SuccessAgreed
  FaultFreeCompletes
  EndsOrReadsForever
