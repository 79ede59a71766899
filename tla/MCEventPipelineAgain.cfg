SPECIFICATION Spec
CONSTANTS
  Events = {e1, e2}
  Rows = {e1, e2}
  QueueSize = 1
  Attempts = 2
  MaxUps = 2
  Window = 2
  MaxFailures = 0
INVARIANTS
  BackfillIsOneTime
CHECK_DEADLOCK FALSE
