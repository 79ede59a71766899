SPECIFICATION FairSpec
CONSTANTS
  Events = {e1, e2}
  Rows = {e1, e2}
  QueueSize = 1
  Attempts = 2
  MaxUps = 1
  Window = 2
  MaxFailures = 2
INVARIANTS
  TypeOK
  CommittedIsParsed
  DuplicatesNeedFailure
  FlushSettles
PROPERTIES
  ImplementsDelivery
  AcceptedSettles
  EveryLoggedEventLands
CHECK_DEADLOCK FALSE
