SPECIFICATION FairSpec
CONSTANTS
  Requests = {r1, r2, r3}
  buildEntityID <- MCbuildEntityID
  Subscribers <- MCSubscribers
  Labels <- MCLabels
  SeedLabels <- MCSeedLabels
  Catalogue <- MCCatalogue
  PoolSize = 2
INVARIANTS
  SubscriberIsWhole
  LabelsNumberedInTurn
CHECK_DEADLOCK FALSE
PROPERTIES
  EveryCommandEnds
  ImplementsTable
