SPECIFICATION FairSpec
CONSTANTS
  Objects = {1, 2, 3}
  Runs = {a, b}
  PageSize = 2
  BatchSize = 2
  MaxFailures = 1
INVARIANTS
  TypeOK
  DoneMeansComplete
PROPERTIES
  DuplicatesNeedOverlap
  EveryObjectIndexed
