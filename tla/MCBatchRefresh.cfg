SPECIFICATION FairViewSpec
CONSTANTS
  Runs = {a, b}
  MaxVersion = 1
  MaxMishaps = 1
INVARIANTS
  ViewTypeOK
  DoneServesMarts
  
  CalmViewIsCurrent
  
  RecordsAreInLakehouse
PROPERTIES
  SecondInsertNeedsOverlap
  EmptyIsRefilled
  EveryViewAnswered
