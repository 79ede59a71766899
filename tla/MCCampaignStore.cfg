SPECIFICATION Spec
CONSTANTS
  Requests = {r1, r2, r3}
  CampaignIds = {c1, c2, c3}
  NoCampaign = none
  SeedCampaigns <- MCSeedCampaigns
  SeedOrder <- MCSeedOrder
  SeedStatus <- MCSeedStatus
  BriefStatuses = {"Draft", "Review"}
SYMMETRY Symmetry
INVARIANTS
  NumberedAfterSeen
  SuccessIsDurable
  HalfCreatedIsKnown
  ScheduledByItsLaunch
PROPERTIES
  PlaceIsPermanent
  ImplementsTable
CHECK_DEADLOCK FALSE
