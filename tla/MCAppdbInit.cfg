SPECIFICATION InitSpec
CONSTANTS
  Requests = {r1, r2}
  CampaignIds = {c1, c2}
  NoCampaign = none
  SeedCampaigns <- MCSeedCampaigns
  SeedOrder <- MCSeedOrder
  SeedStatus <- MCSeedStatus
  BriefStatuses = {"Draft"}
  MaxStarts = 3
SYMMETRY Symmetry
INVARIANTS
  NumberedAfterSeen
  CompleteRunRestores
  ConflictNeedsCreate
CHECK_DEADLOCK FALSE
