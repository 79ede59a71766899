SPECIFICATION ServiceSpec
CONSTANTS
  Requests = {r1, r2}
  CampaignIds <- MCCampaignIds
  NoCampaign <- MCNoCampaign
  SeedCampaigns <- MCSeedCampaigns
  SeedOrder <- MCSeedOrder
  SeedStatus <- MCSeedStatus
  BriefStatuses = {"Draft"}
  Catalogue <- ConsoleBriefs
  MaxSecond = 2
INVARIANT EachBriefHasItsRow
SYMMETRY Symmetry
CHECK_DEADLOCK FALSE
