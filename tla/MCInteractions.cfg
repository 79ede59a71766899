SPECIFICATION FairServiceSpec
CONSTANTS
  Requests = {r1, r2}
  CampaignIds <- MCCampaignIds
  NoCampaign <- MCNoCampaign
  SeedCampaigns <- MCSeedCampaigns
  SeedOrder <- MCSeedOrder
  SeedStatus <- MCSeedStatus
  BriefStatuses = {"Draft"}
  Catalogue <- MCCatalogue
  MaxSecond = 2
INVARIANTS
  ServiceTypeOK
  AcceptedIsComplete
  EffectsInOrder
  EventsNameStoredCampaign
  PlaceholderHasCause
CHECK_DEADLOCK FALSE
PROPERTY EveryCommandAnswered
