--------------------------- MODULE MCCampaignStore ---------------------------
(* Three handlers over two new campaigns and a seeded one.                 *)
EXTENDS CampaignStore, TLC

MCSeedCampaigns == {CHOOSE c \in CampaignIds : TRUE}
MCSeedOrder == [c \in SeedCampaigns |-> 1]
MCSeedStatus == [c \in SeedCampaigns |-> "Draft"]

Symmetry == Permutations(Requests)
=============================================================================
