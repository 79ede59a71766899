----------------------------- MODULE MCAppdbInit -----------------------------
(* Two handlers, a seeded and a new campaign, two restarts of the stack.   *)
EXTENDS AppdbInit, TLC

MCSeedCampaigns == {CHOOSE c \in CampaignIds : TRUE}
MCSeedOrder == [c \in SeedCampaigns |-> 1]
MCSeedStatus == [c \in SeedCampaigns |-> "Draft"]

Symmetry == Permutations(Requests)
=============================================================================
