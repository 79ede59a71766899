---------------------------- MODULE MCInteractions ----------------------------
(***************************************************************************)
(* Two requests that draw from what the console sends and from what other  *)
(* clients of the API may send.  The seeded campaign is the one the        *)
(* "Launch a test send" signal names.                                      *)
(***************************************************************************)
EXTENDS Interactions, TLC

Zenith == <<"product-unveiling-zenith">>

Command(action, kind, type, subject, campaign) ==
  [surface |-> Plain(<<"console">>), action |-> action, eventKind |-> kind,
   subjectType |-> type, subjectId |-> subject, campaignId |-> campaign]

\* CampaignsView and the signal of the same name.
Brief == Command(Plain(CreateBrief), "both", "campaign", Plain(<<"new-brief">>), Empty)

LaunchZenith == Command(Plain(LaunchTest), "both", "campaign", Plain(Zenith), Empty)

Navigate == Command(Plain(<<"select">>), "analytics", "navigation", Plain(<<"campaigns">>), Empty)

Subscribe == Command(Plain(AddSubscriber), "analytics", "subscriber", Plain(<<"new-subscriber">>), Empty)

\* Commands of other clients of the API.
BriefAgain    == Command(Plain(CreateBrief), "", "", Plain(Zenith), Empty)
BriefByMail   == Command(Plain(CreateBrief), "email", "", Empty, Empty)
PaddedBrief   == Command(Padded(CreateBrief), "auto", "", Plain(<<"new-brief">>), Empty)
BriefNewBrief == Command(Plain(CreateBrief), "auto", "", Empty, Plain(<<"new-brief">>))
NamedNothing  == Command(Plain(CreateBrief), "both", "", Padded(<<>>), Padded(<<>>))
LaunchUnknown == Command(Plain(LaunchTest), "analytics", "", Plain(<<"spring">>), Empty)
LaunchNothing == Command(Plain(LaunchTest), "auto", "", Empty, Empty)
LaunchPadded  == Command(Plain(LaunchTest), "both", "campaign", Empty, Padded(Zenith))
LaunchRow     == Command(Plain(LaunchTest), "both", "campaign", Plain(<<"spring">>), Plain(Zenith))
Silent        == Command(Padded(<<>>), "auto", "", Empty, Empty)

MCSeedCampaigns == {Zenith}
MCSeedOrder == [c \in {Zenith} |-> 1]
MCSeedStatus == [c \in {Zenith} |-> "Draft"]

MCCatalogue ==
  {Brief, LaunchZenith, Navigate, Subscribe, BriefAgain, BriefByMail, PaddedBrief,
   BriefNewBrief, NamedNothing, LaunchUnknown, LaunchNothing, LaunchPadded, LaunchRow, Silent}

ConsoleBriefs == {Brief}

Symmetry == Permutations(Requests)

MCCampaignIds ==
  {Zenith, <<"spring">>, <<"new-brief">>} \cup {Append(CreateBrief, s) : s \in 1 .. MaxSecond}

MCNoCampaign == <<>>
=============================================================================
