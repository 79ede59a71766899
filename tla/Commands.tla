------------------------------ MODULE Commands ------------------------------
(***************************************************************************)
(* What the interaction service does to an operator's command before it is *)
(* stored and published: internal/application/interactions/service.go, the *)
(* dispatch of AppDBRepository.Apply and the channel choice of the event   *)
(* gateway adapter.                                                        *)
(*                                                                         *)
(* A string is a word and whether blanks surround it.  A word is a         *)
(* sequence: <<>> has no characters, <<"new-brief">> is a literal and      *)
(* <<"create-brief", 7>> the identifier generated for the action in second *)
(* 7.  Words are already lower case and hyphenated, so slugify does to     *)
(* them what strings.TrimSpace does.                                       *)
(***************************************************************************)
EXTENDS Naturals, Sequences

Plain(w)  == [word |-> w, padded |-> FALSE]
Padded(w) == [word |-> w, padded |-> TRUE]

\* The Go zero value "".
Empty == Plain(<<>>)

\* strings.TrimSpace, and slugify on these words.
Trim(t) == Plain(t.word)

IsBlank(t) == t.word = <<>>

CreateBrief   == <<"create-brief">>
LaunchTest    == <<"launch-test-send">>
AddSubscriber == <<"add-subscriber">>

Channels == {"analytics", "email"}

IsText(t) == t = [word |-> t.word, padded |-> t.padded] /\ t.padded \in BOOLEAN

\* The fields of a Command that anything depends on.
IsCommand(c) ==
  /\ c = [surface |-> c.surface, action |-> c.action, eventKind |-> c.eventKind,
          subjectType |-> c.subjectType, subjectId |-> c.subjectId, campaignId |-> c.campaignId]
  /\ \A t \in {c.surface, c.action, c.subjectId, c.campaignId} : IsText(t)

-----------------------------------------------------------------------------
(* The service.                                                            *)

ValidCommand(c) == ~IsBlank(c.surface) /\ ~IsBlank(c.action)

requiresCampaignIdentity(c) ==
  \/ c.eventKind \in {"email", "both"}
  \/ c.subjectType = "campaign"
  \/ c.action = Plain(CreateBrief)

isCampaignPlaceholder(t) == t.word \in {<<>>, <<"new-brief">>, <<"new-campaign">>}

\* The layout of the time stamp keeps no fraction of a second.
buildCampaignID(action, second) == Plain(Append(action.word, second))

\* A variant that takes the subject as it stands, placeholder or not.
deriveCampaignIDKeepsPlaceholder(c, second) ==
  IF ~IsBlank(c.campaignId) THEN Trim(c.campaignId) ELSE Trim(c.subjectId)

deriveCampaignID(c, second) ==
  IF ~IsBlank(c.campaignId) THEN Trim(c.campaignId)
  ELSE IF ~isCampaignPlaceholder(c.subjectId) THEN Trim(c.subjectId)
  ELSE buildCampaignID(c.action, second)

WithCampaign(c, second) ==
  IF requiresCampaignIdentity(c) /\ c.campaignId = Empty
  THEN [c EXCEPT !.campaignId = deriveCampaignID(c, second)]
  ELSE c

WithSubject(c) ==
  IF c.action = Plain(CreateBrief) /\ isCampaignPlaceholder(c.subjectId)
  THEN [c EXCEPT !.subjectId = c.campaignId]
  ELSE c

WithDefaults(c) == [c EXCEPT !.eventKind = IF @ = "" THEN "auto" ELSE @]

Normalize(c, second) == WithSubject(WithCampaign(WithDefaults(c), second))

-----------------------------------------------------------------------------
(* The store's dispatch: it compares the trimmed action.                   *)

StoreOperation(c) ==
  IF c.action.word \in {CreateBrief, LaunchTest, AddSubscriber}
  THEN c.action.word ELSE <<>>

\* The campaign a create or a launch works on; <<>> is refused.
StoredCampaign(c) ==
  IF IsBlank(c.campaignId) THEN c.subjectId.word ELSE c.campaignId.word

-----------------------------------------------------------------------------
(* The event gateway adapter.                                              *)

shouldPublishAnalytics(c) == c.eventKind # "email"

shouldPublishEmail(c) ==
  \/ c.eventKind \in {"email", "both"}
  \/ /\ c.eventKind # "analytics"
     /\ c.subjectType = "campaign" \/ c.campaignId # Empty

RequiredChannels(c) ==
  {ch \in Channels : \/ ch = "analytics" /\ shouldPublishAnalytics(c)
                     \/ ch = "email" /\ shouldPublishEmail(c)}

firstNonEmpty(a, b, fallback) ==
  IF ~IsBlank(a) THEN a ELSE IF ~IsBlank(b) THEN b ELSE fallback

\* A variant that prefers the subject.
EventCampaignBySubject(ch, c) ==
  firstNonEmpty(c.subjectId, c.campaignId, Plain(<<"platform-ui">>))

\* The campaign_id an event carries; the two payloads pick it differently.
EventCampaign(ch, c) ==
  IF ch = "email"
  THEN firstNonEmpty(c.campaignId, c.subjectId, Plain(<<"platform-ui">>))
  ELSE c.campaignId
=============================================================================
