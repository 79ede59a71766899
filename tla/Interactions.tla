----------------------------- MODULE Interactions -----------------------------
(***************************************************************************)
(* POST /api/interactions: the handler of internal/http/server.go and      *)
(* Service.Record, over the campaign store and the event gateway adapter.  *)
(* Record normalises the command, applies it to the store and, only if     *)
(* that succeeded, posts it to the gateway, analytics before email.        *)
(*                                                                         *)
(* A post leaves in one step and reaches the gateway in another; the       *)
(* client's time-out may fall before, between or after the two.  The       *)
(* transaction of add-subscriber is atomic and is one step here.           *)
(***************************************************************************)
EXTENDS Commands, CampaignStore

CONSTANTS
  Catalogue,  \* commands operators may post
  MaxSecond   \* bound of the clock that dates generated identifiers

\* The composed store knows "" as the missing campaign.
ASSUME EmptyIsNoCampaign == NoCampaign = <<>>

ASSUME CatalogueAssumption == \A c \in Catalogue : IsCommand(c)

ASSUME MaxSecondAssumption == MaxSecond \in Nat \ {0}

VARIABLES
  second,      \* time.Now() in seconds
  command,     \* the normalised command of each request that arrived
  identified,  \* observation: requests whose client itself named a campaign
  stage,       \* where its handler is in Record
  subscribers, \* requests whose subscriber was stored
  posting,     \* the channel whose reply the handler waits for
  acked,       \* channels the gateway answered: result.Published
  outbox,      \* posts on their way to the gateway
  published,   \* posts the gateway took
  answer       \* the status the caller got

serviceVars ==
  <<second, command, identified, stage, subscribers, posting, acked, outbox, published, answer>>
vars == <<storeVars, serviceVars>>

Stages  == {"waiting", "storing", "publishing", "answered"}
Answers == {"none", "accepted", "failed", "rejected"}

ServiceTypeOK ==
  /\ TypeOK
  /\ second \in 1 .. MaxSecond
  /\ DOMAIN command \subseteq Requests
  /\ identified \subseteq Requests
  /\ stage \in [Requests -> Stages]
  /\ subscribers \subseteq Requests
  /\ posting \in [Requests -> Channels \cup {"none"}]
  /\ acked \in [Requests -> SUBSET Channels]
  /\ \A p \in outbox \cup published : p.request \in DOMAIN command /\ p.channel \in Channels
  /\ answer \in [Requests -> Answers]

ServiceInit ==
  /\ Init
  /\ second = 1
  /\ command = <<>>
  /\ identified = {}
  /\ stage = [r \in Requests |-> "waiting"]
  /\ subscribers = {}
  /\ posting = [r \in Requests |-> "none"]
  /\ acked = [r \in Requests |-> {}]
  /\ outbox = {}
  /\ published = {}
  /\ answer = [r \in Requests |-> "none"]

-----------------------------------------------------------------------------
\* Where Record stands after its call of the store; an error ends it.
AfterStore(r) ==
  LET s == CASE pc'[r] = "stored"  -> "publishing"
             [] r \in abandoned'   -> "answered"
             [] OTHER              -> "storing"
  IN /\ stage' = [stage EXCEPT ![r] = s]
     /\ answer' = [answer EXCEPT ![r] = IF s = "answered" THEN "failed" ELSE @]

Fail(r) ==
  /\ stage' = [stage EXCEPT ![r] = "answered"]
  /\ answer' = [answer EXCEPT ![r] = "failed"]

Arrive(r, n) ==
  /\ stage[r] = "waiting"
  /\ command' = [q \in DOMAIN command \cup {r} |-> IF q = r THEN n ELSE command[q]]

Unposted == UNCHANGED <<posting, acked, outbox, published>>

\* Not a POST, or a body that is no command.
Reject(r) ==
  /\ stage[r] = "waiting"
  /\ stage' = [stage EXCEPT ![r] = "answered"]
  /\ answer' = [answer EXCEPT ![r] = "rejected"]
  /\ Unposted /\ UNCHANGED <<storeVars, second, command, identified, subscribers>>

\* "surface is required", "action is required"
RecordInvalid(r, c) ==
  /\ ~ValidCommand(c)
  /\ Arrive(r, c)
  /\ Fail(r)
  /\ Unposted /\ UNCHANGED <<storeVars, second, subscribers>>

RecordCreate(r, c) ==
  LET n == Normalize(c, second) IN
  /\ ValidCommand(c) /\ StoreOperation(n) = CreateBrief
  /\ Arrive(r, n)
  /\ \/ BeginCreate(r, StoredCampaign(n))
     \/ StoredCampaign(n) = NoCampaign /\ RefuseUnnamed(r, "create")
  /\ AfterStore(r)
  /\ Unposted /\ UNCHANGED <<second, subscribers>>

RecordLaunch(r, c) ==
  LET n == Normalize(c, second) IN
  /\ ValidCommand(c) /\ StoreOperation(n) = LaunchTest
  /\ Arrive(r, n)
  /\ \/ BeginSchedule(r, StoredCampaign(n))
     \/ StoredCampaign(n) = NoCampaign /\ RefuseUnnamed(r, "schedule")
  /\ AfterStore(r)
  /\ Unposted /\ UNCHANGED <<second, subscribers>>

\* The transaction commits or is rolled back; a commit whose reply is lost
\* is an error to the caller.
RecordSubscriber(r, c) ==
  LET n == Normalize(c, second) IN
  /\ ValidCommand(c) /\ StoreOperation(n) = AddSubscriber
  /\ Arrive(r, n)
  /\ \/ /\ subscribers' = subscribers \cup {r}
        /\ stage' = [stage EXCEPT ![r] = "publishing"]
        /\ UNCHANGED answer
     \/ subscribers' \in {subscribers, subscribers \cup {r}} /\ Fail(r)
  /\ Unposted /\ UNCHANGED <<storeVars, second>>

\* Apply stores nothing for any other action.
RecordOther(r, c) ==
  LET n == Normalize(c, second) IN
  /\ ValidCommand(c) /\ StoreOperation(n) = <<>>
  /\ Arrive(r, n)
  /\ stage' = [stage EXCEPT ![r] = "publishing"]
  /\ Unposted /\ UNCHANGED <<storeVars, second, subscribers, answer>>

\* The store's statements; those of an answered request may still run.
StoreStep(r) ==
  /\ Statement(r) \/ Abandon(r) \/ Drop(r)
  /\ AfterStore(r)
  /\ Unposted /\ UNCHANGED <<second, command, identified, subscribers>>

-----------------------------------------------------------------------------
PostOf(r, ch) ==
  [request |-> r, channel |-> ch, campaign |-> EventCampaign(ch, command[r]),
   subject |-> command[r].subjectId]

Waiting(r) == RequiredChannels(command[r]) \ acked[r]

\* A variant that posts the channels side by side.
PostAnyOrder(r, ch) ==
  /\ stage[r] = "publishing" /\ posting[r] = "none"
  /\ ch \in Waiting(r)
  /\ posting' = [posting EXCEPT ![r] = ch]
  /\ outbox' = outbox \cup {PostOf(r, ch)}
  /\ UNCHANGED <<storeVars, second, command, identified, stage, subscribers, acked, published, answer>>

\* PublishInteraction posts analytics first.
Post(r, ch) ==
  /\ stage[r] = "publishing" /\ posting[r] = "none"
  /\ ch \in Waiting(r)
  /\ ch = "email" => "analytics" \notin Waiting(r)
  /\ posting' = [posting EXCEPT ![r] = ch]
  /\ outbox' = outbox \cup {PostOf(r, ch)}
  /\ UNCHANGED <<storeVars, second, command, identified, stage, subscribers, acked, published, answer>>

\* The gateway takes a post, whether or not the handler still waits.
Take(p) ==
  /\ p \in outbox
  /\ outbox' = outbox \ {p}
  /\ published' = published \cup {p}
  /\ UNCHANGED <<storeVars, second, command, identified, stage, subscribers, posting, acked, answer>>

\* A post that is lost, or refused with a status of 400 or more.
Lose(p) ==
  /\ p \in outbox
  /\ outbox' = outbox \ {p}
  /\ UNCHANGED <<storeVars, second, command, identified, stage, subscribers, posting, acked, published, answer>>

Acknowledged(r) ==
  /\ stage[r] = "publishing"
  /\ posting[r] # "none" /\ PostOf(r, posting[r]) \in published
  /\ acked' = [acked EXCEPT ![r] = @ \cup {posting[r]}]
  /\ posting' = [posting EXCEPT ![r] = "none"]
  /\ UNCHANGED <<storeVars, second, command, identified, stage, subscribers, outbox, published, answer>>

\* A variant without a time-out: only a post known to be lost fails.
PostFailedKnown(r) ==
  /\ stage[r] = "publishing" /\ posting[r] # "none"
  /\ PostOf(r, posting[r]) \notin outbox \cup published
  /\ Fail(r)
  /\ UNCHANGED <<storeVars, second, command, identified, subscribers, posting, acked, outbox, published>>

\* A refusal, a broken connection or the client's time-out of 8 s.
PostFailed(r) ==
  /\ stage[r] = "publishing" /\ posting[r] # "none"
  /\ Fail(r)
  /\ UNCHANGED <<storeVars, second, command, identified, subscribers, posting, acked, outbox, published>>

\* A variant that is content with the first reply.
AcceptFirstReply(r) ==
  /\ stage[r] = "publishing" /\ posting[r] = "none" /\ acked[r] # {}
  /\ stage' = [stage EXCEPT ![r] = "answered"]
  /\ answer' = [answer EXCEPT ![r] = "accepted"]
  /\ UNCHANGED <<storeVars, second, command, identified, subscribers, posting, acked, outbox, published>>

Accept(r) ==
  /\ stage[r] = "publishing" /\ posting[r] = "none" /\ Waiting(r) = {}
  /\ stage' = [stage EXCEPT ![r] = "answered"]
  /\ answer' = [answer EXCEPT ![r] = "accepted"]
  /\ UNCHANGED <<storeVars, second, command, identified, subscribers, posting, acked, outbox, published>>

\* The server's WriteTimeout is 15 s and each post may take 8 s: the 202 of
\* a command that took longer is dropped with its connection.
AcceptLate(r) ==
  /\ stage[r] = "publishing" /\ posting[r] = "none" /\ Waiting(r) = {}
  /\ Fail(r)
  /\ UNCHANGED <<storeVars, second, command, identified, subscribers, posting, acked, outbox, published>>

Tick ==
  /\ second < MaxSecond
  /\ second' = second + 1
  /\ UNCHANGED <<storeVars, command, identified, stage, subscribers, posting, acked, outbox, published, answer>>

Record(r) ==
  \E c \in Catalogue :
    /\ \/ RecordInvalid(r, c)
       \/ RecordCreate(r, c)
       \/ RecordLaunch(r, c)
       \/ RecordSubscriber(r, c)
       \/ RecordOther(r, c)
    /\ identified' = IF IsBlank(c.campaignId) THEN identified ELSE identified \cup {r}

Publish(r) ==
  \/ \E ch \in Channels : Post(r, ch)
  \/ Acknowledged(r)
  \/ PostFailed(r)
  \/ Accept(r) \/ AcceptLate(r)

ServiceNext ==
  \/ \E r \in Requests : Reject(r) \/ Record(r) \/ StoreStep(r) \/ Publish(r)
  \/ \E p \in outbox : Take(p) \/ Lose(p)
  \/ Tick

ServiceSpec == ServiceInit /\ [][ServiceNext]_vars

\* A started handler is scheduled, Postgres answers or its connection
\* breaks, and every post ends at the latest with the client's time-out.
HandlersRun == \A r \in Requests : WF_vars(StoreStep(r)) /\ WF_vars(Publish(r))

FairServiceSpec == ServiceSpec /\ HandlersRun

-----------------------------------------------------------------------------
(* Properties.                                                             *)

Stores(r) == StoreOperation(command[r]) \in {CreateBrief, LaunchTest}

Unpadded(r) == ~command[r].campaignId.padded /\ ~command[r].subjectId.padded

\* A 202 is the whole promise: the command took effect in the store and
\* every channel it calls for has its event, though the three are written
\* to different systems and other commands run between the writes.
AcceptedIsComplete ==
  \A r \in DOMAIN command : answer[r] = "accepted" =>
    /\ Stores(r) => pc[r] = "stored" /\ StoredCampaign(command[r]) \in campaigns
    /\ StoreOperation(command[r]) = AddSubscriber => r \in subscribers
    /\ \A ch \in RequiredChannels(command[r]) : PostOf(r, ch) \in published

\* Store, analytics, email: what a failed command leaves behind is a prefix
\* of that order, even when a post arrives after its caller got an error.
EffectsInOrder ==
  \A p \in published :
    /\ Stores(p.request) =>
         pc[p.request] = "stored" /\ target[p.request] \in campaigns
    /\ p.channel = "email" /\ shouldPublishAnalytics(command[p.request]) =>
         PostOf(p.request, "analytics") \in published

\* The text an event offers for the campaign: its campaign_id, or its
\* subject_id where that is blank, as in the analytics event of a launch that
\* names its campaign as the subject only.
NamedBy(p) == IF IsBlank(p.campaign) THEN p.subject ELSE p.campaign

\* Store, analytics payload and email payload pick the identifier by three
\* rules (repository.go:123, event_gateway.go:91, :99), and still both events
\* of a stored campaign name the row that was stored: word for word, and
\* to the letter unless the command put blanks around an identifier.  Only
\* an analytics event may leave the campaign_id to the subject_id.
EventsNameStoredCampaign ==
  \A p \in published : Stores(p.request) =>
    /\ NamedBy(p).word = target[p.request]
    /\ Unpadded(p.request) => NamedBy(p) = Plain(target[p.request])
    /\ p.channel = "email" => ~IsBlank(p.campaign)

\* Every command is answered, whatever fails on the way: each request is one
\* command, so from some time on all that arrived are.
EveryCommandAnswered == <>[](\A r \in DOMAIN command : stage[r] = "answered")

\* What the console promises of "Create brief"
\* (02_platform_bootstrap.sql:416): each accepted brief has its own row.
EachBriefHasItsRow ==
  \A r, q \in DOMAIN command :
    /\ r # q
    /\ answer[r] = "accepted" /\ answer[q] = "accepted"
    /\ operation[r] = "create" /\ operation[q] = "create"
    => target[r] # target[q]

\* A brief sent under a placeholder is stored under an identifier made for
\* it (service_test.go:75-97).  A row has a placeholder for its identifier
\* only if it was seeded so, if a client itself gave the placeholder as the
\* campaignId, which Record keeps, or if blanks around its action kept Record,
\* which compares the action as it stands, from replacing what the store,
\* which trims it, then took.
PlaceholderHasCause ==
  \A c \in campaigns \ SeedCampaigns : isCampaignPlaceholder(Plain(c)) =>
    \E r \in DOMAIN command :
      /\ operation[r] = "create" /\ target[r] = c
      /\ r \in identified \/ command[r].action.padded
=============================================================================
