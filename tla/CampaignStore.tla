---------------------------- MODULE CampaignStore ----------------------------
(***************************************************************************)
(* The campaign half of AppDBRepository (internal/adapters/content).       *)
(* Request handlers run createCampaign and scheduleCampaign concurrently   *)
(* over one Postgres database.  Neither opens a transaction: every         *)
(* statement commits by itself, so other handlers run between any two.     *)
(*                                                                         *)
(* A handler gives up when its context is cancelled or the connection      *)
(* breaks.  The statement it had sent may still take effect afterwards, or *)
(* never.                                                                  *)
(***************************************************************************)
EXTENDS Naturals

CONSTANTS
  Requests,      \* request handlers; each serves one command
  CampaignIds,   \* every identifier a command can name or generate
  NoCampaign,    \* the empty identifier
  SeedCampaigns, \* rows 02_platform_bootstrap.sql inserts
  SeedOrder,     \* their display_order
  SeedStatus,    \* their status
  BriefStatuses  \* what the status of a brief's metadata can make of it

\* The seed file numbers its campaigns from 1 and repeats no number.
ASSUME SeedAssumption ==
  /\ SeedCampaigns \subseteq CampaignIds
  /\ SeedOrder \in [SeedCampaigns -> Nat \ {0}]
  /\ \A a, b \in SeedCampaigns : SeedOrder[a] = SeedOrder[b] => a = b
  /\ SeedStatus \in [SeedCampaigns -> {"Draft", "Scheduled", "Sent"}]

\* "Draft" unless the metadata says otherwise.
ASSUME BriefAssumption == "Draft" \in BriefStatuses /\ "none" \notin BriefStatuses

ASSUME NoCampaignAssumption == NoCampaign \notin CampaignIds

VARIABLES
  campaigns,     \* primary keys of analytics.platform_campaign
  displayOrder,  \* its display_order column; 0 where there is no row
  status,        \* its status column; "none" where there is no row
  analyticsRows, \* primary keys of analytics.platform_campaign_analytics
  operation,     \* what each handler was called for
  pc,            \* its next statement, or how it ended
  target,        \* its campaignID
  order,         \* its displayOrder
  abandoned      \* handlers that returned an error to their caller

\* Observation only, no guard reads them: the rows a handler's display order
\* was computed from, and the same for the row it inserted.
VARIABLES snapshot, seen

tables    == <<campaigns, displayOrder, status, analyticsRows>>
handlers  == <<operation, pc, target, order, abandoned>>
observed  == <<snapshot, seen>>
storeVars == <<tables, handlers, observed>>

Statements == {"lookup", "next", "upsert", "seed", "schedule"}
Endings    == {"stored", "failed"}
Statuses   == {"none", "Draft", "Scheduled", "Sent"} \cup BriefStatuses
Operations == {"none", "create", "schedule"}

TypeOK ==
  /\ campaigns \subseteq CampaignIds
  /\ displayOrder \in [CampaignIds -> Nat]
  /\ status \in [CampaignIds -> Statuses]
  /\ analyticsRows \subseteq CampaignIds
  /\ operation \in [Requests -> Operations]
  /\ pc \in [Requests -> Statements \cup Endings \cup {"idle"}]
  /\ target \in [Requests -> CampaignIds \cup {NoCampaign}]
  /\ order \in [Requests -> Nat]
  /\ abandoned \subseteq Requests
  /\ snapshot \in [Requests -> SUBSET CampaignIds]
  /\ seen \in [CampaignIds -> SUBSET CampaignIds]

Init ==
  /\ campaigns = SeedCampaigns
  /\ displayOrder = [c \in CampaignIds |-> IF c \in SeedCampaigns THEN SeedOrder[c] ELSE 0]
  /\ status = [c \in CampaignIds |-> IF c \in SeedCampaigns THEN SeedStatus[c] ELSE "none"]
  /\ analyticsRows = SeedCampaigns
  /\ operation = [r \in Requests |-> "none"]
  /\ pc = [r \in Requests |-> "idle"]
  /\ target = [r \in Requests |-> NoCampaign]
  /\ order = [r \in Requests |-> 0]
  /\ abandoned = {}
  /\ snapshot = [r \in Requests |-> {}]
  /\ seen = [c \in CampaignIds |-> {}]

-----------------------------------------------------------------------------
\* A variant that does not ask whether its context was cancelled.
GoOnAnyway(r, next) == pc' = [pc EXCEPT ![r] = next]

\* After its statement a handler goes on, unless it had given up on it.
GoOn(r, next) ==
  pc' = [pc EXCEPT ![r] = IF r \in abandoned THEN "failed" ELSE next]

Begin(r, op, c, first) ==
  /\ pc[r] = "idle"
  /\ operation' = [operation EXCEPT ![r] = op]
  /\ target' = [target EXCEPT ![r] = c]
  /\ pc' = [pc EXCEPT ![r] = first]
  /\ UNCHANGED <<tables, order, observed>>

BeginCreate(r, c) ==
  /\ c \in CampaignIds
  /\ Begin(r, "create", c, "lookup")
  /\ UNCHANGED abandoned

BeginSchedule(r, c) ==
  /\ c \in CampaignIds
  /\ Begin(r, "schedule", c, "schedule")
  /\ UNCHANGED abandoned

\* "campaign ID is required"
RefuseUnnamed(r, op) ==
  /\ Begin(r, op, NoCampaign, "failed")
  /\ abandoned' = abandoned \cup {r}

\* lookupDisplayOrder turns a missing row into 0.
LookupOrder(r) ==
  /\ pc[r] = "lookup"
  /\ order' = [order EXCEPT ![r] = displayOrder[target[r]]]
  /\ snapshot' = [snapshot EXCEPT ![r] = seen[target[r]]]
  /\ GoOn(r, IF displayOrder[target[r]] = 0 THEN "next" ELSE "upsert")
  /\ UNCHANGED <<tables, operation, target, abandoned, seen>>

\* A variant whose query reads max(display_order) and forgets the + 1.
NextOrderNoIncrement(r) ==
  /\ pc[r] = "next"
  /\ \E n \in {1} \cup {displayOrder[c] : c \in campaigns} :
       /\ \A c \in campaigns : displayOrder[c] <= n
       /\ order' = [order EXCEPT ![r] = n]
  /\ snapshot' = [snapshot EXCEPT ![r] = campaigns]
  /\ GoOn(r, "upsert")
  /\ UNCHANGED <<tables, operation, target, abandoned, seen>>

\* coalesce(max(display_order), 0) + 1
NextOrder(r) ==
  /\ pc[r] = "next"
  /\ \E n \in {1} \cup {displayOrder[c] + 1 : c \in campaigns} :
       /\ \A c \in campaigns : displayOrder[c] < n
       /\ order' = [order EXCEPT ![r] = n]
  /\ snapshot' = [snapshot EXCEPT ![r] = campaigns]
  /\ GoOn(r, "upsert")
  /\ UNCHANGED <<tables, operation, target, abandoned, seen>>

\* A variant that leaves the analytics row to somebody else.
InsertCampaignOnly(r) ==
  /\ pc[r] = "upsert" /\ target[r] \notin campaigns
  /\ campaigns' = campaigns \cup {target[r]}
  /\ displayOrder' = [displayOrder EXCEPT ![target[r]] = order[r]]
  /\ \E s \in BriefStatuses : status' = [status EXCEPT ![target[r]] = s]
  /\ seen' = [seen EXCEPT ![target[r]] = snapshot[r]]
  /\ GoOn(r, "stored")
  /\ UNCHANGED <<analyticsRows, operation, target, order, abandoned, snapshot>>

InsertCampaign(r) ==
  /\ pc[r] = "upsert" /\ target[r] \notin campaigns
  /\ campaigns' = campaigns \cup {target[r]}
  /\ displayOrder' = [displayOrder EXCEPT ![target[r]] = order[r]]
  /\ \E s \in BriefStatuses : status' = [status EXCEPT ![target[r]] = s]
  /\ seen' = [seen EXCEPT ![target[r]] = snapshot[r]]
  /\ GoOn(r, "seed")
  /\ UNCHANGED <<analyticsRows, operation, target, order, abandoned, snapshot>>

\* A variant whose conflict clause sets display_order as well.
OverwriteCampaignAndPlace(r) ==
  /\ pc[r] = "upsert" /\ target[r] \in campaigns
  /\ \E s \in BriefStatuses : status' = [status EXCEPT ![target[r]] = s]
  /\ displayOrder' = [displayOrder EXCEPT ![target[r]] = order[r]]
  /\ GoOn(r, "seed")
  /\ UNCHANGED <<campaigns, analyticsRows,
                 operation, target, order, abandoned, observed>>

\* on conflict do update: every column but display_order.
OverwriteCampaign(r) ==
  /\ pc[r] = "upsert" /\ target[r] \in campaigns
  /\ \E s \in BriefStatuses : status' = [status EXCEPT ![target[r]] = s]
  /\ GoOn(r, "seed")
  /\ UNCHANGED <<campaigns, displayOrder, analyticsRows,
                 operation, target, order, abandoned, observed>>

\* on conflict do nothing; the foreign key needs the campaign.
SeedAnalytics(r) ==
  /\ pc[r] = "seed" /\ target[r] \in campaigns
  /\ analyticsRows' = analyticsRows \cup {target[r]}
  /\ GoOn(r, "stored")
  /\ UNCHANGED <<campaigns, displayOrder, status,
                 operation, target, order, abandoned, observed>>

\* A variant whose update lost its campaign_id condition.
ScheduleEveryCampaign(r) ==
  /\ pc[r] = "schedule" /\ target[r] \in campaigns
  /\ status' = [c \in CampaignIds |-> IF c \in campaigns THEN "Scheduled" ELSE status[c]]
  /\ GoOn(r, "stored")
  /\ UNCHANGED <<campaigns, displayOrder, analyticsRows,
                 operation, target, order, abandoned, observed>>

\* A variant that stores a status the console does not know.
ScheduleAsQueued(r) ==
  /\ pc[r] = "schedule" /\ target[r] \in campaigns
  /\ status' = [status EXCEPT ![target[r]] = "Queued"]
  /\ GoOn(r, "stored")
  /\ UNCHANGED <<campaigns, displayOrder, analyticsRows,
                 operation, target, order, abandoned, observed>>

ScheduleCampaign(r) ==
  /\ pc[r] = "schedule" /\ target[r] \in campaigns
  /\ status' = [status EXCEPT ![target[r]] = "Scheduled"]
  /\ GoOn(r, "stored")
  /\ UNCHANGED <<campaigns, displayOrder, analyticsRows,
                 operation, target, order, abandoned, observed>>

\* A variant that does not look at the number of affected rows.
ScheduleMissingUnnoticed(r) ==
  /\ pc[r] = "schedule" /\ target[r] \notin campaigns
  /\ GoOn(r, "stored")
  /\ UNCHANGED <<tables, operation, target, order, abandoned, observed>>

\* No row was affected: "campaign was not found".
ScheduleMissing(r) ==
  /\ pc[r] = "schedule" /\ target[r] \notin campaigns
  /\ pc' = [pc EXCEPT ![r] = "failed"]
  /\ abandoned' = abandoned \cup {r}
  /\ UNCHANGED <<tables, operation, target, order, observed>>

\* The caller gets an error while the statement is under way ...
Abandon(r) ==
  /\ pc[r] \in Statements /\ r \notin abandoned
  /\ abandoned' = abandoned \cup {r}
  /\ UNCHANGED <<tables, operation, pc, target, order, observed>>

\* ... and the statement it had sent never takes effect.
Drop(r) ==
  /\ pc[r] \in Statements /\ r \in abandoned
  /\ pc' = [pc EXCEPT ![r] = "failed"]
  /\ UNCHANGED <<tables, operation, target, order, abandoned, observed>>

Statement(r) ==
  \/ LookupOrder(r)      \/ NextOrder(r)
  \/ InsertCampaign(r)   \/ OverwriteCampaign(r)
  \/ SeedAnalytics(r)
  \/ ScheduleCampaign(r) \/ ScheduleMissing(r)

Call(r) ==
  \/ \E c \in CampaignIds : BeginCreate(r, c) \/ BeginSchedule(r, c)
  \/ \E op \in {"create", "schedule"} : RefuseUnnamed(r, op)

Next == \E r \in Requests : Call(r) \/ Statement(r) \/ Abandon(r) \/ Drop(r)

Spec == Init /\ [][Next]_storeVars

-----------------------------------------------------------------------------
(* Safety.                                                                 *)

\* A row is numbered after every row that was there when its number was
\* computed, however the two statements interleave with other creates: a
\* campaign can share its place on the console only with one whose create
\* overlapped its own.
NumberedAfterSeen ==
  \A c \in campaigns : \A d \in seen[c] :
    d \in campaigns /\ displayOrder[d] < displayOrder[c]

\* A handler that reported success left its effect, whatever the others do:
\* the campaign is there, and for a create its analytics row too.
SuccessIsDurable ==
  \A r \in Requests : pc[r] = "stored" =>
    /\ target[r] \in campaigns
    /\ operation[r] = "create" => target[r] \in analyticsRows

\* createCampaign is not atomic, but a campaign without its analytics row
\* belongs to a create that is about to add it or was told it failed.
HalfCreatedIsKnown ==
  \A c \in campaigns \ analyticsRows :
    \E r \in Requests :
      /\ operation[r] = "create" /\ target[r] = c
      /\ pc[r] = "seed" \/ r \in abandoned

\* A launch schedules its own campaign and no other: what is scheduled has
\* been launched, was seeded so, or is a brief that asked for it.
ScheduledByItsLaunch ==
  \A c \in CampaignIds : status[c] = "Scheduled" =>
    \/ c \in SeedCampaigns /\ SeedStatus[c] = "Scheduled"
    \/ \E r \in Requests :
         /\ target[r] = c
         /\ \/ operation[r] = "schedule"
            \/ operation[r] = "create" /\ "Scheduled" \in BriefStatuses
         /\ pc[r] \in Endings \cup {"seed"}

\* No handler moves a campaign on the console, not even one whose display
\* order is stale when its upsert finds the row inserted meanwhile.
PlaceIsPermanent ==
  [][\A c \in campaigns : c \in campaigns' /\ displayOrder'[c] = displayOrder[c]]_storeVars

-----------------------------------------------------------------------------
(* The same, seen from outside.                                            *)

Table == INSTANCE CampaignTable WITH
           present  <- campaigns,
           place    <- displayOrder,
           complete <- analyticsRows,
           asked    <- [r \in Requests |-> [kind |-> operation[r], campaign |-> target[r]]],
           stage    <- [r \in Requests |->
                          CASE pc[r] = "idle"      -> "idle"
                            [] pc[r] = "seed"      -> "half"
                            [] pc[r] \in Endings   -> "over"
                            [] OTHER               -> "pending"],
           answer   <- [r \in Requests |->
                          IF pc[r] = "stored" THEN "success"
                          ELSE IF r \in abandoned THEN "error" ELSE "none"]

\* The statements of createCampaign and scheduleCampaign, in any order with
\* those of others, with numbers that are stale when they are written and
\* with effects after the caller's error, take effect once at most and wholly
\* before they are reported as a success.
ImplementsTable == Table!Spec
=============================================================================
