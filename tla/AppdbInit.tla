------------------------------ MODULE AppdbInit ------------------------------
(***************************************************************************)
(* The appdb-init service of docker-compose.yml beside the campaign store. *)
(* Every "docker compose up" runs it again: psql applies                   *)
(* appdb/init/02_platform_bootstrap.sql statement by statement, each in a  *)
(* transaction of its own, and stops at the first error.  The platform may *)
(* be serving meanwhile, so handlers run between the statements.           *)
(*                                                                         *)
(* Only the statements on the tables of CampaignStore and on the           *)
(* environment row they all reference are steps; the others can fail       *)
(* (InitFails) but touch nothing modelled here.                            *)
(***************************************************************************)
EXTENDS CampaignStore

CONSTANT MaxStarts  \* bound: how often the operator starts the stack

ASSUME MaxStartsAssumption == MaxStarts \in Nat \ {0}

VARIABLES
  environmentRow, \* is there a platform_environment row for 'local'?
  initPc,         \* the script's next statement, or how its run ended
  starts

initVars == <<environmentRow, initPc, starts>>
allVars  == <<storeVars, initVars>>

Script ==
  {"clearAnalytics", "clearCampaigns", "clearEnvironment",
   "addEnvironment", "addCampaigns", "addAnalytics"}
Ends == {"done", "failed", "conflict"}

InitTypeOK ==
  /\ TypeOK
  /\ environmentRow \in BOOLEAN
  /\ initPc \in Script \cup Ends
  /\ starts \in 1 .. MaxStarts

InitInit ==
  /\ Init
  /\ environmentRow = TRUE
  /\ initPc = "done"
  /\ starts = 1

-----------------------------------------------------------------------------
\* A variant that goes on where an earlier run stopped.
ResumeInit ==
  /\ initPc \in Ends /\ starts < MaxStarts
  /\ initPc' = IF initPc = "done" THEN "clearAnalytics" ELSE "addCampaigns"
  /\ starts' = starts + 1
  /\ UNCHANGED <<storeVars, environmentRow>>

StartInit ==
  /\ initPc \in Ends /\ starts < MaxStarts
  /\ initPc' = "clearAnalytics"
  /\ starts' = starts + 1
  /\ UNCHANGED <<storeVars, environmentRow>>

RunStatement(from, to) ==
  /\ initPc = from
  /\ initPc' = to
  /\ UNCHANGED <<starts, handlers>>

ClearAnalytics ==
  /\ RunStatement("clearAnalytics", "clearCampaigns")
  /\ analyticsRows' = {}
  /\ UNCHANGED <<campaigns, displayOrder, status, observed, environmentRow>>

\* Deleting campaigns takes their analytics rows along (on delete cascade);
\* what was observed of deleted rows is forgotten.
DeleteCampaigns ==
  /\ campaigns' = {}
  /\ displayOrder' = [c \in CampaignIds |-> 0]
  /\ status' = [c \in CampaignIds |-> "none"]
  /\ analyticsRows' = {}
  /\ snapshot' = [r \in Requests |-> {}]
  /\ seen' = [c \in CampaignIds |-> {}]

ClearCampaigns ==
  /\ RunStatement("clearCampaigns", "clearEnvironment")
  /\ DeleteCampaigns
  /\ UNCHANGED environmentRow

ClearEnvironment ==
  /\ RunStatement("clearEnvironment", "addEnvironment")
  /\ DeleteCampaigns
  /\ environmentRow' = FALSE

AddEnvironment ==
  /\ RunStatement("addEnvironment", "addCampaigns")
  /\ environmentRow' = TRUE
  /\ UNCHANGED <<tables, observed>>

AddCampaigns ==
  /\ RunStatement("addCampaigns", "addAnalytics")
  /\ campaigns \cap SeedCampaigns = {}
  /\ campaigns' = campaigns \cup SeedCampaigns
  /\ displayOrder' = [c \in CampaignIds |->
                        IF c \in SeedCampaigns THEN SeedOrder[c] ELSE displayOrder[c]]
  /\ status' = [c \in CampaignIds |-> IF c \in SeedCampaigns THEN SeedStatus[c] ELSE status[c]]
  /\ UNCHANGED <<analyticsRows, observed, environmentRow>>

\* A duplicate key stops the script: the insert has no conflict clause.
AddCampaignsConflict ==
  /\ RunStatement("addCampaigns", "conflict")
  /\ campaigns \cap SeedCampaigns # {}
  /\ UNCHANGED <<tables, observed, environmentRow>>

\* A variant that leaves the analytics rows to the next batch.
AddNoAnalytics ==
  /\ RunStatement("addAnalytics", "done")
  /\ UNCHANGED <<tables, observed, environmentRow>>

AddAnalytics ==
  /\ RunStatement("addAnalytics", "done")
  /\ analyticsRows' = analyticsRows \cup SeedCampaigns
  /\ UNCHANGED <<campaigns, displayOrder, status, observed, environmentRow>>

\* Postgres is away, or another table's statement fails.
InitFails ==
  /\ initPc \in Script
  /\ initPc' = "failed"
  /\ UNCHANGED <<storeVars, environmentRow, starts>>

InitScript ==
  \/ StartInit
  \/ ClearAnalytics \/ ClearCampaigns \/ ClearEnvironment
  \/ AddEnvironment \/ AddCampaigns \/ AddCampaignsConflict \/ AddAnalytics
  \/ InitFails

\* A new campaign row needs the environment it references.
HandlerStep(r) ==
  /\ Call(r) \/ Statement(r) \/ Abandon(r) \/ Drop(r)
  /\ campaigns' = campaigns \/ environmentRow
  /\ UNCHANGED initVars

InitNext == InitScript \/ \E r \in Requests : HandlerStep(r)

InitSpec == InitInit /\ [][InitNext]_allVars

-----------------------------------------------------------------------------
\* After a complete run the seed is whole, and again only a create that
\* knows of it has left a campaign without its analytics row, whatever
\* handlers did between the deletes and the inserts.
CompleteRunRestores ==
  initPc = "done" =>
    /\ environmentRow
    /\ SeedCampaigns \subseteq campaigns \cap analyticsRows
    /\ HalfCreatedIsKnown

\* The script can be repeated: what an earlier run left behind, wherever it
\* stopped, never makes it fail.  Only a create for a seeded identifier,
\* slipped in after the deletes, can.
ConflictNeedsCreate ==
  initPc = "conflict" =>
    \E r \in Requests : operation[r] = "create" /\ target[r] \in SeedCampaigns

\* The volumes are reused by a further start (README.md:108): what operators
\* were told is stored is there after it.
StoredSurvivesRestart == initPc = "done" => SuccessIsDurable
=============================================================================
