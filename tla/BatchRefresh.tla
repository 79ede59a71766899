---------------------------- MODULE BatchRefresh ----------------------------
(***************************************************************************)
(* The job refresh_batch_and_serving of dagster/repository.py: fetch the   *)
(* partner snapshot into Iceberg and then into appdb, let dbt rebuild the  *)
(* marts from the analytics tables of appdb, and publish each mart to      *)
(* ClickHouse by TRUNCATE and INSERT.  Each statement commits by itself.   *)
(*                                                                         *)
(* A mart is the version of the analytics tables it was built from.  A     *)
(* serving table is the sequence of the mart versions inserted since it    *)
(* was last truncated.  When a run fails, the statement it had sent may    *)
(* still take effect afterwards.                                           *)
(***************************************************************************)
EXTENDS Naturals, Sequences

CONSTANTS
  Runs,         \* Dagster runs; one that ended stands for the next again
  MaxVersion,   \* bound: changes of the analytics tables
  MaxMishaps    \* bound: how many runs fail, or start beside one at work

ASSUME BoundsAssumption == MaxVersion \in Nat /\ MaxMishaps \in Nat

Tables == {"campaign_performance", "product_engagement"}

\* A variant that does not empty the tables.
PlanAppends ==
  << <<"insert", "campaign_performance">>, <<"insert", "product_engagement">> >>

\* A variant that empties a table after it has filled it.
PlanInsertFirst ==
  << <<"insert", "campaign_performance">>, <<"truncate", "campaign_performance">>,
     <<"insert", "product_engagement">>,   <<"truncate", "product_engagement">> >>

\* publish_serving_tables, statement by statement.
Plan == << <<"truncate", "campaign_performance">>, <<"insert", "campaign_performance">>,
           <<"truncate", "product_engagement">>,   <<"insert", "product_engagement">> >>

VARIABLES
  version,   \* version of analytics.platform_campaign_analytics and its sibling
  mart,      \* the version each mart was built from
  serving,   \* the contents of each ClickHouse serving table
  iceberg,   \* runs whose records are in third_party_snapshots
  appdb,     \* runs whose records are in raw_third_party_records
  pc,        \* where a run is
  unbuilt,   \* the marts its dbt run has still to build
  at,        \* its place in Plan
  dead,      \* runs that failed with a statement under way
  mishaps

\* Observation only: the run that started last, the version then, and that run
\* again if nothing of another was left when it started.
VARIABLES latest, since, alone

vars == <<version, mart, serving, iceberg, appdb, pc, unbuilt, at, dead, mishaps, latest, since, alone>>

Active == {"snapshot", "records", "dbt", "publish"}

TypeOK ==
  /\ version \in Nat
  /\ mart \in [Tables -> Nat]
  /\ serving \in [Tables -> Seq(Nat)]
  /\ iceberg \subseteq Runs /\ appdb \subseteq Runs
  /\ pc \in [Runs -> Active \cup {"ready", "done", "failed"}]
  /\ unbuilt \in [Runs -> SUBSET Tables]
  /\ at \in [Runs -> 1 .. Len(Plan)]
  /\ dead \subseteq Runs
  /\ mishaps \in Nat
  /\ latest \subseteq Runs
  /\ since \in Nat
  /\ alone \subseteq Runs

Init ==
  /\ version = 0
  /\ mart = [t \in Tables |-> 0]
  /\ serving = [t \in Tables |-> <<>>]
  /\ iceberg = {} /\ appdb = {}
  /\ pc = [r \in Runs |-> "ready"]
  /\ unbuilt = [r \in Runs |-> {}]
  /\ at = [r \in Runs |-> 1]
  /\ dead = {}
  /\ mishaps = 0
  /\ latest = {}
  /\ since = 0
  /\ alone = {}

-----------------------------------------------------------------------------
Idle(r)   == pc[r] \notin Active
AtWork(r) == pc[r] \in Active /\ r \notin dead

\* After a statement a run goes on, unless it had failed with it under way.
GoOn(r, next) ==
  /\ pc' = [pc EXCEPT ![r] = IF r \in dead THEN "failed" ELSE next]
  /\ dead' = dead \ {r}

\* The platform writes its analytics tables.
Change ==
  /\ version < MaxVersion
  /\ version' = version + 1
  /\ UNCHANGED <<mart, serving, iceberg, appdb, pc, unbuilt, at, dead, mishaps, latest, since, alone>>

\* The schedule, once it is turned on, or an operator; nothing keeps a run from
\* starting beside another.  The records it fetches have new identifiers.
Start(r) ==
  /\ Idle(r)
  /\ IF \A q \in Runs : ~AtWork(q)
     THEN UNCHANGED mishaps
     ELSE mishaps < MaxMishaps /\ mishaps' = mishaps + 1
  /\ pc' = [pc EXCEPT ![r] = "snapshot"]
  /\ unbuilt' = [unbuilt EXCEPT ![r] = Tables]
  /\ at' = [at EXCEPT ![r] = 1]
  /\ iceberg' = iceberg \ {r} /\ appdb' = appdb \ {r}
  /\ latest' = {r} /\ since' = version
  /\ alone' = (IF \A q \in Runs : Idle(q) THEN {r} ELSE {})
  /\ UNCHANGED <<version, mart, serving, dead>>

\* A variant that leaves Iceberg out when its catalog is away.
SkipSnapshot(r) ==
  /\ pc[r] = "snapshot"
  /\ iceberg' \in {iceberg, iceberg \cup {r}}
  /\ GoOn(r, "records")
  /\ UNCHANGED <<version, mart, serving, appdb, unbuilt, at, mishaps, latest, since, alone>>

InsertSnapshot(r) ==
  /\ pc[r] = "snapshot"
  /\ iceberg' = iceberg \cup {r}
  /\ GoOn(r, "records")
  /\ UNCHANGED <<version, mart, serving, appdb, unbuilt, at, mishaps, latest, since, alone>>

InsertRecords(r) ==
  /\ pc[r] = "records"
  /\ appdb' = appdb \cup {r}
  /\ GoOn(r, "dbt")
  /\ UNCHANGED <<version, mart, serving, iceberg, unbuilt, at, mishaps, latest, since, alone>>

\* A variant that publishes as soon as one mart is built.
BuildOneMart(r, t) ==
  /\ pc[r] = "dbt" /\ t \in unbuilt[r]
  /\ mart' = [mart EXCEPT ![t] = version]
  /\ unbuilt' = [unbuilt EXCEPT ![r] = {}]
  /\ GoOn(r, "publish")
  /\ UNCHANGED <<version, serving, iceberg, appdb, at, mishaps, latest, since, alone>>

\* dbt builds its models on threads, each replacing its table at once.
BuildMart(r, t) ==
  /\ pc[r] = "dbt" /\ t \in unbuilt[r]
  /\ mart' = [mart EXCEPT ![t] = version]
  /\ unbuilt' = [unbuilt EXCEPT ![r] = @ \ {t}]
  /\ GoOn(r, IF unbuilt[r] = {t} THEN "publish" ELSE "dbt")
  /\ UNCHANGED <<version, serving, iceberg, appdb, at, mishaps, latest, since, alone>>

\* A variant that ends after the first table.
AdvanceOnce(r) ==
  /\ GoOn(r, IF at[r] = 2 THEN "done" ELSE "publish")
  /\ at' = [at EXCEPT ![r] = IF @ = Len(Plan) THEN @ ELSE @ + 1]
  /\ UNCHANGED <<version, mart, iceberg, appdb, unbuilt, mishaps, latest, since, alone>>

Advance(r) ==
  /\ GoOn(r, IF at[r] = Len(Plan) THEN "done" ELSE "publish")
  /\ at' = [at EXCEPT ![r] = IF @ = Len(Plan) THEN @ ELSE @ + 1]
  /\ UNCHANGED <<version, mart, iceberg, appdb, unbuilt, mishaps, latest, since, alone>>

Truncate(r, t) ==
  /\ pc[r] = "publish" /\ Plan[at[r]] = <<"truncate", t>>
  /\ serving' = [serving EXCEPT ![t] = <<>>]
  /\ Advance(r)

\* INSERT ... SELECT reads the mart when it runs.
InsertServing(r, t) ==
  /\ pc[r] = "publish" /\ Plan[at[r]] = <<"insert", t>>
  /\ serving' = [serving EXCEPT ![t] = Append(@, mart[t])]
  /\ Advance(r)

\* A variant that parks a failed run for a retry nobody makes.
Park(r) ==
  /\ AtWork(r) /\ mishaps < MaxMishaps
  /\ mishaps' = mishaps + 1
  /\ pc' = [pc EXCEPT ![r] = "retrying"]
  /\ UNCHANGED <<version, mart, serving, iceberg, appdb, unbuilt, at, dead, latest, since, alone>>

\* An error, or the end of the run's process; Dagster does not retry.
Fail(r) ==
  /\ AtWork(r) /\ mishaps < MaxMishaps
  /\ mishaps' = mishaps + 1
  /\ dead' = dead \cup {r}
  /\ UNCHANGED <<version, mart, serving, iceberg, appdb, pc, unbuilt, at, latest, since, alone>>

\* A variant in which a build that fails leaves an empty mart.
DropMart(r) ==
  /\ pc[r] \in Active /\ r \in dead
  /\ pc' = [pc EXCEPT ![r] = "failed"]
  /\ dead' = dead \ {r}
  /\ mart' = [t \in Tables |-> IF pc[r] = "dbt" /\ t \in unbuilt[r] THEN 0 ELSE mart[t]]
  /\ UNCHANGED <<version, serving, iceberg, appdb, unbuilt, at, mishaps, latest, since, alone>>

\* The statement under way at a failure never takes effect.
Drop(r) ==
  /\ pc[r] \in Active /\ r \in dead
  /\ pc' = [pc EXCEPT ![r] = "failed"]
  /\ dead' = dead \ {r}
  /\ UNCHANGED <<version, mart, serving, iceberg, appdb, unbuilt, at, mishaps, latest, since, alone>>

RunStep(r) ==
  \/ InsertSnapshot(r) \/ InsertRecords(r)
  \/ \E t \in Tables : BuildMart(r, t) \/ Truncate(r, t) \/ InsertServing(r, t)
  \/ Drop(r)

Next == Change \/ \E r \in Runs : Start(r) \/ RunStep(r) \/ Fail(r)

Spec == Init /\ [][Next]_vars

\* The systems a run calls answer.  Nothing is assumed of starts: the schedule
\* is off until somebody turns it on.
Fairness == \A r \in Runs : WF_vars(RunStep(r))

FairSpec == Spec /\ Fairness

-----------------------------------------------------------------------------
\* "prevents split-brain anomalies" (dagster/README.md:19): a serving table
\* never holds the rows of two inserts.
OneInsertServed == \A t \in Tables : Len(serving[t]) <= 1

\* A table gets the rows of a second insert only while runs overlap: a run
\* that started with nothing of another left inserts into tables it has
\* emptied itself, whatever failed or overlapped before it.
SecondInsertNeedsOverlap ==
  [][\A t \in Tables : Len(serving[t]) > 0 /\ Len(serving'[t]) > Len(serving[t]) => alone = {}]_vars

\* "atomic consistency matching the latest transformation run": once the
\* latest run is done, and none overlapped it, each table serves the mart as
\* it is, and only that, also where earlier runs had left two inserts.
DoneServesMarts ==
  \A r \in alone : pc[r] = "done" => \A t \in Tables : serving[t] = <<mart[t]>>

\* Once the latest run is done nothing older than what it found at its start
\* is served, by whichever overlapping run it was inserted: every mart was
\* rebuilt before any table was emptied.
DoneIsFresh ==
  \A r \in latest : pc[r] = "done" =>
    \A t \in Tables : \A i \in 1 .. Len(serving[t]) : serving[t][i] >= since

\* What reaches appdb from a partner is in the lakehouse already.
RecordsAreInLakehouse == appdb \subseteq iceberg

\* If runs are started again and again, a table emptied by one that failed is
\* filled again by a later one.
EmptyIsRefilled ==
  []<><<\E r \in Runs : Start(r)>>_vars =>
    \A t \in Tables : serving[t] = <<>> ~> serving[t] # <<>>
=============================================================================
