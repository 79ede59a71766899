# Formal models of flo-mimi

TLA+ models of the marketing platform in this repository. TLC checks every
property on small instances; TLAPS proves every safety property and every refinement for
every value of the constants. Liveness is model-checked only. All paths below are
relative to the repository's `src/`.

## 1. The system

| Part | State it keeps | Operations |
| --- | --- | --- |
| Interaction service `platform/internal/http`, `platform/internal/application/interactions` | none beyond the request | `POST /api/interactions` → `Record`: validate, normalise, store, publish, answer |
| Event gateway adapter `platform/internal/adapters/gateway` | none | `PublishInteraction`: POST to `/events/analytics`, then to `/events/email` |
| Campaign and subscriber store `platform/internal/adapters/content` | tables of appdb (PostgreSQL), a pool of connections | `Apply` → `createCampaign`, `scheduleCampaign`, `createSubscriber`; `Load` |
| appdb seeding `appdb/init`, `docker-compose.yml` | the same tables | `appdb-init` runs four SQL files at every start |
| Bootstrap view `platform/internal/application/bootstrap`, `adapters/analytics` | none | `GET /api/bootstrap` → `Load`, `GET /api/analytics` → `LoadAnalytics`: a row of appdb; the analytics section from a Trino statement and its pages, or without it as appdb has it |
| Console `platform/web` | the model on screen, a pending flag | load, post a command, reload |
| Event gateway `event-gateway` | the producer's queue | produce, `flush(5)` |
| Stream loader `redpanda-connect` | consumer offsets | each message to S3 and to ClickHouse |
| ClickHouse `clickhouse/init` | raw and parsed events, serving tables | materialised view, backfill |
| Dagster `dagster/repository.py` | Dagster's own | `refresh_batch_and_serving` (daily) and `sync_object_metadata_job` (hourly), once their schedules are turned on; catalog init |
| dbt `dagster/dbt` | marts in appdb | rebuild from the analytics tables |
| Lakehouse init `trino/init` | Iceberg, Hive and ClickHouse tables | idempotent DDL, the view, the backfill, with retries |
| Telemetry `platform/internal/telemetry` | counters, the last outcome of each route | middleware |
| Partner API mock, observability, catalogues | — | configuration and stand-ins |

How they interact: the console posts a command to the platform. `Record` writes
appdb, then posts one or two events to the gateway, which produces them to
Redpanda; the stream loader copies them to MinIO and ClickHouse. Hourly, Dagster
indexes the MinIO objects in Iceberg. Daily, it fetches the partner snapshot,
lets dbt rebuild the marts from appdb, and publishes them to ClickHouse, from
where Trino serves the console's charts. Every `docker compose up` reseeds appdb
beside whatever is running.

What is hard in it:

- **Handlers without transactions.** `createCampaign` is up to four statements
  and `scheduleCampaign` one; each commits by itself and Go runs requests
  concurrently.
- **A transaction with locks.** `createSubscriber` is one READ COMMITTED
  transaction whose statements wait for others and can deadlock.
- **Two systems, no atomic commit.** The store and two posts; the client's
  time-out does not stop a post that is on its way.
- **Seeding beside serving.** Deletes and inserts without a transaction,
  repeated, while handlers run.
- **At-least-once delivery.** Two sinks, one offset, repeats, late writes, and a
  producer whose failures nobody looks at.
- **Batch runs that fail anywhere**, with a statement still under way, that are
  never retried, and that nothing keeps from overlapping. Both schedules are
  defined without a `default_status` (`dagster/repository.py:390`, `:413`), so they are
  off until an operator turns them on.
- **Readers between statements.** A view mixes live figures of appdb with those of
  serving tables that a refresh run truncates and fills meanwhile, and follows
  Trino's pages for as long as Trino has more.
- **Identifiers made from what a client wrote**, or from a second of the clock.

What makes each part correct is stated with its module in section 3; the list of
hazards, each at its line and with the properties that cover it, is in
`PROJECT.json`.

## 2. Modules

```
CampaignTable ── (instantiated by CampaignStore)
Commands ──────┐
CampaignStore ─┼─ Interactions ─┬─ Interactions_proofs
               │                └─ MCInteractions
               ├─ AppdbInit ────┬─ AppdbInit_proofs
               │                └─ MCAppdbInit
               ├─ CampaignStore_proofs  (extended by the two proof modules above)
               └─ MCCampaignStore
SubscriberTable ── (instantiated by SubscriberStore)
SubscriberIdentity ── SubscriberStore ─┬─ SubscriberStore_proofs
                                       └─ MCSubscriberStore
EventGateway ──┐
LakehouseInit ─┼─ EventPipeline ─┬─ EventPipeline_proofs
Delivery ──────┘                 └─ MCEventPipeline
ObjectIndex ──── ObjectIndex_proofs, MCObjectIndex
BatchRefresh ─┬─ BootstrapView ─┬─ BootstrapView_proofs
              │                 └─ MCBatchRefresh
              └─ BatchRefresh_proofs  (extended by BootstrapView_proofs)
```

`Interactions` and `AppdbInit` both EXTEND `CampaignStore` and drive its actions,
so the store has one definition, and `BootstrapView` likewise extends
`BatchRefresh`; `EventPipeline` EXTENDS the two components it connects and
instantiates `Delivery`, which it implements. `CampaignTable`, `SubscriberTable` and
`Delivery` are the abstract specifications: what a component promises, in a
vocabulary without its statements. Operators whose comment says "A
variant that ..." are plausible mistakes beside the definition they would
replace; no specification uses them, and each breaks the property it is listed
with in `PROJECT.json`.

### CampaignTable, CampaignStore

State: the primary keys, `display_order` and `status` columns of
`platform_campaign`, the keys of `platform_campaign_analytics`, and for each
handler the local variables of `createCampaign`/`scheduleCampaign` and its next
statement. One action per SQL statement: `LookupOrder`, `NextOrder`,
`InsertCampaign`/`OverwriteCampaign` (the two outcomes of the upsert),
`SeedAnalytics`, `ScheduleCampaign`/`ScheduleMissing`. `Abandon` is an error at
any of them; the statement that was sent may still take effect (the action fires
later, and the handler ends in `failed`) or not (`Drop`). `snapshot` and `seen`
record which rows a number was computed from; no guard reads them.

- `NumberedAfterSeen`: a campaign comes after all that were visible when it was
  numbered. Two campaigns with one place were therefore created by overlapping calls,
  neither of which found the other's row (this does happen: the number is read and
  used in two statements).
- `SuccessIsDurable`: a handler that reported success left its effect.
- `HalfCreatedIsKnown`: a campaign without analytics belongs to a create under
  way or known to have failed.
- `ScheduledByItsLaunch`: nothing is scheduled but by its own launch.
- `PlaceIsPermanent`: no step moves or removes a campaign, although the upsert
  carries a display order that may be stale.
- `ImplementsTable`: the statements of all handlers together are a table
  (`CampaignTable`) on which a request takes effect at one instant and at most once,
  touches its own campaign only, and has taken effect when its caller is told of
  success. A caller that was told of an error may see the effect that was under way
  arrive later (`Put`, `Complete` or `Launch` after `Fail`), and no other after it.

### Commands, Interactions

`Commands` is the pure part: defaults, `requiresCampaignIdentity`,
`deriveCampaignID`, the placeholder rule, the dispatch of `Apply` and the channel
choice and payload identifiers of the adapter. A string is a word and whether it
has blanks around it, which is what the comparisons of the code tell apart
(`Record` compares the action as it stands, the store trims it).

`Interactions` is a request from arrival to answer. `RecordInvalid`,
`RecordCreate`, `RecordLaunch`, `RecordSubscriber` and `RecordOther` are the ways
through `Record` up to the first store statement, `StoreStep` the store's
statements, and `Post`, `Take`/`Lose`, `Acknowledged`/`PostFailed`, `Accept` the
publication: a post leaves, arrives and is answered in three steps, and
`PostFailed` (refusal, broken connection, time-out) may come at any time, also
when the post is still on its way. `AcceptLate` is the command that took longer
than the server's `WriteTimeout` of 15 s, which two posts of 8 s can: everything
was done and the caller gets no 202.

- `AcceptedIsComplete`: a 202 means the store effect and every required event.
- `EffectsInOrder`: what a failed command leaves behind is a prefix of store,
  analytics, email, also when a post arrives late.
- `EventsNameStoredCampaign`: both events of a stored campaign name the row that was
  stored, to the letter unless the command put blanks around an identifier. The
  analytics event of a launch that names its campaign as the subject only has an
  empty `campaign_id` (`event_gateway.go:91`) and names the row by its `subject_id`; an
  email event always has the `campaign_id`.
- `PlaceholderHasCause`: a row under a placeholder was seeded so, or its client gave
  the placeholder as the `campaignId`, or its action had blanks around it. Both
  causes are in the catalogue and do happen. `identified` is an observation: the
  normalised command no longer tells what the client named from what was derived.
- `EveryCommandAnswered` (liveness).

### SubscriberIdentity, SubscriberTable, SubscriberStore

`SubscriberIdentity` is `resolveSubscriberID`: the first of subject, `subscriberId`,
email and name that is neither missing nor the placeholder `new-subscriber` nor
without a slug; if none is, an identifier made from the second. A text is what the
client wrote together with its slug, so that "Ada" and "ada@home" are two texts
with one slug, and the placeholder is compared as text and not as slug, as in the
code.

`SubscriberStore` is `createSubscriber`: READ COMMITTED, so a statement sees the
committed tables and its own transaction's writes (`Seen`, `tx`). The upsert holds
the subscriber's row to the end; `AddFilter` waits for another transaction that is
adding the same label. `Deadlocked` are the handlers that wait in a circle;
PostgreSQL aborts one of them (`AbortDeadlocked`). `Begin` needs a free connection
of the pool.

- `SubscriberIsWhole`: segments, labels and address of a subscriber are those of
  one command, and a stored command left a subscriber.
- `LabelsNumberedInTurn`: a label comes after those visible when it was numbered.
- `EveryCommandEnds` (liveness): every command ends and gives its connection
  back.
- `ImplementsTable`: the transactions together are a table (`SubscriberTable`) on
  which a command is stored at one instant, with all its segments and labels and
  nothing of what the subscriber had, or not at all; places and the numbers of
  labels are given once. The instant is the commit. A request whose commit was
  not confirmed reports an error and may have been stored.

### AppdbInit

`docker compose up` runs the seeding script again: `StartInit`, then the
statements on the campaign tables and on the environment row they reference, in
the order of the file, each committing alone; `InitFails` at any of them.
`HandlerStep` runs the handlers between them and adds the foreign key on the
environment. The deletes cascade.

- `CompleteRunRestores`: after a run that completes, the seed is whole and no
  unknown campaign is half created.
- `ConflictNeedsCreate`: the script fails on its own inserts only if a create
  for a seeded identifier slipped in between.
- `NumberedAfterSeen` still holds, for what was observed since the deletes.

### ObjectIndex

`sync_object_metadata`: `ReadIndex` (the keys read once), `ListPage` (one page at
a time, objects arriving meanwhile), `SendBatch`/`CommitBatch`, `FinishRun`.
`FailRun` may leave an insert under way, which commits later or is dropped.
A run starts whenever its slot is free: beside another one, and beside the insert a
failed one has under way, since nothing in the code or in `dagster.yaml` keeps runs
apart. `alone` is an observation: the run that started last, if nothing of another
was left then.

- `DoneMeansComplete`: a run that succeeds has indexed all that was there at its
  start, whatever overlaps it.
- `DuplicatesNeedOverlap`: an object gets a second row only from runs that overlap, a
  late insert counting as part of its run. `OneRowPerObject`, what the table's
  definition says, is refuted by a run of its own.
- `EveryObjectIndexed` (liveness): if runs are started again and again.
- `IndexGrows`: rows are only added, for objects of the bucket; proved, not run.

### BatchRefresh

`refresh_batch_and_serving`: partner records to Iceberg, then to appdb; dbt
builds each mart; `Plan` is the sequence of TRUNCATE and INSERT of
`publish_serving_tables`. A mart is the version of the analytics tables it was
built from, a serving table the sequence of versions inserted since it was
truncated. `Fail` is an error or a dead process; the statement under way takes
effect or not. A run may start beside others and beside what failed ones have under
way; `latest`, `since` and `alone` observe the run that started last.

- `SecondInsertNeedsOverlap`: a table that has rows gets more only from runs that
  overlap. `OneInsertServed`, what the documentation promises, is refuted by a run of
  its own.
- `DoneServesMarts`: when the latest run is done and none overlapped it, each table
  serves its mart as it is, also where earlier runs had left two inserts.
- `DoneIsFresh`: when the run that started last is done, nothing is served that is
  older than its start, overlapped or not: marts are built before tables are emptied.
- `RecordsAreInLakehouse`: partner records in appdb are in Iceberg.
- `EmptyIsRefilled` (liveness): if runs are started again and again.

### BootstrapView

One request for `/api/bootstrap` or `/api/analytics` after the other, beside the
refresh job: `Ask`, `LoadRow` (the row of `platform_bootstrap`, one statement and so
of one moment), then the loop of `query()`: a reply of Trino is a `Page` with a
`nextUri`, which `Follow` asks for, or the `LastPage`. `Execute` is Trino reading the
serving table, when it gets to the statement; until then every page has a `nextUri`
and no data. `LastPage` replaces the analytics section by Trino's figures and keeps
the live figures of the other sections, so an answer has both (`live`, `figures`).
`TrinoFails` on any page, or after the client's 15 s for one HTTP request: then
`Load` keeps appdb's analytics section, a text without figures, and `LoadAnalytics`
returns an error. `LoadRowFails` and `GiveUp` (the caller leaves) end a request too,
and any answer may be lost to the server's `WriteTimeout` (`Answer`). Requests only
read, so one at a time stands for any number. Figures are the versions of the
analytics tables they were computed from.

- `CalmViewIsCurrent`: in a view asked for and answered while the job rests (its
  latest run done, overlapped by none, none started since) Trino's figures are the
  mart as published: not the zeros of a truncated table, not an earlier run's, not
  two; and the live figures beside them are at least as new. `calm` is an
  observation.
- `ViewsNeverGoBack`: at any time, also between TRUNCATE and INSERT and where runs
  overlap, a caller gets zeros or figures at least as new as any caller before.
- `EveryViewAnswered` (liveness): a request is answered unless Trino never gets to
  its statement. The loop has no end of its own.

### EventGateway, LakehouseInit, Delivery, EventPipeline

`EventGateway`: `Produce` or `Refuse` (BufferError), then `FlushEmpties` or
`FlushRunsOut`; both are answered "accepted", since `publish` ignores what `flush`
returns. The producer delivers, repeats or gives up in the background
(`Deliver`, `AppendUnacknowledged`, `GiveUp`), and `GatewayCrash` loses its queue.

`LakehouseInit`: ClickHouse's `raw_payload` and `raw_events` as rows per event, the
view as part of `InsertRaw`, and `bootstrap.py`: `Up` starts it, `StatementDone` and
`StatementFails` are the tries of `retry`. A try that failed was executed, was not,
or, for the backfill, will be (`OrphanExecutes`).

`EventPipeline` adds the stream loader: `Fetch`, `Write` per sink, `Commit` up to the
first message that is not done, `WriteTimesOut` and `LateWrite` (the loader repeats
a write that may still arrive), `InsertBreaks` (the row is written and the view
fails), `LoaderCrash`. It starts when lakehouse-init has completed. Redpanda
Connect, librdkafka and ClickHouse are external; the model takes what
`connect.yaml` and `main.py` configure or leave at its default. Its topics are
alike and one stands for both.

`Delivery` is the promise: a topic, two sets of stored events, an offset that passes
an event only when both sinks have it.

- `ImplementsDelivery`: the loader implements it. The loader decides by what was
  acknowledged to the process that runs; the promise is about what is stored.
- `CommittedIsParsed`: a committed event is in `raw_events`. This needs the start
  order: with rows in `raw_payload` before the view exists it is false.
- `DuplicatesNeedFailure`: without a failure and at the first start there is one
  object and one row of each event. This too rests on the start order.
- `FlushSettles`, `AcceptedSettles` (liveness): what an answer of the gateway means:
  after a drained flush the event is published or given up, after one that ran
  out it will be.
- `EveryLoggedEventLands` (liveness).

## 3. Runs

| Run | Bounds | Shows |
| --- | --- | --- |
| `store` | 3 handlers, 3 campaigns (1 seeded), 2 brief statuses | safety of `CampaignStore`, and that it implements `CampaignTable` |
| `interactions` | 2 requests, 14 commands, 2 seconds (159,000 states) | safety and liveness of `Interactions` |
| `interactions_briefs` | 2 console briefs | `EachBriefHasItsRow` is violated |
| `appdb_init` | 2 handlers, 2 campaigns, 3 starts | the safety of `AppdbInit` |
| `appdb_init_keeps` | the same | `StoredSurvivesRestart` is violated |
| `object_index` | 3 objects, pages and batches of 2, 2 run slots that may overlap, 1 failure (239,000 states) | safety and liveness of `ObjectIndex` |
| `object_index_twice` | the same | `OneRowPerObject` is violated |
| `batch_refresh` | 2 run slots, 1 change, 1 mishap, requests without end (401,000 states) | safety and liveness of `BatchRefresh` and of `BootstrapView` |
| `batch_refresh_overlap` | the same, 2 changes | `OneInsertServed` is violated |
| `subscribers` | 3 handlers, 2 connections, 4 commands, 3 labels, 2 seconds (307,000 states) | safety and liveness of `SubscriberStore`, and that it implements `SubscriberTable` |
| `event_pipeline` | 2 events, queue of 1, window of 2, 2 tries, 1 start, 2 failures | safety, refinement and liveness of `EventPipeline` |
| `event_pipeline_again` | the same, 2 starts, no failure | `BackfillIsOneTime` is violated |

Why the bounds are enough. Three handlers are one more than any race in the
store needs: one creates, one interferes, one observes. Two of the campaigns are
new, so ties occur. In `Interactions` two requests reach every interleaving of two
commands; the second is there because a command's store effect can be undone or
overwritten only by another. Three objects in pages and batches of two force two
pages and two batches. Three starts are two restarts: one that fails and one that
recovers. Run slots are reused when a run has ended, so two slots are any number
of successive runs. Three labels, one seeded, let two commands add the same two
labels in opposite orders. Two events put two messages under way, so the second
can be done first, and let one flush wait for the message of another; two
failures are a lost answer and a crash, or both tries of a statement. A queue of
one refuses and holds; a second start of the stack adds only to `parsed`, and
the proofs cover any number of starts. One change of the analytics tables tells
two versions apart, which is all a view can mix. A mishap is a run that fails, or one
that starts beside another at work: one is a table left empty, a late statement
beside the next run, or two runs that overlap, and the proofs cover any number. In
`ObjectIndex` overlaps are not bounded at all, and one failure leaves the late insert.
In `subscribers` the four
commands name one person in two ways, another person, and nobody.

Bounds in guards: `MaxSecond` (clock), `MaxStarts`, `MaxUps`, `MaxFailures`,
`MaxMishaps`, `MaxVersion`; catalogues of commands, `PoolSize`, `QueueSize`, `Window` and
`Attempts` are parameters. `CHECK_DEADLOCK FALSE` is used where handlers or events
are served once each and the system then stops.

### Fairness

- `Interactions`: weak fairness per handler on its store steps and on its
  publication. Go schedules a runnable goroutine, PostgreSQL answers or the
  connection breaks, and the HTTP client ends every post after 8 s
  (`cmd/server/main.go:47-50`). Arrival of posts (`Take`, `Lose`) is not fair: an
  answer does not depend on it. A handler serves one command, so that every
  command is answered is `<>[]`: from some time on all that arrived are. The same
  goes for `EveryCommandEnds`.
- `SubscriberStore`: weak fairness per handler on the steps of its transaction,
  waits excepted; a deadlock is ended by PostgreSQL's deadlock detection. Failures
  are not fair.
- `BootstrapView`: weak fairness of the request's `Progress`: PostgreSQL answers, each
  HTTP request to Trino ends within the client's 15 s, one way or the other, and
  `query()` asks for the next page. Nothing is assumed of `Execute`, so the loop over
  the pages may go on for ever, and `EveryViewAnswered` says exactly when it does:
  when a statement stays queued for ever. `WriteTimeout` takes the connection and
  does not end the loop, and a caller need not give up.
- `EventPipeline`: weak fairness of the producer settling what it holds
  (librdkafka gives up after `message.timeout.ms`) and of a running loader's steps.
  The loader has no restart policy, so that it runs is the condition of
  `EveryLoggedEventLands` and not assumed.
- `ObjectIndex`, `BatchRefresh`: weak fairness of each run's steps. Nothing is assumed of
  starts: both schedules are off until an operator turns them on, and no script does.
  The liveness properties therefore have a premise, that runs are started again and
  again. Failures are bounded, so they say "when runs do not fail for ever" too.

## 4. What the violations show

1. `interactions_briefs`: "Creates an appdb-backed campaign row"
   (`appdb/init/02_platform_bootstrap.sql:416`). Identifiers of console briefs have
   the resolution of a second; the second brief of a second overwrites the first
   and both are accepted.
2. `appdb_init_keeps`: "If you want to reuse the current named volumes"
   (`README.md:108`). The normal start reseeds appdb and deletes what was stored.
3. `object_index_twice`: "Stores one row per object."
   (`trino/init/01_ingress_catalogs.sql:8`). Overlapping runs index an object twice.
4. `batch_refresh_overlap`: "prevents split-brain anomalies, guarantees atomic
   consistency" (`dagster/README.md:19`). Overlapping runs leave every row twice.
5. `event_pipeline_again`: "This is a one-time backfill"
   (`clickhouse/init/01_mv_parse_raw_payload.sql:23`). Every start of the stack runs
   it, over rows the view has parsed already.

## 5. Proofs

For every value of the constants, by TLAPS, from the named assumptions of the
modules only. Every invariant of a passing run is proved, and so are the action
properties and the three refinements. No theorem has a hypothesis beyond the
assumptions but `NobodyStopsAll`, which assumes that the requests are finitely many: an
infinite line of waiting transactions has no circle to break.

- **`CampaignStore_proofs`**: all properties of the run `store`, and the type invariant.
  The inductive invariant adds to them `RowsNumbered` (an absent row, and no other, has number
  0: the code tells the two apart by that 0), `HeldNumber` (between computing its
  number and inserting its row a handler's number exceeds those of all rows it
  saw, which holds because rows never move), `Errand` (which statement a handler is
  at says what it was called for) and `SeedHasRow`. The refinement
  (`StoreImplementsTable`) goes statement by statement: upserts map to `Put`, the
  analytics row to `Complete`, lookups to stutters. It needs one more invariant: a
  handler has succeeded or has given its caller an error, never both (`Answered`).
- **`AppdbInit_proofs`**: the deletes break `SeedHasRow` and `SuccessIsDurable`, so only
  `Errand` and `Numbering` are kept from the store, for what was observed since the
  deletes (`AbsentUnseen`). `Restored` and `HalvesKnown` carry what a complete run
  restores from statement to statement; `RowsAreCreated` says that between the
  deletes and the inserts every row is a create's, which is why nothing else can
  make the script fail. `InitTypeOK` is proved here and not run. The promise that
  the run `appdb_init_keeps` refutes is true until the second start
  (`StoredSurvivesFirstStart`): the seeding, and no handler, is what breaks it.
- **`Interactions_proofs`**: `ServiceImplementsStore` shows that the service moves the
  store only as the store's own specification allows, so every theorem about
  `CampaignStore` holds in it, and the service implements `CampaignTable`
  (`ServiceImplementsTable`). `ServiceInv` adds what has happened by the time a
  request publishes, is acknowledged or waits for its second post (`Progressed`) and
  what a post stands for wherever it is (`Sent`); with `SuccessIsDurable` it gives
  `AcceptedIsComplete` and `EffectsInOrder`. `Named` (a post carries the identifiers of
  its command) gives `EventsNameStoredCampaign`; `Derived` (a row is seeded or named by
  a request's normalised command, which names a placeholder only for one of the two
  causes) gives `PlaceholderHasCause`. Neither restricts what clients write.
- **`SubscriberStore_proofs`**: both invariants of the run `subscribers`.
  `Resolved` ties a handler's identifier to its command. `LabelInv` needs `AddsAlone`
  (one open transaction at a time adds a label). `RowInv` follows a transaction
  through its deletes and inserts (`Progress`) and survives the commits of others
  because the upsert holds the row (`OneWriter`). The refinement
  (`StoreImplementsTable`) maps a commit to the abstract store: that it writes the
  whole command is `RowInv` at the end of a transaction, that it takes no number
  away is `LabelInv`, and that every label of the command has a number by then
  is one more invariant, `AllReady`. Two theorems are the part of `EveryCommandEnds`
  that needs no fairness: `StepsRunOut` (a command with n labels has at most 8 + 4n
  statements to go, each of its own steps leaves fewer, and those of others leave it
  as it is) and `NobodyStopsAll` (if anybody is under way, somebody waits neither for
  a connection nor for a lock, or is in a circle that PostgreSQL breaks). The second
  takes a smallest set of transactions that wait for one another (`CircleExists`),
  which is what `Deadlocked` contains. What is left to the model checker is that a
  step that stays possible is taken.
- **`ObjectIndex_proofs`**: everything for runs that overlap and fail anywhere.
  `Progress` says that every key that was there at the start is in the index, found,
  being sent, or beyond the cursor, which gives `DoneMeansComplete`. `Alone` says that
  after a run that started with nothing of another left nobody else is at work until
  the next start, and `Fresh` that what such a run holds is not indexed, which gives
  `DuplicatesNeedOverlap`. `IndexGrows` is proved and not run.
- **`BatchRefresh_proofs`**: likewise without a condition on starts. `Filled` says what
  the serving tables hold at each place of the plan of a run that nothing overlaps
  (`Alone`); it gives `DoneServesMarts` and `SecondInsertNeedsOverlap`. `Fresh` says that
  what the latest run has built was built since its start, by it or by another run,
  and so was what the tables it has emptied hold: overlaps do not hurt
  `DoneIsFresh`.
- **`BootstrapView_proofs`**: requests leave the job as it is (`ViewRefines`), so the
  theorems above carry over. `Held` says that while the job rests a request holds what
  the job has published and live figures that are at least as new, which gives
  `CalmViewIsCurrent`; `Behind` that what any caller has got is not newer than the
  last rows of the table, nor than the mart, which gives `ViewsNeverGoBack`: marts are
  only rebuilt from newer tables (`MartStep`).
- **`EventPipeline_proofs`**: `TypeOK`, `FlushSettles`, `CommittedIsParsed`,
  `DuplicatesNeedFailure` and the refinement `ImplementsDelivery`. `Accounted` says that
  a produced event is held, published or given up; `ViewFirst` that the view
  precedes the backfill and the loader; `AckedIsStored` and `CommittedIsStored` carry
  what the loader knows to what the sinks have, which is what the step `Commit` of
  the refinement needs. `Once` is the invariant of a stack started once where
  nothing failed: the script is done before anything is written, and a row is that
  of a message the sink acknowledged. `FirstBackfillIsOneTime` is to
  `event_pipeline_again` what `StoredSurvivesFirstStart` is to `appdb_init_keeps`: at the
  first start, unless a try of the script that was given up still executes, no event
  has more parsed rows than raw ones, whatever the loader repeats (`ScriptFirst`: no
  row is in `raw_payload` before the script is done).

Only model-checked: the liveness properties (`EveryCommandAnswered`,
`EveryCommandEnds`, `EveryObjectIndexed`, `EmptyIsRefilled`, `EveryViewAnswered`,
`AcceptedSettles`, `EveryLoggedEventLands`), since fairness and ENABLED are beyond the
prover. `NobodyStopsAll` speaks of the guards that can keep a handler waiting (`Waits`)
and not of ENABLED, for the same reason.

## 6. What is abstracted or left out

- Columns no decision reads (titles, counts, labels of a campaign), JSON, SQL text,
  logs, metrics. In `Commands` words are taken as lower case and hyphenated, so
  `slugify` acts as trimming; `SubscriberIdentity` keeps text and slug apart.
- Real time: time-outs are nondeterministic, the clock only dates identifiers.
- In `Interactions` the transaction of `add-subscriber` is one step, which takes
  effect or does not. `SubscriberStore` models its inside and implements
  `SubscriberTable`, where it is one step too.
- A mart is a version, not its figures: the arithmetic of the dbt models and of the
  ClickHouse queries is queries over one state. `BootstrapView` follows the campaign
  figures in the sections that show them; the rest of the row is read by the same
  statement.

Not modelled, and why:

- **Operator console** (`platform/web`): it applies views in the order they arrive.
  That they are applied in the order they were asked for is not what it does and
  no document says it does, so there is nothing to state about it. Its commands are
  in the catalogues.
- **Telemetry and request log**: nothing in the system reads them.
- **Bootstrap model, appdb schema and views, catalogues, observability, partner API
  mock**: declarations, queries over one state, configuration of other programs.
- **Server start and shutdown**: the wiring and the ping; the process keeps no state
  that its end could lose. Its time-outs are in `Interactions` and `BootstrapView`.
- **Whom a subscriber identifier stands for**: it is the local part of an address or
  the slug of a name, so alice@a.org and alice@b.org are one row, and the second command
  replaces the first. No document or test promises anything else, so there is no
  property; `SubscriberIsWhole` says that the row is one of the two and no mixture.
- **The materialised view applied by hand** (`README.md:327-336`): it sends the same
  statements as `bootstrap.py`, and a further start of the stack stands for it.
- **Events the gateway accepted and gives up**: `FlushSettles` and `AcceptedSettles` allow
  them, since librdkafka gives up after its time-out and nobody is told.
- Of partly modelled parts: the seeding of the tables of subscribers, filters,
  signals and the dashboard, which has the shape of what `AppdbInit` models; the
  Iceberg and Hive statements of `trino/init`, which are idempotent; the columns the
  ClickHouse view extracts; the health checks of the compose file.

## 7. Plan

Written, in this order: the store, because every command ends there; the service
over it; seeding; the two Dagster jobs; the subscriber transaction; the event
pipeline; the identity of subscribers; the readers of the serving tables; the
proofs of each, components first and compositions after them.

What could follow, if the code grows there:

1. The remaining tables of `02_platform_bootstrap.sql` beside `SubscriberStore`, as
   `AppdbInit` is beside `CampaignStore`.
2. `Console`, once views carry a number or a time by which a stale one can be told.
