# A verification project for schema-mapper

TLA+ models of the state-changing core of schema-mapper: the outbox worker and its two
databases, the admin API's job runner, scheduler and event streams, the migration runner,
the onboarding workflow with the mapping engine and the backfill, the plan, the rebuild and
the recovery of the target, the handling of schema drift, the schema swap and the chat
assistant. TLC checks them on small instances; TLAPS proves the safety properties of all
runs, and the refinements of the outbox and of the job table, for every instance.
`PROJECT.json` maps every definition to the lines it models and lists runs, mutants, hazards
and theorems.
Paths below are relative to the repository.

## 1. The system

schema-mapper copies rows of a legacy source schema (IRIMSV, Postgres) into a differently
shaped target (LRMIS, MySQL; or Postgres with the generic engine). A central Postgres
database, schema `integration`, holds everything the pipeline remembers.

| Component | State it keeps | Operations that change it | What makes it correct |
|---|---|---|---|
| Outbox store (`src/integration_store.py`, `src/connectors.py`, `sql/001`) | `outbox`, `quarantine`, `delivery_audit`, `entity_control` | enqueue, claim, mark delivered, retry or dead-letter, quarantine, replay, kill switch | an event is settled by one worker; status, attempts, audit and quarantine tell one story |
| Delivery worker (`src/worker.py`, `src/lrmis_delivery.py`) | an open central transaction per batch, an open target transaction per event | process_once, run_loop | what is marked delivered is in the target; retries are safe; every event is settled |
| Writers (`src/lrmis_writer.py`, `src/delivery/writer.py`) | target rows, `id_crosswalk`, `id_sequence` | write_source_row / write_row, allocate_id, delete_entity_rows | one target row per source row and table; no partial fan-out; ids are not handed out twice |
| Job runner and scheduler (`src/admin_api/jobs.py`) | `admin_job`, `admin_job_event`, the date of the last triggered night; in memory `_active`, a pool | enqueue, claim, reap, heartbeat, run, trigger | one job per scope, started once, always ended, its end reported; one scheduled refresh a night |
| Event streams (`src/admin_api/routers.py`, `jobs.py`) | last id sent | poll, send, resume | no event twice, out of order or missed |
| Migration runner (`src/services/migrations.py`) | `schema_migrations`, an advisory lock | apply_migration, mark_applied | applies exclude one another; SQL runs once |
| Onboarding, deployment, operations (`src/services/onboarding.py`, `lrmis_onboarding.py`, `ops.py`, `src/pipeline.py`) | `onboarding_proposal`, `onboarding_field_review`, `onboarding_entity`, `entity_control` | propose, resolve, reject, reopen, add, approve, deploy, onboard in bulk, backfill, monitor, re-baseline | nothing unreviewed is deployed; a pause has a reason; the newest event of a row carries the row as it is |
| Mapping engine (`src/mapping_engine.py`) | none | propose_mapping: providers in turn, the heuristic | an answer, or a failure, becomes a proposal whose status tells what is left to review |
| Registry (`src/lrmis_registry.py`) | the parsed schema, cached | topological_order, fk_closure, seed_tables | parents come first; a cycle is reported; what is seeded is what the inserts need |
| Rebuild (`src/services/nightly_refresh.py`, `scripts/nightly_refresh.py`, `ops.refresh`) | target, crosswalk | restore, backup, reset, re-deliver | a refresh reproduces the source and touches nothing else |
| Drift resolution (`src/services/drift_resolution.py`, `ops.py`) | fingerprints, status and `paused_reason` of `onboarding_entity`, `entity_control`, drift reports | monitor, re-baseline, resolve, reset, recreate the target | a paused entity is off, reported and has drifted; what is accepted was loaded |
| Schema swap (`src/services/schema_swap.py`) | `schema_version` documents, mappings, fingerprints | discover, compare, re-map, deploy, capture or recreate and re-deliver | contract, mapping and fingerprint of an entity tell one story |
| Conversational agent (`src/agent/conversation.py`, `src/admin_api/agent_chat.py`) | `agent_conversation`; audit rows | open, answer, ask, run, append, stream, delete, prune | nothing that changes state runs unasked or twice for one yes; what ran is audited |
| Backup and recovery (`src/services/backup_recovery.py`, `pg_restore.py`, `src/admin_api/recovery.py`) | backup and upload directories, `recovery_upload` | back up, upload, restore the target, restore the source | a whole backup is a moment of the target and comes back as it was; an undisturbed rebuild is complete and fresh |
| View proposer (`src/services/view_proposer.py`) | `view_proposal` | propose, apply | not modelled, section 7 |
| Transforms, schema ingestion, drift comparison, cutover gate, diagnostics, data browser | none (pure or read-only) | - | not modelled, section 7 |
| Web dashboard, dialects, providers | presentation, SQL text, I/O | - | not modelled |

How they interact. Triggers and backfills insert outbox rows. Workers (a standing loop,
and `process_once` called from jobs) claim rows with `FOR UPDATE SKIP LOCKED`, look up the
approved mapping onboarding left, write the target and share the crosswalk with refreshes.
The admin API turns requests into jobs; jobs call the services; their events go to the
dashboards. The drift monitor and the operators act on the same `entity_control` row the
claim reads. Nothing but row locks, one advisory lock (migrations) and the job scopes
keeps any two of these apart.

What is hard here:

* two databases and no common transaction: the target is committed per event, the central
  database per batch, so a crash falls between them;
* several workers, refreshes and requests on the same rows under READ COMMITTED, with
  check-then-act in application code;
* failures kept for a retry, with the crosswalk surviving a rollback of the target;
* lock waits across two databases, and deadlocks inside the central one;
* heartbeats, staleness and reaping of jobs whose process may be alive;
* ids drawn before they are committed, used as cursors;
* long workflows (swap, resolution, bulk onboarding, chat turns) that act on a list or a
  history read several transactions ago;
* a reset that restarts id counters while the crosswalk remembers the old ids;
* a target that is dropped, created, seeded, dumped and replayed statement by statement,
  by jobs, plain requests and scripts that exclude one another nowhere;
* events ordered by the start of the transaction that inserts them.

`PROJECT.json` lists these as hazards, each at its line.

## 2. Modules

| Module | Models | Extends |
|---|---|---|
| `Outbox` | abstract: the life of an event as the committed rows show it | - |
| `Delivery` | worker, outbox store, both writers, both databases | instances `Outbox` |
| `DeliveryProofs` | inductive invariant, safety theorems, refinement, the rows in the target | `Delivery`, TLAPS |
| `MCDelivery` | instances for TLC | `Delivery` |
| `JobTable` | abstract: the life of a job as its row and its events show it | - |
| `Jobs`, `MCJobs` | job runner of several API processes | instances `JobTable` |
| `EventStream` | event log and its SSE streams | |
| `Migrations` | migration runner | |
| `JobsProofs` | start, night, scope and end theorems, refinement of the job table; order theorem of the streams; lock and run-once theorems of the runner | `Jobs`, `EventStream`, `Migrations`, TLAPS |
| `Onboarding`, `MCOnboarding` | the life of one source entity and of one of its rows | |
| `OnboardingProofs` | type, review, event and pause theorems | `Onboarding`, TLAPS |
| `Refresh`, `MCRefresh` | refresh and nightly rebuild beside the worker | |
| `RefreshProofs` | type and exactness theorems | `Refresh`, TLAPS |
| `SchemaDrift`, `MCSchemaDrift` | drift of several entities: monitor, resolution, resets, target side of the swap | |
| `SchemaDriftProofs` | type, switch, report, drift and loading theorems | `SchemaDrift`, TLAPS |
| `SourceSwap`, `MCSourceSwap` | source side of the swap: contracts, mappings, fingerprints | |
| `SourceSwapProofs` | type, mapping and drift theorems | `SourceSwap`, TLAPS |
| `AgentChat`, `MCAgentChat` | chat turns, the confirmation gate, the audit | |
| `AgentChatProofs` | gate, audit, confirmation and history theorems | `AgentChat`, TLAPS |
| `Registry` | the plan of a rebuild: order of the tables, lookups to seed | |
| `Recovery` | nightly run, rebuild, backups, uploads, restores | |
| `Rebuild`, `MCRebuild` | the composition: a plan is computed, and executed | `Registry`, instances `Recovery` |
| `RebuildProofs` | order, seed, backup and rebuild theorems | `Rebuild`, TLAPS |

Operators named `X_Something` next to `X` are mutated forms of `X`, kept so that each
property can be shown to fail when the code has that bug; no specification uses them.

### Delivery

State: committed central rows (`status`, `attempts`, `due`, `quarantine`, `audit`,
`enabled`, `crosswalk`, `idSeq`), committed target rows (`target`, `envelope`, `nextId`),
and per worker its control and its two open transactions. `txStatus`, `txXw`, `txSeq` are
uncommitted central writes, and at the same time the row locks they hold; `ids` and `how`
are the uncommitted target writes. One action per statement another worker could notice:
`Claim`, `UpdateRow`, `InsertAuto`, `MatchRow`, `InsertApp`, `ResolveReference`,
`RecordCrosswalk`, `CommitEvent`, `Quarantine`, the five ways an event fails, `CommitBatch`,
`Crash`, `DeadlockVictim`; and from outside `Enqueue`, `Replay`, `SetEntityEnabled`,
`BecomeDue`. `Fail` keeps crosswalk entries and allocated ids, as the code does:
only the target connection is rolled back.

`OutboxView` maps the committed central rows to `Outbox`, which knows no worker.

Abstractions. A payload is one value; two payloads can be equal, which is what
`resolve_reference_id` tells apart. Tables are numbered in topological order with a kind
(`auto`, `app`, `ref`) and at most one parent. `created_at` is the event's number. A
transaction of the target sees the latest committed rows (MySQL's snapshot is at most
older); shared locks on parent rows are left out; a wait cycle through both databases is
resolved by MySQL's lock timeout. Deactivation changes a flag of the envelope only and is
not told apart. The healing agent only adds text to the quarantine reasons.

### Jobs and EventStream

`JobTable` is what a reader of the rows may rely on whatever goes wrong: a job is taken once
and not queued again, none begins twice or before it was taken, and a success is told once,
of a job that has begun and succeeded, and stays. It leaves open whether a job that was given
up succeeds after all, how often its failure is told, and in which order jobs are taken: a
dispatcher passes over what another is claiming (`SKIP LOCKED`, `MayBeLocked`), so a newer job
can be seen running before an older one, or instead of it when that claim rolls back.

Every statement of `jobs.py` commits by itself, so every statement is an action: the check
and the INSERT of `enqueue`, its audit row; per process the dispatcher (reap, report,
claim, submit), the heartbeat, and `_run` (started, handler, final status, event, audit).
Handlers return or raise. `fresh` says that the heartbeat is younger than
`JOB_STALE_SECONDS`; `GoStale` takes that away freely from a job nobody beats for and,
within `MaxStalls`, from one whose heartbeat is merely late. Faults (`MaxFaults` of both
kinds together): crash of a process, database errors while the runner reports. `cancelled`
exists in the table's CHECK only. The scheduler sees that a night is due, marks its date
and asks for a job, in that order and in three transactions (`SeeDue`, `MarkTriggered`,
`AskForRefresh`); what decides that a night is due is external (`NightComes`), because
`services/refresh_schedule`, which it imports, is not in the repository.

`EventStream` separates the INSERT that draws an id from the commit that shows it, polls
with `id > last_id LIMIT n`, and reconnects with the last id received, on both routes.

### Migrations

A file's content is a version; SQL and checksum are read separately, before the lock.
Applied SQL, its row and the unlocking follow the code's order; `mark_applied` takes no
lock and its upsert waits only for an uncommitted row of the same file.

### Onboarding

One entity. A review row is a source column with its target column. Of the rows it matters
which share a source column (`FannedOut`: `resolve` and `reject` address a column and so
hit all of them, `reject_field_review` and `reopen_field_review` address one row), which
the deployment needs (`Required`) and which name a column the target does not have
(`Unknown`). Transactions whose read and write can be apart (edit, deploy, monitor,
re-baseline) are two actions, with what was read kept in `session`; `Propose` and
`ApproveMapping` (which locks the proposal) are one. `AddMappings` stands for `add_mapping`
and `add_missing_mappings`, which sets the status even when it skips every row. Bulk
onboarding is its check of the entity's status, the proposal with what blocks it, and the
deployment, each in a transaction of its own.

The mapping engine answers with a grade for each row: nothing, a target it is sure of or
not, or that there is none, surely or not (`Grades`). A process has a language model, the
heuristic, both or neither configured (`Environments`); `AnswersIn` is the fail-over, and
with neither an answer the proposal has no rows. `RowOf` is what `_create_proposal` makes
of a grade: the confidence decides before the missing target does, so a sure answer
without a target is an accepted row (`hollow`), which `approve_mapping` counts and
delivery passes over. `reject` clears the target table of a row, and `resolve` brings it
back only if one is named (`Changed`); `cmd_resolve` of the command line never names one.

The row's events stand beside that. The backfill treats each source row by itself, so one
row, counted by its changes, stands for all. `outbox` is kept in the order of
`created_at`, which is the start of the inserting transaction, so an open transaction has
its place in it already. Changes of the row are taken one after the other.

`clashed` is a history variable: it records which kinds of transactions were open at the
same time, so that one instance answers for sessions that spoil each other's work and for
those that do not. Fingerprints are schema versions; `WholeContract` is the fingerprint
`propose` stores for the target, which `monitor` never computes. The kill switch by hand
is in `Delivery`. Not modelled: the legacy population below `fingerprint_scope_version` 2.

### Refresh

Per entity: read source rows and crosswalk ids, delete rows, delete entries, write each
source row (update or insert, then record), commit the target, commit the central
database. The nightly run restores (optionally), backs up (a failure is only a warning, so
`Backup` goes on either way), recreates the target and refreshes all. An entity has one
AUTO_INCREMENT table, possibly shared; reference and app-assigned tables, whose rows a
delete leaves behind, belong to `Delivery`. The DELETE of crosswalk entries that had to
wait is modelled as running after the wait. `apart` is a history variable: the tables
whose rows the crosswalk has lost track of, through a lost commit or a reset. A dry run
changes nothing. The job handler for the nightly refresh passes arguments
`run_nightly_refresh` does not take, so the nightly run comes from
`scripts/nightly_refresh.py`.

### SchemaDrift

Several entities with overlapping target tables. Each operation is a session that works
through the entities it listed: `monitor` and the re-baseline read and then commit once;
`resolve_drift` and `reset_all` go through one or both directions, entity by entity
(refresh, then store in another transaction), and the first closes reports at the end of
each; the target side of `schema_swap.apply` deploys the re-mapped entities, recreates the
target and re-delivers the list it read at the start; `ResetPathB` recreates and stops.
A structure is a version and changes make new ones (a structure that comes back is in
`SourceSwap`); a refresh either loads the entity or fails, its inside being in `Refresh`.
`unloaded` and `outdated` are history variables that name the entities for which the code
makes no promise, see the conditions below. Use of the kill switch by hand is in
`Onboarding` and `Delivery`; recreating puts back the registry's structure, which is what
MySQL's `recreate_target_database` does.

### SourceSwap

A structure is a function from column names to types. `docs` are the captured documents
in the order of `observed_at`; `Contract` is the latest or, before the first, the mapped
columns with the types they have now; `Differs` is `diff_source_table`. A swap discovers,
reads and decides, then per entity persists and deploys, and captures all contracts in
one transaction at the end. Beside it the source changes, the monitor pauses, and people
approve mappings. `disturbed` is a history variable (conditions below).

### AgentChat

A request opens or creates its conversation (which prunes the user's oldest ones), sets
the tier, answers, asks for confirmation or runs a tool, appends the turn (load, then
update) and streams it, writing the audit row for a tool run as its event goes out. A call
that waits for a confirmation is known by the turn that asked; a button names it, a typed
"yes" takes the last one of the history that was loaded. Tools are of three kinds by
autonomy; what they do is in the other modules. `disturbed` holds the conversations whose
turns overlapped or broke off. Not modelled: workflow hints, templates, the language
model's text.

### Registry, Recovery and Rebuild

`Registry` has one action per turn of a loop: the names are validated, the graph is built,
`PlaceNext` takes the first name of the queue (Kahn's algorithm with names in order), and
what is left over is `SchemaCycleError`; then `fk_closure` follows one table at a time from
`station` and the tables that reference it. A table is its name's place in the alphabet; a
foreign key may name its own table, one outside the subset, or one the schema lacks.

`Recovery` has one action per statement on the target, since those connections are on
autocommit: backup (open, connect, one step per table, end), drop, create, tables,
truncate, load; uploads (file, row); restores (drop and create a table, fill it, mark the
upload). A table's rows are the set of loads that wrote them, a dump is what its
transaction saw when it began, and a redelivery of an entity is one step, its inside being
in `Refresh`. `alone`, `failed`, `harmed` and `taken` are history variables.
Simplifications: a file is read as it is when the client opens it; archives in the backup
directory are left out; ids that coincide after a restore are the free choice of which
rows a refresh deletes; tables of a dump that are not in the target's schema are left out.

`Rebuild` composes them: a step of the plan, or, once the plan of the canonical schema is
there, a step on the target by that plan. The tables of `Recovery` are the places in
`Registry`'s order and its lookups are `SeedTables`, so `LeftComplete` also says that the
seeds are enough for the foreign keys of the tables that are written or seeded (a table
that is neither stays empty, and its foreign keys lead where they may).

## 3. What the runs show

| Run | Question | Properties |
|---|---|---|
| `delivery_outbox` | two workers, generic writer, three tables, a crash, a replay, the kill switch | `BatchesApart`, `OutboxRows`, `DeliveredHasEnvelope`, `ImplementsOutbox` |
| `delivery_retry` | one worker, MySQL writer, three attempts and a crash on two events of one source row | `DeliveredNotLost`, `FanOutWhole`, `RowsFoundAgain`, `OnlyRetriesGoBack`, `EventuallySettled` |
| `delivery_contention` | two workers whose batches meet the same two source rows in opposite orders, and a third event of one of them, so that deadlocks and row-lock timeouts both occur | `BatchEnds` |
| `jobs_runner` | two processes, one with a scheduler, a crash or a database error | `ScopeExclusive`, `EndIsTold`, `OnceANight`, `EndedStays`, `JobEnds`, `ImplementsJobTable` |
| `event_stream` | three emitters at a time, two drops, both routes | `InOrder`, `Arrives` |
| `migrations` | two calls at a time on two files, edits, failures, crashes | `NeverInterleave`, `RunsOnce`, `LockComesFree` |
| `onboarding` | two sessions with and without a language model, an edit, bulk onboarding, backfills, schema changes, a change of the source row | `ApprovedMeansReviewed`, `NewestEventLast`, `NoSpuriousPause` |
| `refresh` | two refreshes, rebuilds or deliveries of one process, two changes of the source; entities that share a table, one that has its own, one that is not mapped | `ExactOnTrack` |
| `agent_chat` | two requests at a time of a user, a deletion, retention, a client that leaves, a turn that breaks off | `GateHolds`, `TypedYesRunsOnce`, `HistoryInOrder`, `RunsAudited` |
| `source_swap` | two operators, two entities, two changes of the source, a mapping approved by hand, a crash | `LeftAloneStillMapped`, `NoDriftUnseen` |
| `schema_drift` | two operations, two entities that share a table, three changes of the schemas, a crash | `SwitchFollowsStatus`, `PausedIsReported`, `DeployedIsLoaded`, `PausedHasDrift` |
| `rebuild` | plans for every schema over four names with at most three foreign keys; two operations on the target by two sessions, a failure or a crash | `OrderIsSound`, `SeedsSuffice`, `BackupsAreSound`, `LeftComplete`, `RebuildIsFresh` |

`BatchesApart` is that no two batches hold one event and that ids are not handed out
twice; `OutboxRows` is that quarantine, attempts and audit agree with the status;
`RowsFoundAgain` is that a source row has one row per table and the crosswalk leads to it;
`ExactOnTrack` is that a refresh leaves exactly the source's rows and no source row has
two. Every module states a type invariant; where a module has proofs they rest on it, the
others document the state and can be added to any run.

Conditions. Several properties hold only under a condition, which their definition or the
run's constants state; each condition is there because the code breaks the property
without it.

| Property | Condition | What happens without it |
|---|---|---|
| `RowsFoundAgain` | no batch lost, one worker | a crash between the target's commit and the batch's loses the crosswalk entry, and the retry inserts again; two workers insert before either records |
| `FanOutWhole` | legacy writer | `GenericWriter` trusts the crosswalk entry of an attempt that was rolled back: it updates a row that is not there, inserts the next ones, and the event is marked delivered |
| `OnlyRetriesGoBack` | one worker, no batch lost, nothing replayed, events of one entity | nothing compares `source_updated_at` on the direct path: a retried or replayed older event overwrites a newer one; a lost batch delivers its events again, the older over the newer, without an attempt counted; two entities that share a table are switched on at different times |
| `ScopeExclusive` | one request in `enqueue` at a time (`MaxRequests`), heartbeats on time (`MaxStalls`) | two requests check before either inserts, and both jobs run (`openspec/specs/job-orchestration/spec.md:41` promises the opposite); a late heartbeat lets the reaper free the scope of a live job |
| `EndIsTold`, `EndedStays` | no crash, no database error | the end is committed before its event; a failing `emit("succeeded")` turns success into failure |
| `JobEnds` | no database error | `emit("started")` is outside `try`: the job stays in `_active` without a thread, beaten for ever |
| `OnceANight` | one scheduler (`Schedulers`) | two processes both see a night due before either marks it |
| `Arrives` | visible before the cursor passed its id; the tail has received something | a smaller id commits after a larger one was sent; a tail that breaks before its first event restarts at the head |
| `ApprovedMeansReviewed` | no edit beside an edit or a deployment | each reviewer counts pending rows without the other's edit; a deployment approves over a reopening |
| `NoSpuriousPause` | proposed once, no deployment or re-baseline beside the monitor | proposing again stores a target fingerprint the monitor never computes |
| `NewestEventLast` | no backfill starts beside a change or another backfill | a backfill queues a row twice, or the old row behind the newer event |
| `ExactOnTrack` | table not in `apart`, one process | a central commit lost after the target's leaves orphans; a reset restarts the ids of a table while the crosswalk keeps the old ones, and refreshing a second entity of that table deletes rows the first has just written; a worker beside a refresh inserts the same row |
| `TypedYesRunsOnce`, `HistoryInOrder` | turns of the conversation neither overlap nor break off | both turns find the same pending call; the second append replaces the first; a call that ran is not in the history |
| `RunsAudited` | the client stays, the turn does not break off, the conversation is still there | the audit row is written while the answer is streamed, and the append to a deleted or pruned conversation fails first |
| `LeftAloneStillMapped`, `NoDriftUnseen` | entity not in `disturbed` | the source changes during a swap (document of the start, fingerprint of the end); a mapping approved by hand captures no document; a refused deployment or a crash leaves mappings without contracts; a structure that comes back (A, B, A) leaves B in force, because ON CONFLICT keeps `observed_at`, against "No changes reported when source is unchanged" of `openspec/specs/source-schema-swap/spec.md` |
| `DeployedIsLoaded` | entity not in `unloaded` | a re-baseline and a reset of the source side accept without loading; the source changes between a refresh and the fingerprint stored for it; a re-delivery fails; a swap is broken off; entities deployed after the swap read its list are emptied and not re-delivered; `reset_path_b` re-delivers nothing |
| `PausedHasDrift` | entity not in `outdated` | a monitor commits a verdict that another job has settled meanwhile; recreating the target removes the drift of a paused entity |
| `BackupsAreSound` | the restore ran alone; for half a backup, no process died | another session drops or loads under the restore; a process that dies leaves a half file in the list, which passes validation |
| `LeftComplete` | not `harmed` | a statement fails or a process dies between the drop and the last load; a load finds another session's seeds, and the failing session may have emptied the next lookup of one that has reported success; half a dump is replayed |
| `RebuildIsFresh` | the run was alone and no entity failed | a second session recreates or restores the target under it |
| `SwitchFollowsStatus` | the switch is not used by hand | an operator may override a pause |

Bounds. Two workers, processes or sessions are enough for every race in this code: each is
between one check and one write. Two events of one source row give the crosswalk its
re-delivery; four with crossed references give two batches opposite lock orders, and a
fifth gives two workers a row that is in the target already (with one attempt, no crash
and all events waiting at the start, `Backlog`, to keep that instance small: retries,
crashes, replays and enqueueing are in the other two). Two or three attempts give a retry
and a dead letter. Three tables give one of each kind, or a parent with two children.
`MaxAutoId` is set low in `delivery_outbox`, so that `KeysExhausted` is reached too. Two
jobs of one scope, one request at a time, and one fault: what a second fault would add is
another job in the state the first one leaves. `ImplementsJobTable` needs none of these
conditions; that it holds with late heartbeats and racing requests too is the theorem's.

One proposal and three review rows (two of one column; one required, one unknown to the
target) are enough for the review properties, proposals being independent of one another
but for the entity's fingerprints. One edit meets a deployment, an approval or a bulk
run here; two edits that overlap are left to the theorem, which has any number. Two
answers of the mapping engine give rows accepted, hollow and pending to begin with. One
change of the source row can start before, inside or after a backfill.

Two entities that share a table and have one each give every way one entity's job disturbs
another's; two changes of the source make a structure come back; two messages of history
make the cap bite, and one conversation per user the retention. `MaxMessages` is below
`KeepRecent`, which `AGENT_MAX_MESSAGES` allows, so both ends of the cut are met: a cut
that only adds the summary, and one that drops turns. Four table names and three foreign keys
hold a cycle, what hangs on it, or a parent outside the subset; the schema that is rebuilt
has two lookups, one behind the other, and an entity's table. Two operations overlap at
every pair of statements.

Crashes, errors, replays, toggles and edits are bounded by name. `CHECK_DEADLOCK FALSE`
appears where the bounds let the model run out of calls: a system at rest is not stuck
there. In `Delivery` and `Jobs` the loops go on for ever, so deadlock is checked. The
largest instances have 1.4 (schema_drift), 1.1 (refresh), 1.0 (agent_chat), 0.7
(source_swap), 0.5 (rebuild) and 0.4 (onboarding) million states; a run takes a minute or
two. Where a theorem holds for all bounds, an instance only has to be large enough to tell
the code from its mutants.

Fairness. `Delivery`: `run_loop` goes on after every outcome, so each worker's steps are
weakly fair, and back-offs run out; enqueueing, failing, crashing and replaying are not
assumed. `Jobs`: dispatcher and pool threads go on, handlers end, and time passes for a
job nobody beats for; heartbeats are not needed for `JobEnds`. `EventStream`: the server
polls and sends in a loop and an `EventSource` reconnects. `Migrations`: a call runs to
its end unless its process dies, which ends its session.

## 4. What is proved

### Outbox

`DeliveryProofs`, for every number of workers, events, references and tables, both
writers and every assignment of kinds and parents that satisfies `BoundsAssumption` and
`ShapeAssumption` (naturals, positive where zero would mean nothing; total functions;
parents precede their children, which is what the topological order gives):

* `TypeCorrect`, `BatchesAreApart`, `OutboxRowsAgree`, `EnvelopeFirst`: `Spec => []P` for
  `TypeOK`, `BatchesApart`, `OutboxRows`, `DeliveredHasEnvelope`;
* `Refinement`: `Spec => ImplementsOutbox`.

The argument. None of the properties is inductive alone. What a batch will commit must
already agree with what is committed, so `OutboxInv` adds `TxClaimed`: an event held by a
batch is still claimable in the committed row, and an uncommitted `retry` has attempts
left, an uncommitted `dead_letter` none. With `LockExclusion` (no two batches hold one
event) the commit of one batch cannot disturb what another is about to write;
`DeliveredHasEnvelope` covers uncommitted `delivered` marks, so that a commit only
publishes what is in the target. `IInv == TypeOK /\ OutboxInv`; `TypeStep` and
`OutboxStep` go through the actions one by one, most of them by `OutboxFrame`. The
refinement maps `CommitBatch` to one `Settle` of all events the batch holds
(`CommitBatchSettles`), `Enqueue` and `Replay` to their namesakes and everything else to
a stutter.

### The rows in the target

For the writer that looks whether the row of a crosswalk entry still
exists (`LegacyWriter`), `DeliveryProofs` proves under the same assumptions:

* `DeliveredStays`: `LegacyWriter /\ Spec => []DeliveredNotLost`, and `FanOutStaysWhole`:
  `LegacyWriter /\ Spec => []FanOutWhole`, for every number of workers;
* `RowsAreFoundAgain`: `OneWorker /\ LegacyWriter /\ Spec => []RowsFoundAgain`.

The actions are first put into seven kinds of steps by what they do to the rows, the
crosswalk and the open writes (`RowStepIs`); everything after that is about those seven.
For many workers one fact carries the argument: a generated key is drawn once. `KeysInv`
says that whoever names a key, a row, a crosswalk entry of any transaction or a write about
to insert it, names it for one source row, and that it is not above the counter. So the row
a crosswalk entry leads to is the source row's own (`LookupIsOwn`), what a worker has marked
as updated belongs to the row of its event and stays there (`WriteInv`, `RowsPersist`), and
a commit leaves its source row a row in every table (`CommitLands`).

That nothing is inserted twice needs one worker. `FoundInv` relates the open batch to the
rows: what a commit inserted is what the batch has recorded; a worker about to record an
insert has no row to be found; and as long as no batch was lost every row of the target is
the one its source row's next event would find, from which uniqueness follows. Losing a
batch falsifies only that last part, which is why it alone has the condition
`crashes = 0`.

* `OnlyRetriesOverwrite`: `OneWorker /\ Spec => OnlyRetriesGoBack`, for both writers.

`OrderInv` follows the events that have not been tried: they entered in their order and are
due (`Entered`), so a claim that takes a newer one of an entity takes the older one too, and
by the time the newer one shows in a row the older one is done with (`Sorted`). Rows are
compared by their keys, so the proof also needs that a key has one row (`KeysOnce`). The
attempt corrected the statement: with three events a lost batch puts an older event over a
newer one that had reached the target, with no attempt counted, which two events are too few
to show.

### Jobs and event streams

`JobsProofs`, for every number of processes, jobs, scopes, nights and faults. Without any
condition: `JobsStartedOnce` (`StartedOnce`) and `RefreshedOnceANight` (`OnceANight`). With
heartbeats on time (`InTime`, that is `MaxStalls = 0`): `EndsForGood` (`EndedStays`) and
`EndsAreTold` (`EndIsTold`); with one request in `enqueue` at a time as well (`OneAtATime`,
`MaxRequests = 1`): `OneJobPerScope` (`ScopeExclusive`). These are the conditions under
which the run checks them.

A job is started once because a job that is not queued any more never is again, and because
one process carries it: claimed by its dispatcher, then in its pool, then in one thread
(`CarryInv`). That an end is final needs that whoever handles a job finds it running
(`WorkInv`), and there the heartbeat comes in: a job somebody works on is beaten for, hence
never stale, hence not reaped. `ScopeInv` is that a request which has passed its check still
sees no open job of its scope, which only the absence of a second request makes true.
`TellInv` says for each ended job where its event is, in the log or ahead of the thread
that has to tell it, as long as nothing goes wrong, when nothing is reaped.

`JobsRefineTable`: `Spec => ImplementsJobTable` has no condition at all: it is what is left
of these promises when heartbeats are late, processes die and requests race. `TableInv` adds
to `StartInv` that a thread past its start has said so (`UnderwayHasStarted`), that a thread
about to say how a job ended has marked it so (`MarkIsSaid`), that what a reaper is about to
report had ended (`ReapedHasEnded`), though the job may have succeeded since, and that nobody
carries a job that was said to have succeeded (`SuccessIsLast`). The last part makes a success
that was told final, which a failure is not. The refinement maps each statement on
`admin_job` or `admin_job_event` to one step of the table and everything else to a stutter.

The streams, for every number of events, emitters and drops and every page size:
`ReceivedInOrder`: `StreamSpec => []InOrder`. What goes out next is above the stream's cursor
(`BatchAhead`), and the cursor of a client that has received something is the last id it
received (`CursorKept`), which is what makes a reconnection safe.

### Chat

`AgentChatProofs`, for every set of users, conversations, requests and calls and every
bound: `NothingRunsUnasked`, `WhatRanIsAudited`, `YesRunsOnce` and `HistoryStaysInOrder`,
the four properties of the run. `ChatInv` ties a request in progress to the turn it took
and says that a message, a run or a pending call comes from a turn that was taken
(`RequestsOK`, `KnownTurns`, `RunsOK`); the gate follows, since a call is carried into a
later turn only by a message of its conversation. The other properties are about
conversations whose turns do not overlap: there at most one request is in a conversation
(`Alone`), so what it loaded is still what is stored when it appends (`HistoryInv`), and a
call that has run is followed by its result wherever that history asks for it
(`SettledInv`), so that it no longer waits.
`AuditInv` says that a call that ran and is not audited is still on its request's way.

### The plan

`RebuildProofs`, for every finite set of table names, every schema over them and every
subset asked for: `OrderSound`: `Spec => []OrderIsSound`; `SeedsCloseTheWriteSet`:
`Spec => []SeedsSuffice`. That parents come first is not inductive: the queue must be known
to hold exactly the tables whose parents are placed (`QueueIsReady`), and that follows from
the counters only if each is the number of parents still to come (`CountsParents`), which a
step preserves because a table is placed once (`PlacedOnce`). A cycle error then means that
every table left over has a counter above zero, hence a parent that is left over. The
closure keeps that what it has followed leads to what it has seen (`ClosedBehind`) and
that what it has seen is in every closed set (`SeenIsNeeded`).

`PlanIsKept` (`RebuildSpec => Spec`) carries this over to the composition, whose target
steps leave the plan alone.

### Backups and the rebuilt target

`RebuildProofs`, for every plan, number of tables and lookups, set of sessions and of
uploads, and any number of operations, failures and crashes: `BackupsHold`:
`RebuildSpec => []BackupsAreSound`; `NothingIsMissing`: `RebuildSpec => []LeftComplete`;
`NightlyIsFresh`: `RebuildSpec => []RebuildIsFresh`. One invariant, `TargetInv`, carries the
three, because each session's step changes a target all of them use.

* `Places` and `Alone`: at which statements an operation can be, and that a session which is
  alone is the only one at work. `BuildInv` says how far such a session's rebuild and
  delivery have come (`Building`, `Redelivering`), `RestoreInv` the same of a restore. Only
  for a lone session can these be said; a second one ends them, which is why the step that
  starts an operation takes `alone` from all others.
* `FilesInv`: two operations never write one file and none writes one that was there
  (`Numbered`); what a dump has written is what its transaction saw, as far as it has come
  (`Dumping`); a listed file is whole, of a process that died, or still being written
  (`Backed`).
* `Covered`, for `LeftComplete`, is about all sessions at once: every table that is missing
  will still be created by somebody (`Making`), and every lookup that is empty will still be
  filled (`Filling`), or the target is `harmed`. So when nobody is at work nothing is
  missing.

The attempt corrected two statements. `LeftComplete` asked that lookups behind the foreign
keys of every table of the plan have rows: true of the instance and false in general, where
a subset may name a table that is neither written nor seeded. And a dump could hold rows of
a table outside the target's schema, which `RecoveryAssumption` now leaves out.

### Migrations

`JobsProofs`, for every set of calls at a time and of files, every number of versions and
calls: `RunnerTypeCorrect`; `OneApplyAtATime`: `RunnerSpec => []NeverInterleave`;
`SqlRunsOnce`: `RunnerSpec => []RunsOnce`. The inductive invariant ties each part of the
runner to what protects it. `HolderApplies`: a call between lock and unlock holds the lock,
from which mutual exclusion follows. `InsertedUnrecorded`: a row inserted and not committed
is of a file that is not recorded, which holds because the primary key makes `mark_applied` wait.
`RanRecorded`: a file whose SQL was committed is recorded, so the next holder finds it.
Run-once needs the lock as well: without it a second call would pass the look-up before
the first commits.

### Onboarding

`OnboardingProofs`, for every set of sessions and review rows, every answer of the mapping
engine, and any number of proposals, versions, edits and changes of the row: `TypeCorrect`,
`ApprovedWasReviewed`: `Spec => []ApprovedMeansReviewed`; `NewestComesLast`:
`Spec => []NewestEventLast`; `PausesHaveReasons`: `Spec => NoSpuriousPause`. Each needs what
the open transactions have read:

* reviews (`ReviewsInv`): sessions that edit a proposal and sessions that deploy it are kept
  `Apart`, so what an edit has counted besides its own rows, and what a deployment has found,
  is still so when it commits (`Counts`);
* events (`EventsInv`): an open backfill or change has exactly one place in the order
  (`Placed`); what a backfill has read is the row as it is as long as no event was there
  (`Dated`); it stands in front of the events it did not find and an open change stands last
  (`Sequenced`); the present version has its event if any version has (`Newest`);
* pauses (`DriftInv`): fingerprints are of schemas that were (`Behind`), nobody is on the way
  to storing one while a pause is about to be committed (`Unsettled`), so the monitor's
  verdict is still right (`Verdict`).

### Refresh

`RefreshProofs`, for every number of entities, tables, source rows, changes, failures and
crashes: `TypeCorrect`, with any number of runs; and `RefreshIsExact`:
`OneProcess /\ Spec => []ExactOnTrack`, the condition under which the run checks it. With two
processes a refresh and a delivery, or two refreshes, write the same rows, and the property
is false.

The property is about tables where the crosswalk has kept track. `Settled` says what that
means: in a table that is not `apart`, every row is the one its crosswalk entry names
(`Tracks`), and an entity that was refreshed has rows for exactly the source rows its report
lists (`Holds`); its entries lead to rows of its own (`Leads`), which is also asked of the
tables several entities share, since a refresh of one deletes by id. This holds of the
committed rows except between the two commits of a run, so `Opened` says the same of an open
pair of transactions: what they show, with what they have written and will report. Then
either end of the pair leaves the table settled: the commits because they publish exactly
what is open, the rollback because nothing was published, and the loss of the second commit
because it puts the table `apart`. `Places` fixes what a run has in hand at each step, and
`IdsInv` that ids are fresh and unique. The attempt corrected the assumption on the constants:
the model needs an entity and a source row to start from (`RefreshAssumption`).

### Schema drift

`SchemaDriftProofs`, for every number of entities, tables and sessions, every footprint and
every bound: `TypeCorrect`; `SwitchWithStatus`: `Spec => []SwitchFollowsStatus`;
`PausesReported`: `Spec => []PausedIsReported`; `PausesHaveDrift`:
`Spec => []PausedHasDrift`; `DeployedRowsLoaded`: `Spec => []DeployedIsLoaded`. The first
difficulty is in the types: a session picks the first entity of its list and the head of its
directions, so that a step is well typed only if neither is empty. `Shape` says that: a
session that goes through directions has one left, and one about to store has an entity to
store for. Then `PausedIsReported` is inductive by itself (reports are closed against the
status at that moment, and pausing reports), and `SwitchFollowsStatus` needs the types of
the lists: every statement that changes the status of a set of entities changes the switch
of the same set.

The other two are about what a session knows from earlier transactions. Stored fingerprints
are of structures there have been (`Known`), so drift stays until somebody stores one:
a monitor's verdict still holds when it is committed (`Verdicts`), and the reason of a pause
as long as nobody clears it (`Pauses`). What a resolution is about to clear it has loaded
from the source as it still is (`Settling`), and what is deployed has rows at least as new
as its fingerprint, or is on the list of a swap that will load it (`Rows`).

### Source side of the swap

`SourceSwapProofs`, for every number of entities, sessions and changes and every set of
structures: `TypeCorrect`; `LeftAloneIsMapped`: `Spec => []LeftAloneStillMapped`;
`DriftIsSeen`: `Spec => []NoDriftUnseen`. Both follow from one fact about an entity whose
tables nobody disturbed (`Agreed`): its mapping was made from its latest contract, and every
mapped column is a column of the fingerprint. A capture keeps that because of what the
session knows from earlier transactions: what it discovered is still there (`Seen`), and what
it has persisted is the mapping in force (`Persisted`). `Stages` says what a session has in
hand at each statement, so that the lists it goes through are not empty when it picks from
them.

## 5. Only model-checked

Liveness under fairness (`EventuallySettled`, `BatchEnds`, `JobEnds`, `Arrives`,
`LockComesFree`) is out of the prover's reach and stays with TLC. Every other property of the
runs is stated by a theorem of section 4, under the conditions given there.

## 6. Facts met while modelling that no property covers

* `ops.cancel_queue` writes columns `integration.outbox` does not have: it always raises.
* `pipeline.cmd_monitor` reports pauses it never commits.
* `services.refresh_schedule`, which the job runner imports, is not in the repository.
* `enqueue` commits the job and writes its audit row in a second transaction, which
  `openspec/specs/audit-and-approval/spec.md` asks to be one.
* An edit of a deployed proposal acts on delivery at once, without the coverage gate.
* `rebaseline_entity_fingerprints` switches on an entity that an operator switched off
  after the monitor had paused it.
* The order of migration files is not enforced; `apply_migration` accepts any.
* `approve_mapping` turns a paused entity into a `reviewed` one.
* The proposal status `deploying` and the advisory lock of deployment are in docs only.
* A provider error in the mapping engine yields an `auto_approved` proposal without fields
  (which `load_entity_mappings` passes over).
* An `auto_approved` second proposal of a deployed entity is delivered with at once, which
  `openspec/specs/audit-and-approval/spec.md:47` excludes.
* `onboard_bulk` checks "already deployed" several transactions before it proposes: an
  entity deployed meanwhile gets a new proposal, and new fingerprints. Its unmet required
  columns are those of all target tables, compared by column name only.
* `apply_migration` reads SQL and checksum of a file separately, so an edit in between
  records a checksum of something that did not run.
* `resolve_all` clears an entity paused in both directions in its pass over the source;
  the pass over the target no longer lists it.
* The swap does not look at paused entities, although the drift it is for is what pauses
  them (`openspec/specs/schema-observability/spec.md:39`).
* A deployment during the swap stores the fingerprint of the altered target, which the
  recreation then replaces by the registry's: the next monitor pauses the entity.
* `recreate_target_database` leaves an audit row also when its guard skips the work.
* Tools marked `auto_safe` run in every tier; the payload of a confirmation button is not
  compared with the history on the server.
* A failed mapping engine leaves an `auto_approved` proposal without rows; a row that is
  sure of having no target is accepted, and one resolved after a rejection without naming a
  table is resolved: both count for the approval and neither is delivered.
* The docstring of `topological_order` says that a subset keeps the relative parent-first
  order; two tables related only through one outside the subset are ordered by name.
* The seeds are loaded with foreign-key checks off, so a seeded table whose foreign key
  names a table of the write set would dangle after a reset.
* Only the head of a backup is validated, so a truncated dump passes; an archive (PGDMP) is
  accepted as a dump of the source, and the default command, psql, cannot replay it.
* A nightly run that dies between DROP and CREATE DATABASE leaves no database, and
  `restore_target` connects to one. A source torn by a failed restore is delivered by the
  next run without a restore. Restores are plain requests and take no job scope.
* Nothing in the repository starts `scheduler()`; a crash between the mark and the job
  skips that night. The backfill's job type has no scope either.
* The worker claims by `created_at`: a backfill that commits late puts its events in front
  of newer ones that are delivered already.

## 7. What is left

Built, in this order: `Outbox` and `Delivery`, `DeliveryProofs`, `Jobs`, `EventStream`,
`Migrations`, `Onboarding`, `Refresh`, `AgentChat`, `SourceSwap`, `SchemaDrift`, the proofs
about `Migrations`, `SchemaDriftProofs`, `Registry`, `Recovery`, `Rebuild`, into the first
ones the scheduler, the mapping engine and the backfill, then the proofs about `EventStream`,
`JobsProofs`, `AgentChatProofs`, the rows of `DeliveryProofs`, `OnboardingProofs`,
`RebuildProofs`, `SourceSwapProofs`, `RefreshProofs`, and `JobTable` with its refinement.

Not modelled, and why:

* The view proposer. It keeps `view_proposal` rows and runs SQL it has generated; nothing
  else reads them, and most of it is the search for join paths and the text of a view. Two
  of its races are known: `propose_view` updates the pending row it found without looking at
  its status again, so a row applied meanwhile records SQL that never ran; two proposals at
  once leave two pending rows, of which `apply_view` refreshes one and may run the other
  as it is.
* The cutover gate, diagnostics, scan and data browser: they read, and a report is true of
  the moment it was made.
* Transforms, dialects, schema ingestion and the comparison of schemas: functions on values
  and text, whose results are the versions, grades and payloads of the modules here.
* `mapping_store` and `mapping_repository`: the older path of approved mappings, which the
  outbox worker does not take.
* The assistant's intents, templates and language model: they choose which turn is taken,
  and `AgentChat` lets every turn be chosen.
* `WorkerController`: it starts and stops the loop of `Delivery` in one process, and a
  stopped worker is one that takes no step.
* The web dashboard, authentication and the HTTP shell.

Worth doing next:

1. An abstract specification of a reader of the event log, with `EventStream` shown to
   implement it, and of a refresh, which `RefreshIsExact` is a part of.
2. What `GenericWriter` promises of its rows, and of the refresh and the worker side by side,
   where `OneProcess` is given up.
