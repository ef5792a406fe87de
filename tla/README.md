# A TLA+ verification of the F1 analytics pipeline

The pipeline (`ingestion/`, `tasks.py`, `airflow/`, `migrations/`, `dbt/`) pages a
rate-limited public API, lands each page unmodified in an object store (the *lake*),
loads a Postgres warehouse from the lake, and builds marts with dbt. It is a small
program with a large environment: runs are killed, connections are reaped, the API
fails, results appear late, and the operator chooses how to run it again. What these
specifications are about is what survives that.

## 1. Inventory

| Part | State it keeps | Operations | Talks to | What makes it correct |
|---|---|---|---|---|
| **Request budget** (`extract.RateLimiter`, `load_warehouse.WarehouseBudget`, `raw.api_call_log`) | one row per call in the warehouse; per process: the last call, the current attempt | `acquire` (burst wait, `usage`, wait for the window, `record`), `prune`, reconnect in `_execute` | every request of every process | no sliding hour exceeds the allowance; no request without a row; `prune` never frees allowance |
| **Page fetch** (`Extractor.fetch_page`) | attempt number | request, retry, wait, give up; record the failure | the budget before *every* attempt, the data connection after the last | only transient answers are retried, `Retry-After` is obeyed, a failure that is reported is recorded, no row is skipped |
| **Record parsing** (`entities.parse_records`) | none; the table of entities | find the parents, their children, each record's keys | the load | no record vanishes: each is a row or a dead letter |
| **Ingestion run** (`pipeline.main`, `run_entity`, `extract_and_land`) | checkpoints (`raw.ingestion_checkpoints`), dead letters (`raw.failed_ingestions`); in memory: entity, scope, offset | begin or skip a scope, fetch, land, checkpoint, give an entity up | lake, warehouse, source | a checkpoint is never ahead of the lake; resuming loses and repeats nothing; a run ends |
| **Warehouse load** (`load_from_lake`, `Warehouse.upsert`) | raw tables | list, read, parse, upsert, commit once per entity | lake, warehouse | exit code 0 means loaded; the warehouse is rebuildable from the lake |
| **Amendments** (`Warehouse.upsert`, a source that changes) | payload and `updated_at` of each row | upsert where the payload is distinct, replay in key order | lake, warehouse | `updated_at > ingested_at` only for what the source amended; corrections arrive, older versions do not come back |
| **Lake** (`Lake`) | objects under deterministic keys | `put`, `get`, `list_keys` | the run | re-landing a page overwrites it and loses no other |
| **Rounds** (`rounds_for_season`, `select_run_rounds`) | none; reads `raw.races` | which rounds to fetch | the schedule another load committed | only rounds that the schedule holds, and only those that have been raced |
| **Drivers** (`tasks.py ingest`, `tasks.py backfill`, the Airflow DAG) | consecutive failures, the partition | which runs, in which order, with which options | run, by exit code | one bad season does not end a backfill; nothing is silently skipped |
| **Migration runner** (`migrations/apply.py`) | `raw.schema_migrations` | status, apply pending, mark applied | warehouse | each version exactly once, recorded with its effect |
| **dbt models** (`dbt/models`) | tables rebuilt on each build | joins, aliases, unknown members | raw tables | no row lost or duplicated between raw and marts |
| **Configuration** (`config.py`, `.env`, `dbt_environment`) | the file; each process's environment | load, with the environment before the file | every process | all steps of a run work on one warehouse |
| **Discovery probes** (`discovery/`) | none | walk a payload, count its lists, choose the grain | the table of entities was written from their reports | the list they count is the list that `parse_records` reads |
| Dashboard, hooks, CI | none at run time | | | not modelled (section 8) |

Hard behaviours, in the order of how much they can hurt: a crash between any two
writes; several processes over one budget and one set of checkpoints; a resumed run
with other options than the one it resumes; statements repeated over a connection
that may have committed them; results that appear late, partially, or are amended
while they are paginated; answers of every kind from a server; migration runners
that race on one ledger; and settings that change under a run. `PROJECT.json` lists each one at its line, with the properties that watch it.

## 2. Modules

```
MCRateBudget --> RateBudget <-- RateBudget_proofs      one request's permission
MCFetch      --> Fetch      <-- Fetch_proofs           one scope's pages, answer by answer
MCIngestion  --> Ingestion  <-- Ingestion_proofs       runs: lake, checkpoints, raw tables
                     |
                  Replica        (abstract specification, INSTANCE ... WITH)
MCReplay     --> Replay     <-- Replay_proofs          one scope whose source changes
MCLoading    --> Evidence --> Loading <-- Loading_proofs  what is inside a landed object
                     |           |
                   Probe -----> Records
MCBackfill   --> Backfill   <-- Backfill_proofs        tasks.py backfill over such runs
MCDrivers    --> Drivers    <-- Drivers_proofs         tasks.py, the DAG, the settings
MCMigrations --> Migrations <-- Migrations_proofs      the schema they all need
```

Each module cuts the system at one level and replaces what is below by its outcome:
`Fetch` begins after `RateBudget` has let a request pass, `Ingestion` knows of a page
only that it comes or fails, `Backfill` of a child only its entities, `Drivers` of a
process only its exit code. `Replay` and `Loading` open two things that `Ingestion`
keeps closed, the versions of a row and the contents of an object.

### RateBudget

`RateLimiter.acquire` over `WarehouseBudget`, with a clock. One action per statement
or sleep boundary, because another process, a crash or a dropped connection may come
between any two: `Start`, `Prune`, `Acquire` (burst wait), `ReadUsage` (one `select`,
then the sleep for the oldest row when the allowance is spent), `Record` (the insert,
committed at once), `Send` (the request), `RetryStatement` and `GiveUp` (`_execute`'s
loop), `Stop` (end of a run or death anywhere), `Tick`.

| Code | Model |
|---|---|
| rows of `raw.api_call_log` | `log`, every `called_at` ever inserted, and `live`, the rows `prune` has left |
| `time.sleep` | `wake[p]`, before which `p` does nothing |
| `_last_call` | `last[p]`, `None` before the first call |
| attempt number in `_execute` | `attempt[p]` |
| requests at the server | `sent`, with `slot[i]` the row that request `i` was recorded as |

The clock is discrete and the database's and the processes' clocks advance together
(`usage` computes both numbers from the database clock and the process only sleeps
for a difference). A request leaves at most `Latency` after its row. `strained` is not in
the code: whether a process has ever started beside another one, or a statement has been
repeated. Overlaps and dropped connections start before `StrainedTime`, a bound for TLC.

### Ingestion

`main` down to `load_from_lake`: `Start`, `BeginLoadOnly` / `BeginExtract` /
`FindNoRounds` and `BeginNoRounds` (the top of `run_entity`, whose two `select`s of the
schedule matter when the first finds no round), `SkipComplete` / `BeginScope` (the resume
test), `Fetch`, `FetchFails` (dead letter and `failed` checkpoint, one commit, entity
given up), `Put`, `SaveCheckpoint` (and its commit), `ExtractDone`, `ListKeys` /
`ListNothing`, `LoadObject`, `CommitLoad`, `Finish` (exit code), `Crash`.

| Code | Model |
|---|---|
| the source's rows | triples `<<entity, scope, number>>`; a page is the set of its rows |
| `Lake` | `lake`, a function from keys (entity, scope, offset, partition) to pages |
| `raw.ingestion_checkpoints` | `ckpt[entity][scope]` |
| raw tables, `raw.failed_ingestions` | `raw`; `dead` for rejected records, `failures` for failed requests |
| options of a run | `run[p]`, a member of `Runs`: `resume`, `loadOnly`, `date` |
| open transaction | `txn[p]`, gone when the process dies |
| `due[p]` | not in the code: what the run was asked to load, for stating what exit code 0 means |

`RaceDay` and `Publish` are the season: a race's date comes, and its results appear
then (`Lag = FALSE`) or later (`Lag = TRUE`).

### Replica

What the pipeline promises, without pages, lake, checkpoints or transactions: a copy
that only grows out of what the source holds, and runs that report success only when
all they were asked for is in the copy. `Ingestion!ImplementsReplica` is the
refinement (`raw \cup dead` for the copy, `exit` for the outcome).

### Backfill

`task_backfill` one level above `Ingestion`: `Start` (a run with the partition the
operator passes), the child's entities (`NoRounds`, `SkipComplete`, `Land`,
`ExtractFails`, `SaveCheckpoint`, `Load`), `ChildEnds` and `ChildDies` (the return
code, and the second call whatever the first returned), `SeasonOk`, `SeasonFailed`
(the stop rule and the exit code), `Killed`; and the world around it, `OutageBegins`,
`OutageEnds`, `Repair` and `LoadReference`.

| Code | Model |
|---|---|
| `seasons`, newest first | `season`, counting down from `NSeasons`; 0 past the last |
| the calls `--all-season` and `--all-race` | `Phases`, the entities of each call |
| `ok` | `broken = {}`, the calls of the season that did not return 0 |
| `failed_seasons`, `consecutive` | `failed`, `consecutive` |
| the child's `failed` list and loop | `lost`, `pos` |
| lake, checkpoints, raw tables | `lake`, `complete`, `loaded`, one entry for an entity of a season |
| data the source cannot deliver | `awkward`, until `Repair` |

An entity of a season is one object with one checkpoint here; its pages are
`Ingestion`'s. The steps between which a process can die, and the fact that a
checkpoint knows no partition while the load lists only its own, are kept.

### Fetch

`Extractor.fetch_page` with its callers `extract_and_land` and `run_entity`'s handler,
for one scope: `Start` (with and without `--resume`), one action for each class of
answer (`Transient`, `TransientUntil` for a `Retry-After` that is a date, `Refused`,
`NotAnObject`, `Answer` with and without `MRData`), then `Put`, `Checkpoint`, `Handle`
(the handler of `ExtractError`), `Mute` (the same on a data connection that is gone)
and `Drop`.

| Code | Model |
|---|---|
| the loop over `attempt` | `answers`, what the page's requests have got so far |
| `time.sleep(...)` between attempts | `slept`, the seconds of each wait |
| `Page.limit`, `.total` as reported | `page`; the server clamps `PageSize` to `Cap` |
| the objects of the scope | `lake`, one per offset, with or without `MRData` |
| row of `raw.ingestion_checkpoints`, and `raw.failed_ingestions` | `ckpt`, `letters` |

`ckpt.by` is not in the code: the kind of answer that the checkpoint rests on. An object
without `MRData` holds no row, and lies where a page of rows may have been.

### Replay

One scope of one entity whose source is amended, grows and shrinks (`Amend`, `Insert`,
`Remove`) while a daily run pages through it (`Daily`, `Fetch`), lists the partition in
several calls (`List`) and replays its objects in key order through `upsert`
(`ReplayObject`, `Commit`); or a run only loads, of this day or the last (`LoadOnly`);
`NextDay` and `Die` come at any point.

| Code | Model |
|---|---|
| payload of a row | a version; the source's rows are `<<name, version>>` in its order |
| `updated_at > ingested_at` | `amended`: both are `now()`, the time of the transaction |
| `where t.payload is distinct from excluded.payload` | `Distinct` |
| `list_objects_v2` with a continuation token | `List`, `ListSize` keys a call |
| `floor`, `shrunk` | not in the code: what a run has seen of the source, and where a row was removed |

### Records, Loading, Probe and Evidence

`Records` holds operators: the table of entities, `parse_records` and `_resolve` over
JSON trees. `Loading` is `load_from_lake` for one partition: `ParseObject` (an object is
parsed and its failures dead-lettered), `UpsertRecord` (the statement that `upsert`
executes for each record), `LoadGarbage` (a dead letter for an object that is not JSON),
`Die` (the shape that raises what nothing catches), `Commit` and `Reload`. A payload is a
tree of `[t, v, kids]` nodes; its values are a few model strings.

| Code | Model |
|---|---|
| `keys`, the loop over them | `lake`, in their order, and `at`, 0 before the first |
| `records`, the loop over them in `upsert` | `records`, `next` |
| raw table, dead letters, as the transaction sees them and as committed | `table`, `letters`, `committed` |
| `LoadOutcome` | `outcome` |
| | `first` is not in the code: what the first load left and counted |

The loops of `parse_records` over parents and children are recursive functions, which the
prover can reason about. `NothingVanishes` measures them against a definition that does not
use them: `Places`, the indices of the objects at the measured place of the payload, with
what each says of a key (`Values`).

`Probe` is the walk of `discovery/probe_source.py` (`find_record_lists`,
`collect_records`, `pick_grain_path`), whose operators are RECURSIVE. `Evidence` has what
the table of entities was written from, `Measured`: for each endpoint the grain path that
`discovery/findings/source_probe.md` reports, and the primary key of its raw table. The
payloads of `MCLoading` are built from `Measured` and the table of entities is not looked
at, so that an entry of it that says something else loads something else. They are apart
because the prover cannot use a module that reaches a RECURSIVE operator, and `Loading`
needs none.

### Drivers

The steps that `tasks.py migrate`, `ingest` and `transform` and the DAG run in order:
`Start`, `Succeed`, `Refused` (a step that its settings, or what is missing in its
warehouse, make fail), `Fault` (any other failure), with `tries` and `alerts` for the
DAG's retries and its failure callback; `EditFile`, `CreateContainers` and `Correct` are
the world. Where a step works is `Target`: `config.load` prefers the environment to
`.env`, `dbt_environment` does the opposite in a shell, Airflow gives dbt the container's
environment, `apply.py` reads the file alone.

### Migrations

`migrations/apply.py` with any number of runners: `Start` (`discover`), `ReadLedger`
(`applied_versions`, read once), `MarkRecorded`, `MarkInsert`, `MarkCollides`,
`MarkUnknown`, `MarkDone` (`--mark-applied`), `List` (checksums, changed and pending),
`Execute`, `Commit`, `ExecuteFails`, `Collide` (apply), `Finish`, `Crash`; and the
repository, `AddFile`, `EditFile`, `RepairFile`.

| Code | Model |
|---|---|
| `migrations/*.sql`, their text, what of it fails | `disk`, `content`, `broken` |
| `raw.schema_migrations` | `ledger`, a checksum or `None`; its primary key is `Admits` |
| objects in the database | `effect`; `ByHand` existed before the ledger did |
| `applied`, `pending`, `migration.checksum` | `applied`, `pending`, `digest`, one of each per runner |
| the SQL of an open transaction | `script`, read from the file again after the checksum |
| `executed`, `swapped` | not in the code: what was committed, and what was edited under a runner |

## 3. Properties

Budget
* **WindowBudget**: any `MaxInWindow + 1` consecutive requests span a window, whatever
  happens. It does not hold (section 5).
* **BudgetKept**: it holds until two processes overlap or a statement is repeated, over any
  runs, crashes, restarts and prunes.
* **EveryCallRecorded**: each request has a row of its own, at most `Latency` older.
* **PruneKeepsWindow**: a row the window counts is never deleted.
* **BurstSpacing** (action property): a process's consecutive rows are
  `MinInterval` apart, whichever of the two sleeps came in between.

Fetch
* **RetriesJustified**: only transient answers are retried, and no page is given up
  before `MAX_ATTEMPTS` of them or an answer that refuses.
* **WaitsAsTold**: `Retry-After` is obeyed also when it says 0, between answers that
  say nothing and back off; nobody sleeps on the way out.
* **FailureIsRecorded**: a run that reports a page's failure left its dead letter and
  a checkpoint at that very page.
* **NothingSkipped**: every row a checkpoint has passed lies in a page in the lake,
  although the server clamps the pages. The one exception: rows whose page a repeated run
  overwrote with an answer without `MRData`, while it has yet to write its checkpoint, or
  for good when it lost its data connection before it could.
* **WorstCaseIsRefetch**: between runs, a scope that pages have completed has all its rows
  in the lake, as `pipeline.py:98-99` has it. It does not hold (section 5).
* **EventuallyLanded** (liveness): again and again pages with all the rows are in the lake.

Ingestion
* **LakeBacksCheckpoint**: the rows a checkpoint says are behind it are in the lake.
* **ExitZeroMeansLoaded**: a successful run left every row it was asked for in the
  warehouse or in the dead letters, including pages that earlier runs landed and lost.
* **WarehouseFromLake**: the warehouse holds nothing the lake cannot give back.
* **RoundsAreScheduled**: a race-scoped object exists only for a committed round.
* **ResumeNeverRefetches**: `--resume` never requests what a checkpoint covers.
* **RunsEnd**, **EventuallyLoaded** (liveness).
* **ImplementsReplica** (refinement).

Replay and loading
* **AmendedUpstream**: `updated_at > ingested_at` only for rows the source amended,
  whatever is fetched and replayed again, of whichever day.
* **NothingStale**: a daily run leaves no row older than it was when the run began or
  saw it last, unless a row was removed since that day began.
* **EventuallyCorrected** (liveness): again and again the warehouse holds what the
  source holds.
* **NothingVanishes**: against a reference definition that does not use
  `parse_records`, every object at the measured place of a payload is the row of its own
  keys or a dead letter of its own, nothing else is in either (so what is no object is in
  neither), and both counts are true. A load is killed when, and only when, a payload has a
  number or `true` in the place of the children, and then leaves nothing.
* **RerunConverges**: a second load leaves the same table, and updates nothing unless
  two records disagree on a row. (Its dead letters are inserted once more.)
* **EvidenceAgrees**: for pages as they were measured, the list that the probe's walk finds
  to be counted is the one that `parse_records` reads, and a load leaves one row for each
  grain on them, under that grain, and no dead letter.

Drivers and migrations
* **ExitZeroMeansBackfilled**: exit code 0 means every season is loaded, but for work
  that has an object in another partition (the documented trap of a new date).
* **StopRule**: a backfill stops early only behind adjacent failures, and always then.
* **PinnedGetsLoaded** (liveness): restarted with one partition, the backfill gets
  everything that can be fetched, the seasons behind awkward ones included.
* **OneWarehouse**: all steps of a run work on one warehouse, unless the shell
  contradicts `.env` or the settings in use change during the run.
* **OneAlert**: a failed run of the DAG is reported once; one that succeeded after
  retries is not.
* **CorrectionArrives** (liveness): a partial publication that the source
  corrects reaches the marts of the schedule's warehouse.
* **AppliedOnce**, **LedgerIsTrue**, **InOrder**: exactly once, in order, with a ledger
  that tells what ran.
* **EditsAreReported**: exactly the applied files that differ from what ran.
* **ExitZeroMeansRecorded**; **EventuallyRecorded** (liveness).

The mutated definitions (`Mut...`) in the modules are plausible bugs; `PROJECT.json`
names for each property of each passing run one that must violate it.

## 4. Runs

| Run | Bounds | Shows |
|---|---|---|
| `budget_shared` | 2 processes, overlapping or not, connections that drop, allowance 2, window 3, keep 3, 2 attempts; clock to 8, or to 4 once the budget is strained | the budget properties with crashes, restarts and repeated statements at every step. The clock allows more than two full windows of undisturbed runs, so the allowance fills, empties and fills again and `prune` deletes rows, and one full window and its boundary with two processes at work |
| `budget_concurrent` | 2 at once, no drops, clock to 8 | **violated**: `WindowBudget` |
| `fetch_retries` | 5 rows in pages of 2 (3 requested), 3 attempts, `Retry-After` absent, 0 or a date, 1 lost connection, fair | every mixture of answers to a page, at every page, over any number of runs |
| `fetch_interrupted` | the same | **violated**: `WorstCaseIsRefetch` |
| `ingestion_daily` | 1 process, 2 races, 2-page and 1-page scopes, page size 1, 2 partitions, late results, 2 faults | the ingestion invariants for the daily schedule and for `--load-only` |
| `ingestion_overlapping` | 2 processes at once, 1 race with two-page scopes, 1 partition, with and without `--resume`, 2 faults | refinement of `Replica` |
| `ingestion_resumed` | 1 process, `--resume`, 1 partition, 3 faults, fair | resuming repeats nothing, every run ends, all gets loaded |
| `replay_amendments` | 2 rows and one that may come, pages of 1, listings of 1, 2 changes, 1 dead run, 2 days, fair | what amendments, insertions and removals in the middle of a run leave in the table |
| `loading_parsing` | 12 entities, up to 2 objects each: pages as measured, of up to 2 parents and 2 records with equal and different keys; for 3 of them (no child list; keys of the parent; nested key) every listed odd shape too | nothing vanishes, what ends a load, the second load leaves the same table, the table of entities is what was measured |
| `backfill_restarted` | 3 seasons, 2 calls of one entity, stop after 2, 2 awkward entities not in adjacent seasons, 2 partitions, 2 faults, fair | the stop rule, exit code 0, and that restarts get there |
| `drivers_schedule` | operator and DAG at once, 2 warehouses, 2 seasons, 2 retries, 1 edit of `.env`, 1 fault, every combination of unset and blank, fair | one warehouse, one alert, and the correction gets through |
| `migrations_racing` | 2 runners, 2 versions of which 1 was made by hand, arrives late and is marked twice in one command, and 2 fails until repaired; 1 edit, 1 crash, fair | the migration properties |

Two pages are enough for every order of landing, checkpointing, crashing and
resuming inside a scope; three, of which the last is short, for an offset that moves
by the wrong limit; two rounds for the order between scopes; two entities for
the dependence of race-scoped work on the schedule's load and for an entity that
fails before one that succeeds; one row of three is unusable, so that dead letters
occur. Two changes are enough to amend a row twice, or to move it to a page that was
fetched and amend it then. Two objects are enough for two that agree or disagree on a
row, one of them unreadable. Two runners and two versions are enough for every race on
a primary key and for a later version before an earlier one.

The bounds that stand in guards are named constants: `MaxTime`, `StrainedTime`, `MaxFaults`, `MaxDrops`,
`MaxChanges`, `MaxDeaths`, `MaxEdits`, `MaxCrashes`, `MaxObjects`. The proofs hold for every value of
them. Deadlock is checked everywhere but in `loading_parsing`, which ends after the
second load or a death.

**Fairness.** A process that can go on does (`WF` of `Work`, `Proceed`, `Run`); it is
started again after each run (`WF` or `SF` of `Start`, `Daily`: the scheduler or the
operator), and the world goes on (seasons, days, outages that end). There is no
fairness on failures or crashes, which the bounds make finite: liveness is about what
happens once faults stop.
* `Ingestion`: `WF` of `Work` and `Start`, and the season goes on.
* `Fetch`: runs with and without `--resume` are both started again and again (`SF`, as
  a run of one kind may be in progress whenever the other could start), and a page that
  is asked for again and again comes in the end (`SF` on the page, not on its attempt: a
  source that never serves a page is never covered).
* `Replay`: the schedule (`SF` of `Daily`) meets operators' loads at any moment.
* `Backfill`: the operator starts it again; nothing makes him repair what is awkward or
  choose the same partition (`PinnedGetsLoaded` is about the histories in which he
  settles on one).
* `Drivers`: `WF` of the DAG's start, of each driver's work and of the correction; none
  on the operator.
* `Migrations`: files that fail get repaired, every command line is given again and
  again (`SF` of `Start`).

Three seasons and a limit of two are enough for a failure that is forgotten, one that
is not and a stop before the last season. The limit matters: as many *adjacent*
awkward seasons as the limit stop every restart at the same place, and the older
seasons are never reached until the awkward ones are repaired or `--to` skips them.
The stop rule reads such a streak as the network, the credentials or the source.

## 5. What the violated runs say, and what else was met

**The budget is shared, not atomic** (`budget_concurrent`). `usage` and `record`
are separate statements, and the usage is not read again after the long sleep; two
processes pass on the same reading. The drivers run one process at a time
(`max_active_runs=1`, sequential subprocesses), where the budget is proved to hold.

**A page that was in the lake can be gone** (`fetch_interrupted`). "If the process dies
between the two, the worst case is re-fetching one page" (`pipeline.py:98-99`), but
`lake.put` overwrites an object in place. A run without `--resume` that is answered a 200
without `MRData` puts that over the first page; it dies before its checkpoint (its
connection is gone), and the next run with `--resume` goes on from the older checkpoint,
behind that page, and completes the scope. Only a later run without `--resume` brings the
rows back to the lake.

The rest stands in the properties as a stated exception, or in the definitions where the
behaviour is modelled; no run is spent on it.

1. A call that is counted twice is not conservative (`RateBudget`): the duplicate fills
   the allowance earlier, but `acquire` sleeps for the *oldest* row only and records
   without looking again. `BudgetKept` ends with the first repeated statement.
2. Checkpoint and data commit apart (`pipeline.py`), where migration 003 says they
   commit together. It does no lasting harm in one partition: the load always re-reads it.
3. A dead letter is never resolved, and one for a failed page always says
   `attempt_count` 4 (`pipeline.py:85`), also when the first answer refused.
4. The date filter admits today's race before its results exist; the empty answer
   completes the checkpoint that `--resume` trusts. Only the daily run corrects it.
5. A reported page limit of 0 makes `extract_and_land` ask for the same page for ever;
   the guard is in `Extractor.paginate`, which the pipeline does not use. `Fetch` and
   `Ingestion` allow such a limit (`Cap`, `Limit`); the two `RunsDescend` and the runs'
   liveness are for a positive one.
6. `--resume` under another partition than the interrupted run's skips the extract,
   lists nothing and exits 0, as `tasks.py:203-211` documents: the exception of
   `ExitZeroMeansBackfilled`.
7. An answer that is JSON without `MRData` completes a scope (`ckpt.by = "bare"` in
   `Passed`); one that is not an object, and a `Retry-After` that is a date, end
   the process with what nothing catches, and no dead letter.
8. After a removal at the source the last object of the partition is not overwritten,
   and is replayed last: the exception of `NothingStale`.
9. A row that is inserted and amended by one transaction never shows as amended: `now()`
   is the transaction's (`Upsert` in `Replay`).
10. `apply.py` reads a file again after it took its checksum: an edit in between
    is executed under the old checksum (`swapped` in `LedgerIsTrue`).
11. "One bad record must never kill a run, and must never vanish silently"
    (`003_raw_ingestion_tables.sql:48-49`, `tests/test_parsing_and_config.py:58`, and in
    other words `entities.py:214-216`). It can kill one: a number or `true` where the list
    of children should be raises a `TypeError` in the loop over it (`entities.py:227, 232`),
    which nothing catches; the load of the entity rolls back and every later load of the
    partition ends the same way. And it can vanish: a parent or a child that is no object
    is passed over (`entities.py:222-223`, `232-233`), with no row and no dead letter. Both
    are in `NothingVanishes` as what the code does.
12. `dbt_environment` prefers `.env` to the shell, `config.load` the shell to `.env`:
    the exception of `OneWarehouse`.

## 6. Proofs

Checked by TLAPS for every value of the constants that meets the named assumptions
(positive allowance and window, `Keep >= Window`, positive attempts, a schedule of
`NRounds` rows that is not itself race-scoped, and so on).

| Theorem | Says | Argument |
|---|---|---|
| `RateBudget_proofs!TypeCorrect` | `Spec => []TypeOK` | one step per action |
| `PruneIsSafe` | `Spec => []PruneKeepsWindow` | `LogInv`: rows are in time order and only rows older than `Keep` were deleted; `Keep >= Window` |
| `NoBlindCall` | `Spec => []EveryCallRecorded` | `RecordInv`: a process about to send holds a row that no sent and no other pending request has, and `Tick` stops at `Latency` |
| `RateBudgetHolds` | `Spec => []BudgetKept` | `BudgetInv`, below |
| `BurstHolds` | `Spec => BurstSpacing` | `BurstInv`: from the burst wait to the insert a process sleeps, through every later sleep and repeated statement, until `MinInterval` has passed since its last call |
| `Ingestion_proofs!TypeCorrect` | `Spec => []TypeOK` | one step per action |
| `CheckpointBacked` | `Spec /\ []Orderly => []LakeBacksCheckpoint` | `PagesInv`, below |
| `RebuildableFromLake` | `Spec /\ []Orderly => []WarehouseFromLake` | `LoadsFromLake`: what an open transaction has read is in the lake too, and no object loses a row |
| `ResumeHolds` | `Spec /\ []Alone => []ResumeNeverRefetches` | `ResumeInv`, below |
| `RoundsAreScheduledHolds` | `Spec => []RoundsAreScheduled` | `RoundsInv`: what a run has still to extract is scheduled, and the schedule is never taken back |
| `ExitZeroHolds` | `Conditions => (Spec /\ []Orderly => []ExitZeroMeansLoaded)` | `IInv`, below |
| `PromiseKept` | `Conditions`, no `--load-only` `=> (Spec /\ []Orderly => ImplementsReplica)` | every step is one of `Replica`'s or a stutter |
| `LakeOnlyGrows` | `Spec /\ []Orderly => [][LakeGrows]_lake`: no object goes, and a page put over another keeps its rows | `PagesInv`: `PutKeepsObjects` |
| `NeverStuckHolds` | `Spec => []NeverStuck`: the loops over scopes and objects find a next one while one is left | a least number, then a least key |
| `RunsDescend` | `Limit > 0 => (Spec => ` each step of a run lowers its rank`)` | `FiniteInv`, below |
| `Fetch_proofs!RunDescends` | `Cap > 0 => (Spec => ` each step of a run lowers its rank`)` | below |
| `Fetch_proofs!RetriesHold`, `WaitsHold`, `FailureHolds`, `NothingSkippedHolds` | the invariants of `Fetch` | `IInv`, below |
| `Replay_proofs!AmendedHolds` | `Spec => []AmendedUpstream` | `Seen`, below |
| `NothingStaleHolds` | `Spec => []NothingStale` | `StaleInv`, below |
| `CorrectedHolds` | `Spec => []Corrected`: a daily run that saw the last version of every row leaves the warehouse as the source is | `NothingStale` with `Seen`: nothing is older than what the run saw, and nothing is newer than the source |
| `Loading_proofs!RerunConvergesHolds` | `Spec => []RerunConverges` | `Loaded`, below |
| `NothingVanishesHolds` | `Spec => []NothingVanishes` | `Covers`, `LettersInv` and `KillInv`, below |
| `Drivers_proofs!OneWarehouseHolds` | `Spec => []OneWarehouse` | `HomeInv`, below |
| `OneAlertHolds` | `Spec => []OneAlert` | `AlertInv`: how many alerts a run of the DAG has sent follows from where it is |
| `Migrations_proofs!TypeCorrect` | `Spec => []TypeOK` | one step per action |
| `AppliedOnceHolds`, `LedgerHolds`, `EditsReported`, `ExitZeroHolds` | the invariants of the migration runners | `IInv`, below |
| `InOrderHolds` | `Spec => InOrder` | `IInv`: what is not pending any more is recorded, and the least pending version commits |
| `Backfill_proofs!TypeCorrect` | `Spec => []TypeOK` | one step per action |
| `StopRuleHolds` | `Spec => []StopRule` | `StreakInv`: the seasons just behind the one in progress that have failed are exactly `consecutive` many |
| `ExitZeroHolds` | `Spec => []ExitZeroMeansBackfilled` | `ProgressInv`, below |
| `Backfill_proofs!RunDescends` | `Spec => ` each step of a backfill lowers its rank | below |

`WindowBudget` speaks of requests and the code only looks at rows, so it is not
inductive. `BudgetInv` adds: at most one process is up; the *log* has the window
property (`LogBudget`); a process about to record sleeps until the row `MaxInWindow`
places back has left the window (`Allowed`); requests leave in the order of their
rows. The step that needs work is `ReadUsage`: by `RoomInWindow`, if fewer than
`MaxInWindow` rows are in the window then the row that many places back is outside;
by `OldestIsRecent`, if the allowance is exactly spent then the oldest row in the
window is that row, and sleeping for it is sleeping long enough. Both use `LogInv`
(pruned rows are outside every window). All that is claimed while nothing has strained the
budget, `CalmInv`; the step that strains it ends the claim for good, and both kinds are
needed: `budget_concurrent` is a counterexample with an overlap, and a duplicate row of a
repeated statement (section 5) would be one.

`LakeBacksCheckpoint` is about checkpoints and the code reaches it through processes
that have fetched a page and not yet landed it. `PagesInv` adds: every object is the page
of its scope at its offset as some fetch had it, whole or, when results are late, empty
(`LakeInv`, `Answers`), so that overwriting an object with a later answer loses nothing
(`PutKeepsObjects`); all rows before the offset of an extracting process are in the lake,
its page is once it is about to checkpoint, and if it was told an empty total then
nothing of that scope has landed (`Knows`, `NoneLanded`); all rows before a checkpoint's
offset are (`Tells`). `PageAdvances` is the arithmetic of one page. The theorems about
the lake assume that the runs are `Orderly`: either they do not overlap (`Alone`, which
`max_active_runs=1`, `f1_pipeline.py:64`, and the sequential subprocesses of `tasks.py`
see to), and results may be as late as they like; or results are there by race day
(`~Lag`), and any number of runs may overlap. With neither, an overlapping run can
overwrite a full page with the empty one that it fetched before publication.

`ResumeInv` says more than `ResumeNeverRefetches`: wherever an extracting run with
`--resume` is, it is not behind the checkpoint of its scope, and that scope is not
complete. Only its own pages move the checkpoint while it is alone. It holds whether or
not results are late, and is false of two runs: one may complete a checkpoint that the
other is behind.

`ExitZeroMeansLoaded` is the promise the drivers rely on. Besides `Orderly` it needs
`Conditions`, which the runs' configurations meet:
* `ScheduleFirst`: the schedule is selected before the entities that read their rounds
  from it, and its rows have usable keys. This is about one run with several flags, whose
  entities are in that order whatever the command line's is (`pipeline.py:256-264`);
  `tasks.py` starts a process for each flag in the same order and stops at the first that
  fails, and a process that selects race-scoped entities alone can only promise the rounds
  of the schedule it finds.
* `OnePartition`: runs that resume pin one partition, as `tasks.py` demands of a backfill
  in words: without it a run skips, because of its checkpoint, what lies in another
  partition, and reports success.
* `NothingLate`: runs that resume are for seasons whose results are out, as a backfill's
  are. A scope that was empty when its checkpoint was completed is skipped for good
  (section 5, item 4).

`IInv` follows each row a run has to load: of an entity that is done with it is in the
warehouse or is a dead letter (`Earlier`), of the current one it is in the run's partition
or in a part of the scope that is still to extract, then in the partition, then in the
open transaction or in an object that is still to read (`Current`). A page in flight is a
full one if rows of its scope have to be loaded (`Fetched`): they were published when the
run began. The interesting steps are `Choosing`, where a resumed scope's rows are found in
the partition because of `LakeBacksCheckpoint`'s invariant, `RoundsFound`, where the
rounds to extract cover what the source holds because the schedule's own rows were loaded
before, and `Saving`, where the page just landed covers the rows up to the next offset.
What other runs do in between only adds (`WorldGrows`, `Undisturbed`). `PromiseKept` is
then a map of steps: `Start` is `Begin`, `CommitLoad` is `Copy`, `Finish` and `Crash` are
`Succeed` and `Fail`, and `Succeed`'s guard is exactly `ExitZeroMeansLoaded`.

`Fetch`: the properties are inductive together with what the run is in the middle of
(`RunInv`: how many answers it has had, which page it holds) and what is before its offset
and its checkpoint, which a landed page keeps and an answer without `MRData` may overwrite
(`ScopeInv`). `Replay`: everything anywhere (the lake, the table, an open load, the page in
flight) is a version the source has shown, `Seen`; a row is updated only when two versions
differ, so one of them is a later one, and the source amended it. `Drivers`: the steps of
a run have worked where its settings point, `Home(d)`, as long as the run is not excused.

`NothingStale` is about the last object that holds a row, as replaying in key order lets
it win. `StaleInv` says where the version is that the run must not fall behind, `Fresh`:
while it fetches, in a landed page behind its offset, with no older version in any page
from there up to the offset, or still to come in the source; then in the partition; then
among the objects that are still to replay, or in the transaction with nothing older to
replay. It rests on three facts: a row is in the source once, as it was last shown
(`SourceInv`; `ReplayAssumption` asks it of the start); as long as nothing was removed,
the objects of a partition are pages that the run overwrites, because none lies at or
beyond the end of the source (`PagesInv`); and an insertion moves rows only towards later
pages, which are fetched later. A removal moves them the other way, and leaves an object
behind the end: the exception of the property. `Batches` and `Least` are why listing in
several calls replays every key in order.

`RerunConverges` would be immediate if the two loads did the same upserts on the same
table; they do them on an empty and on a full one. `Loaded` describes the table of a load
at any record: every row was made by a record such that all later ones with the same keys
say the same (`Wins`), or is left from before and no record had its keys. At the end
nothing is left from before but what both loads have, and the last writer of a row is the
same in both. Without `Disagree` a record that is upserted again finds itself.
`LoadingAssumption` asks of a payload only that its lists are finite.

`NothingVanishes` is about what the loops of `parse_records` compute, for any payload and
any entity of the table. The provers cannot instantiate an induction theorem with an
operator parameter, so `Induction` speaks of a set of numbers that has 0 and with each number the
next one, and `Recursion` gets from it the type and the equations of a recursive function
given as data. `ChildLoop` and `ParentLoop` put the two loops into that form; their
invariant is `Covers`: up to here every record is the parse of one place with complete
keys, every complete place is a record, and each fragment is among the failures as often as
there are incomplete places that hold it (`MoreLetters` is that count's step).
`OneValue` and `CompleteResult` say that `_resolve` and `Values` agree: a key is resolved
exactly when the place says one value for it. `LettersInv` carries the failures into the
dead letters of a load object by object, and `RecordsLand`, from `Loaded` and `CountInv`,
the records into the table. `KillInv` has the rest: the objects that a load has behind it
do not kill it, so a load that has once reached the end never dies, and one that dies finds
nothing committed to fall back on.

**Termination.** `RunsEnd` says that a run ends, and `EventuallyLanded` rests on it; that
no run goes on forever is proved. The steps of a run lower a rank in a well-founded order
(`LowerIsWellFounded` in each module), whatever others do in between, so that a run takes
finitely many steps. In `Ingestion` the rank is the stages of the entities that are left,
the scopes or objects, the rows of the scope and the steps of its page; it falls because
the lake is finite and no answer says more than the source holds (`FiniteInv`), and because
a page moves the offset on by the limit that the server reports, which is where `Limit > 0`
comes in: with 0 the same page is requested forever (section 5, item 5).
`NeverStuck` adds that its loops always find a scope or an object to go on with. In `Fetch` the rank is the rows before the
end and the attempts left for the page, and `Cap > 0` is a condition likewise. In
`Backfill` it is seasons and calls, then entities and their stages, so that a backfill in
which everything fails ends too.

`ExitZeroMeansBackfilled` holds because the load runs after every extract, skipped or
not. `ProgressInv`: a complete checkpoint has an object in *some* partition; the
entities behind a child that has given none up, the calls behind a season that has
broken none and the seasons behind the driver that have not failed are done. At a
load, either the object is in this partition, and is loaded, or the checkpoint's
object is in another, which is what the exception of the property says.

The migration runners act on what they read once. `IInv` says that it gets old but
never wrong: nothing is ever taken out of the ledger (`LedgerGrows`), so what a runner
read as applied stays recorded (`ReadingInv`), what it has done with is recorded
(`ProgressInv`), and a checksum or a script is the file's content unless the file was
edited under it, which is what `swapped` remembers. The proof that a step preserves what
*every* runner knows has three parts: the acting runner, action by action (`OwnStart` to
`OwnEnd`); the others, of whom nothing changes but the database, which only grows
(`Others`, `Undisturbed`); and an edit of a file (`Edited`). The database's own two
invariants need it at two places: an insert of a mark (`Marking`), and a commit
(`Committing`), where `Admits`, the ledger's primary key, is all that keeps two runners
apart.

Only model-checked:
* The liveness properties, for fairness and ENABLED are out of the prover's reach. For
  `RunsEnd` and `EventuallyLanded` the rank is proved (above), for `EventuallyCorrected` of
  `Replay` that a run which saw the last versions corrects the warehouse
  (`CorrectedHolds`); that such a run comes about, or that the next step is ever taken,
  is TLC's.
* `EvidenceAgrees`, which is about the RECURSIVE walks of `Probe`.

Neither checked nor proved, because false: the lake's properties for overlapping runs with
late results, and `ResumeNeverRefetches` for overlapping runs (TLC finds a counterexample of
each with the constants of `ingestion_overlapping`, the first two with `Lag`).

## 7. Plan

What is left, the most consequential first.

1. **Refinement of the drivers**: `Backfill`'s child as an abstraction of `Ingestion`, so
   that `ExitZeroMeansBackfilled` rests on `Replica`'s promise instead of on a child that
   is modelled twice.
2. **Marts**: the joins of `dbt/models`, unknown members and status aliases as operators
   over small tables, checked against reference definitions.

## 8. Not modelled

* Formatting, logging, argument parsing, the quoting of `.env` lines, credentials,
  roles and grants.
* `InMemoryBudget` and `Extractor.paginate`, which only tests use.
* Reports of the discovery probes, beyond the walk and the choice of the grain.
* A season that changes under the DAG at New Year: its season is a constant of a run.
* The SQL of the dbt models, which `Drivers` has as one step that rebuilds the marts or
  fails at a test; stateless joins that dbt's own tests check on the data.
* The dashboard (read-only), hooks and CI.
