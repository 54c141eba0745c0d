# Verification of the Denver 311 pipeline

TLA+ models of the pipeline in `src/`: ingestion from a public ArcGIS feature
layer into an S3 landing zone, a Spark transform with a data-quality gate, a
Postgres star-schema load, an Airflow DAG that runs them daily, and a dashboard.
The modules are checked with TLC on small instances, each part by itself and the
chain from the source's rows to the warehouse's facts as a whole; every safety
property those runs check, and both refinements, are proved with TLAPS for every
value of the constants, some of them under a named hypothesis (section 6).

Contents: 1 inventory, 2 plan, 3 modules and their correspondence to the code,
4 runs, 5 fairness, 6 proofs, 7 where the code and its documents differ,
8 what is not modelled.

## 1. Inventory

| Part | Code | State it keeps | Operations | Hard behaviour |
|---|---|---|---|---|
| Feature layer (external) | used by `ingestion/arcgis_client.py`, `discovery.py` | rows, their creation stamps, the host | publish, age out, move host, answer count and page queries | changes between any two queries |
| Ingestion job | `ingestion/run_ingest.py` | none of its own between runs; a window, a count, offsets and a tally during one | resolve, ensure bucket, decide window, count, page, land, manifest, advance | overlap of runs, crash between writes, retries, short reads |
| Landing zone | `ingestion/landing.py` | raw page objects, manifests, `_state/watermark.json` | put, get, head, create bucket | unconditional overwrites |
| Transform job | `spark_jobs/transform.py`, `run_transform.py` | local parquet directory, `processed/` objects | scan raw, dedup, derive, gate, overwrite, upload | reads half-finished runs; arbitrary tie-breaks; stale objects |
| Quality gate | `spark_jobs/quality_checks.py` | none | seven checks, raise on a hard failure | one bad row stops every later batch |
| Warehouse loader | `warehouse/load_warehouse.py`, `schema.sql` | dimension and fact tables | one transaction of upserts | two loaders; partial column updates |
| DAG | `dags/denver311_pipeline.py` | task states | retries, trigger rules | overlapping DAG runs; what "failed" means |
| Dashboard | `dashboard/app.py`, `data.py` | one cached connection | six read-only queries to a page | several snapshots to a page; a connection that dies |
| `scripts/ls_raw.py`, logging, Terraform, CI | | | | not modelled: no state of the pipeline |

How they interact: ingestion and transform share the bucket, transform and
loader share the local directory `output/processed_parquet`, loader and
dashboard share the database. Nothing else connects them; in particular no part
waits for, or locks out, another one except through the DAG's task order.

`PROJECT.json` lists under `hazards` each place in the code where this can go
wrong, with the properties that watch it.

What makes each part correct, in one sentence each:

- *Ingestion*: a row the source showed is never left behind the watermark; a run
  that says `ok` has read every row it counted; the manifests and the watermark
  tell what happened; every run ends, and rows are landed in the end.
- *Landing zone*: raw objects are never replaced.
- *Transform*: what a finished job leaves covers everything landed before it
  started, once per OBJECTID; the gate holds of every byte written.
- *Warehouse*: a load is atomic and repeatable; keys resolve; overlapping loads
  give the result of some order of them; every load ends.
- *DAG*: every DAG run ends and reports how it ended; a load that ended well has
  everything its DAG run's transform saw; in the end every request is loaded.
- *Dashboard*: a page, or what one displays above a traceback, has no gap and misses
  nothing committed before it was opened; its charts agree as far as the loads it
  met allow.

## 2. Plan

Written, in this order: `FeatureLayer` and `Landing` (what ingestion stands on),
`Ingest` (composes both), `Delivery` (its abstract contract), `Transform`,
`Warehouse`, `Table` (the abstract warehouse it implements), `Dag`, `Pipeline`
(composes `Dag`, `Transform` and `Table`), `Dashboard` (over `Table`). The theorems
about a module are in a module of their own:

    Bounds            finite sets of numbers: cardinality, largest, smallest
    DeliveryProofs    Ingest: types, at-least-once, the refinement of Delivery
    AuditProofs       Ingest: keys, manifests, status, dry runs, failures
    ContractProofs    Delivery
    TransformProofs   Transform: gate, completeness, publication
    WarehouseProofs   Warehouse: types, keys, commits, the refinement of Table
    PipelineProofs    Pipeline, over TransformProofs
    DashboardProofs   Dashboard

How the models depend on each other:

    FeatureLayer, Landing <- Ingest   --implements--> Delivery
    Warehouse                         --implements--> Table
    Transform, Dag, Table <- Pipeline
    Table                 <- Dashboard

Where a component was put in place of another one (`Table` for `Warehouse` in
`Pipeline` and `Dashboard`, "what was counted is landed before the task returns 0"
for `Ingest` in `Pipeline`), a run checks and a theorem states that the detailed
module does what the short one says: `ImplementsTable`, `CountReconciles`.

Still to come:

1. Proofs across modules: that what the gate lets through is what `Dashboard` and
   `Warehouse` assume of a batch (`GatedBatches`, and the second half of
   `SteadyCases`), and that `OneRowEach` is what `OutputComplete` gives a loader.
2. `Dates`: `date_key`, `date_dimension_row` and the epoch conversions as
   functions, checked against a reference definition.

## 3. Modules

A name with an underscore, such as `Status_OffByOne`, is a *mutant*: the operator
after it as a plausible mistake would have it. No specification uses one; they
show that the property that `PROJECT.json` pairs them with depends on the code
being right there.

### FeatureLayer (external)

`stamp[o]` is the creation date of row `o`, `live` the rows served now, `host`
who serves them, `now` the clock. `Publish`, `Withdraw` (the rolling window),
`Migrate` (the item's URL changes) and `Tick` are what the source does by itself.
`Selected`, `PageOf` and `Exceeded` are the answers to the queries the client
writes; `Matches` and `Trunc` are the predicate of `build_where_clause`, strict
and cut to whole seconds. `StampOrder` states what the feed promises of a new
row's stamp, and several results depend on it.

### Landing

The bucket: page objects (`raw`), manifests, the watermark and its writer. Puts
are atomic and the last one wins. A raw object keeps the OBJECTIDs of its rows.

### Ingest

Each member of `Runs` executes `run_ingest.ingest` once. A step is one network
call and the code up to the next:

| Action | Code |
|---|---|
| `Start` | `main`, with the command line in `Modes` |
| `Resolve` | `resolve_layer_url` |
| `HeadBucket`, `CreateBucket` | `ensure_bucket`, its two calls |
| `DecideWindow`, `WindowWithoutBucket` | `read_watermark` and the choice of `since` |
| `Count`, `CountMissing` | `client.count` |
| `FetchPage`, `FetchEmpty`, `LandPage` | `iter_pages` and the loop body with `write_page` |
| `QueryFails` | one attempt of a retried query |
| `FinishDry`, `StoreManifest`, `PutWithoutBucket` | the manifest |
| `Advance` | `write_watermark` |
| `Crash` | the process dies, or an exception no one catches |

`reach`, `counted`, `seen` and `floor` are history. `reach[r]` is where the
coverage a run continues began: a run that starts at the watermark continues the
coverage of the run that stored it. `floor` is the `reach` of the stored mark.

### Delivery

The contract in three actions: rows get delivered any number of times, and the
mark moves only to a place that leaves nothing undelivered behind it. `Ingest`
instantiates it as `Promise` over its own variables (`landed` is the content of
`raw`, `mark` the watermark, `base` is `floor`); `ImplementsDelivery` is its `Spec`
there.

### Transform

Each member of `Jobs` executes `run_transform.main` once, beside ingestion runs
that land files (`Land`) and a source that edits rows (`Edit`). Jobs may overlap;
a DAG that runs them one after the other is a special case.

| Action | Code |
|---|---|
| `Scan` | one answer of the listing in `download_raw_files`, with its downloads |
| `Clean` | `clean_service_requests` and `run_quality_checks` |
| `Overwrite`, `CommitPart` | `write.mode("overwrite").parquet`: delete, then rename part by part |
| `ListOutput`, `UploadPart` | `upload_parquet` |
| `Crash` | the process dies at any step |

A file's key orders it by run id and part, which is how S3 lists it; since raw
objects never change, listing and reading them is one step. `Dedups(rows)` is the
set of results `deduplicate` may have: `row_number` leaves ties open. One result
is chosen per job, because every evaluation of the lazy plan reads the same local
files. `rev` numbers the versions of a row and is history. Spark writes one part
file per row here, which admits every interleaving of a coarser split. Two
overlapping jobs share Spark's staging directory, so one may move the other's
files or make it fail; both are covered, as an early `CommitPart` and a `Crash`.
`last` remembers whose files the directory holds, or `"several"`; the properties
that speak of a job's output speak of it while it is that job's alone.

### Warehouse

Each member of `Loaders` executes `load_warehouse.main` once. `dim` and `fact`
are the committed tables, `newDim[l]` and `newFact[l]` what the open transaction
of `l` has written and therefore locks.

| Action | Code |
|---|---|
| `NewOutput` | a transform replaced the output |
| `Read` | `read_parquet` |
| `ApplySchema` | connect, `schema.sql` and its commit |
| `GetOrCreate` | `get_or_create_dimension_key` |
| `Upsert`, `Refused` | the fact statement; `created_at NOT NULL` |
| `Commit` | `conn.commit()` |
| `DeadlockAbort`, `Crash` | Postgres cancels a statement; the connection is lost |

A statement that meets a key another open transaction has written waits for it,
and so does `schema.sql`: `CREATE INDEX IF NOT EXISTS` locks the fact table against
its writers, so a loader that has read its batch may wait out another one's load.
`Merged` is the `DO UPDATE SET` list: status, closing date and hours come from
the new row, creation date and keys stay. `closed` stands for `closed_at`,
`is_closed` and `case_status`, which change together. `place` is where a row stands
in the part files, which is the order a loader meets the rows in. Spark spreads them
over the files by a hash of the OBJECTID, in a number that depends on the amount of
data, so two outputs may list the OBJECTIDs they share in opposite orders, and their
loaders may deadlock over facts that both only update. Loaders of one output cannot
(`OneOutputOneOrder`). One dimension stands for the three that
`get_or_create_dimension_key` fills.

### Table

The warehouse as its readers see it: one variable, `table`, a set of facts with the
values of their dimensions in place of the keys, and one action, `Load(batch)`.
`Merge` says what a batch makes of the table: a new OBJECTID is inserted, a known
one has its closing date and hours taken over. A batch with two rows of an OBJECTID
(files of two outputs) inserts the first it meets and refreshes it with the last.
`Warehouse!Joined` is the refinement mapping, `ImplementsTable` the property.

### Dag

Per DAG run the state of each of the four tasks, its attempts and what
`notify_completion` printed. `Launch`, `Succeed`, `Fail`, `Skip` and `Notify` are
what may happen to a task; `Retries`, `Triggered` and `Upstream` are the arguments
of the operators, the `trigger_rule` and the `>>` chain. `Green` is Airflow's rule
for the colour of a DAG run: the states of its leaves.

### Pipeline

Each member of `Jobs` is a DAG run with its transform job. `ByHand` lets DAG runs
overlap; without it one starts when the one before has ended.

| Action | Code |
|---|---|
| `StartIngest`, `Ingest`, `IngestReturns`, `IngestFails` | the `ingest` task: pages land, and the exit code is 0 if all that was counted is landed |
| `StartTransform`, `Transforms`, `TransformDies`, `TransformReturns` | the transform task: the steps of `Transform`, and its exit code |
| `StartLoad`, `ReadFile` | `pd.read_parquet`: list the directory, read file by file |
| `LoadReturns`, `LoadFails` | the rest of `load_warehouse.main`: `Table!Load`, or nothing |
| `SkipTask`, `NotifyTask` | the scheduler; `notify_completion` |
| `SourceEdits` | a case is closed, reopened or corrected at the source |

`whose` remembers which job's directory a loader listed.

### Dashboard

`app.py` builds a page query by query; each query is a statement with a snapshot of
its own, on the one connection that `st.cache_resource` keeps for all sessions.

| Action | Code |
|---|---|
| `OpenPage`, `CannotConnect` | `get_connection`, cached or not, and the `except` branch |
| `Query` | one of the six functions of `data.py`, in page order |
| `QueryFails`, `RollBack` | the server refuses a query; pandas rolls back and raises |
| `QueryOnDead` | the cached connection was lost |
| `CreateTables`, `LoadCommits` | a loader: `schema.sql`, a load |
| `GoesDown`, `ComesUp`, `Restart` | Postgres; somebody restarts Streamlit |

`began` is the table when the connection's open transaction began. psycopg2 begins
one with the first query and nothing ends it, so all pages run in it; at READ
COMMITTED no statement looks at it, and `PageIsLive` shows that this matters. The
value of a row stands for all a fact keeps of the first row loaded for it: agency,
internal flag, coordinates. A page's numbers are kept, not its layout. Of its order
one thing is: the first three queries (`AtOnce`) are made before anything is
displayed, and each later one is displayed before the next. So a page that crashes at
a query keeps the answers displayed above the traceback (`Displayed`), which are none
or those of three, four or five queries; `PageHasNoGap` says so, and
`PageIsLive` and `VolumeCoversTotal` speak of those answers too.

## 4. Runs

| Run | Question | Result |
|---|---|---|
| `ingest_overlap` | two runs, incremental or full, any interleaving, one fault anywhere, pages capped by the server | nothing is left behind; status, manifests and watermark agree with the data; implements `Delivery`; the proof's invariant holds |
| `ingest_degraded` | incremental, full and dry runs from a cold start; rows age out, counts go missing, `max_pages` is hit, the bucket may be absent | a short read has one of these causes; no writing run ends quietly without a bucket; a dry run writes nothing |
| `ingest_progress` | sequential attempts, a fault and a host move, the bucket there or not | every run ends; every row a stored watermark selects is landed |
| `transform_bad_rows` | malformed rows, corrected or not, one without OBJECTID, overlapping jobs, a crash | the gate holds; output is complete; the last good output stays; no false failure |
| `warehouse` | two loaders, two outputs in the same or opposite order, waits, deadlocks, a refused row, a lost connection | implements `Table`; joined, last commit wins, a reload is idle, every load ends; loaders of one output deadlock over new dimension values only; the proof's invariant holds |
| `pipeline` | two DAG runs overlap over one parquet directory; malformed rows; a fault | a good load of its own transform's directory has every landed request; facts come from gated rows, whichever jobs' files a loader met; the report is final; all is uploaded |
| `pipeline_progress` | scheduled DAG runs, an edited row, a fault | every DAG run ends; every request is loaded in the end |
| `dashboard` | two sessions, one connection, loads in between, an outage | pages are live, have no gap above a traceback, and agree as far as they can |

Each of the remaining runs (section 7) checks one property that fails.

Bounds. Two runs, jobs or loaders are the smallest number that interleave; three
sequential attempts outnumber one fault and one host move. Two or three source
rows with pages of one row give a first, a middle and a last page; a page size
above the server's cap separates the two. In `ingest_overlap` time reaches
two whole seconds with two ticks in each and the start of a third; the two rows may be
there at the start or be published at any moment. `ingest_degraded` lets rows age out
as well. One fault may strike at any call; two are not needed for any mutant to be found. Two OBJECTIDs
are the least for a dedup to lose one and keep the other; one suffices where
several versions of it are the point. Three OBJECTIDs and two names are the least
for two loaders to wait for each other over dimension values, and two for the facts
alone; closings and reopenings need two. The second output of `warehouse` lists its
rows in the order of the first or in the opposite one. `transform_bad_rows`
has several versions of one row and beside it the row without OBJECTID, whose other
columns do not matter. In `pipeline` two OBJECTIDs make an output of two part files,
which is what a loader can meet half replaced; an output with two rows of an
OBJECTID, a torn directory and a retried load all occur there, with two dates, so
that rows closed before they were created do too. In
`pipeline_progress` one row with two dates and an edit gives every malformed and
corrected version, and the three ingestion runs outnumber the fault. The batches of
`dashboard` open, close and reopen a request and bring in one without an agency and
an internal one, the cases the queries tell apart; a `MapLimit` of one is reached.
Every counter has its bound in a guard and its name in the module (`MaxRows`, `MaxTime`,
`MaxFaults`, `MaxParts`, `MaxEdits`, `MaxCrashes`, ...). Deadlock is checked
only in `dashboard`, which never stops; every other run does when its processes have
ended and the source has used up its bounds.

## 5. Fairness

`Ingest!FairSpec`: a process that runs takes its next step (including a query
that fails because the host is gone), and the scheduler starts every run. Nothing
is assumed of the source, and no fault has to happen. `ingest_progress` adds
`OneAtATime`: the runs are attempts of one DAG task, which Airflow starts one
after the other. `EventualDelivery` is claimed only while attempts outnumber
faults and host moves, since the DAG gives up after its retries.
`Warehouse!FairSpec` is weak fairness of a started loader's own steps, Postgres's
deadlock timeout among them. `Pipeline!FairPipeline` is weak fairness of the steps
of a DAG run: the scheduler launches what may be launched and a process takes its
next step; no task has to fail and the source need not change.
`EventuallyInWarehouse` is claimed for DAG runs one after the other that outnumber
the faults, and excepts a malformed row, which the gate stops. All need no more than weak fairness: what another
process does can delay a step but cannot disable it for ever.

## 6. Proofs

TLAPS checks these for all values of the constants allowed by the modules'
assumptions (`FeatureLayerAssumption`, `IngestAssumption`, `TransformAssumption`,
`WarehouseAssumption`, `PipelineAssumption`, `DashboardAssumption`): any number of
runs, jobs, loaders, DAG runs and sessions, any rows, pages, retries and faults.
`PROJECT.json` lists each under `theorems`.

| Module | Theorems | Invariant they rest on | Hypothesis |
|---|---|---|---|
| `DeliveryProofs` | `TypeCorrect` | `TypeOK` | |
| | `AtLeastOnceHolds`, `CountReconcilesHolds`, `IngestImplementsDelivery` | `DeliveryInv` | `OrderlyFeed` |
| `AuditProofs` | `ManifestFaithfulHolds`, `WatermarkTraceableHolds`, `DoneMeansRecordedHolds`, `RawAppendOnlyHolds` | `AuditInv` | |
| | `DryRunWritesNothingHolds` | `TypeOK`, `AuditInv` | |
| | `NoFalseAlarmHolds` | `LoopInv` | |
| | `FailsForAReasonHolds` | `ReasonInv` | `BucketReady` |
| | `FailedWindowRereadHolds` | `DeliveryInv`, `MarkInv` | `OrderlyFeed`, `StoredFirst` |
| `ContractProofs` | `ContractHolds` | `ContractInv` | `StampOrder = "next"` |
| `TransformProofs` | `GateHoldsAlways` | `GateInv` | |
| | `LastGoodOutputKeptAlways` | `OutputInv` | |
| | `OutputCompleteHolds`, `DoneMeansPublishedHolds`, `TransformFailsForAReason` | `JobInv` | |
| `WarehouseProofs` | `WarehouseTypeCorrect`, `KeysResolveHolds`, `OneOutputOneOrderHolds`, `WarehouseImplementsTable` | `WarehouseInv` | |
| | `LastCommitWinsHolds`, `ReloadChangesNothingHolds` | `WarehouseInv` | `OneRowEach` |
| | `FactsAddUpHolds` | `WarehouseInv` | `SteadyCases` |
| `PipelineProofs` | `PipelineTypeCorrect`, `GreenLoadCoversHolds`, `ReportIsFinalHolds`, `OnlyGatedRowsLoadedHolds`, `PipelineGateHolds`, `PipelineOutputComplete`, `PipelinePublishes` | `PipelineInv` | |
| | `PipelineKeepsLastGood` | `PipelineInv`, `OutputInv` | |
| `DashboardProofs` | `DashTypeCorrect`, `PageIsLiveHolds`, `VolumeCoversTotalHolds`, `PageHasNoGapHolds` | `DashInv` | |
| | `QuietPageAgreesHolds` | `DashInv` | `GatedBatches` |

### Hypotheses

Each names what the property needs of its surroundings; the code does not check it.

- `OrderlyFeed`: stamps come in order up to ties within a second, rows do not age
  out during the runs, and a count is there. It is what AD-005 takes for granted of
  the source; `ingest_tied_stamps` shows the first part to be needed and
  `ingest_ageing_out` the second.
- `BucketReady`: the bucket is there, or is to be created and the runs are attempts
  of one task or creating it twice does no harm. Otherwise two first runs race
  (`ensure_bucket` in section 7). A bucket that is neither there nor to be created
  fails a run too.
- `StoredFirst`: the bucket and a watermark were there before the first run, and a
  full refresh has nothing below that watermark. From a cold start the window moves
  with the clock and `FailedWindowReread` fails (section 7).
- `OneRowEach`: an output has one row per OBJECTID, which is `OutputComplete`, the
  directory being one job's alone. For other outputs `Pipeline` and `Table` say what
  happens (the first row inserts, the last one refreshes).
- `SteadyCases`: an OBJECTID keeps its creation date, and no case is closed before it
  was created (the gate's `check_closed_before_created`). AD-011 knows that the
  source may reassign OBJECTIDs; the fact then keeps the creation date of one case
  and takes the closing date and hours of another, and they do not add up.
- `GatedBatches`: batches passed the gate. A row closed before it was created could
  have hours -1, the number that stands for none in the model.

### Arguments

`AtLeastOnce` does not survive a step of
`Advance` by itself: nothing says that the mark a run is about to store is any good.
`DeliveryInv` says of every run what it has read: the rows it counted are the
first ones, by OBJECTID, of what its predicate selects now; what it has read is a
prefix of those, as long as its offset; the next page is the next piece. So when
the totals reach the count, everything counted has been read, and what was not
counted was published later with a stamp the new mark does not exclude. It also
says that every mark in play, the stored one and each run's `since`, is
*credible*: it leaves nothing behind and is the stamp of a row, so a later
publication cannot fall behind it. The proof has one step per action; the lemmas
`PageExtendsPrefix` (a page extends the prefix read), `OkMeansCountedSeen`,
`HighIsCredible` and the ones on `Publish` carry the argument. That keys not yet
used are free (`FreshKeys`) is what keeps landed rows landed. The refinement maps
`LandPage` to a delivery, `Advance` to a move of the mark, a step of the source to
the same step, and every other step to a stutter; that `Advance` may move the mark
is `DeliveryInv` again.

`AuditInv` speaks of any feed, so it cannot use prefixes: when a row ages out, those
after it move down and the next page skips one. What is left is that what was read
and is still served ranks below the offset (`BelowOffset`), which is enough for no
row to be read twice, so the tally is the number of rows landed and the manifest
can be trusted. `LoopInv` adds the prefixes back for as long as nothing went wrong.

`GateHolds` does not speak of files a job is about to write; `GateInv` adds that
each planned or written file belongs to a job past the gate and to its batch, which
no later step changes. `LastGoodOutputKept` rests on `OutputInv`: files have rows, a
job past its scan has files, and dedup keeps a row of every OBJECTID
(`DedupKeepsSome`), so the batch a job replaces the directory with is never empty.
`OutputComplete` goes the whole way through a job, and `JobInv` has a part for each
stage: a scan has every file of its start up to its marker, and after its last
answer all of them (`ScanOutcome`); dedup makes of them one row per OBJECTID, none
older in its creation date (`DedupIsCleanOf`); directory and files still to move
are the batch; the processed zone has what is not left to upload. What other jobs do
concerns a job only by taking the directory away from it (`OthersUntouched`).

`WarehouseInv` covers what is not committed: dimension rows of all open
transactions together are one to one (the unique index makes a second writer wait),
no two transactions have written one fact, and what one has written is the
committed fact, or the first row of its OBJECTID, with the progress of the last row
handled. At a commit this becomes the statement about the table; a rollback drops
it. The refinement follows: `Commit` is one `Load` of the batch seen through the
join, every other step changes nothing a reader sees. `OneOutputOneOrder` is about
order: of one output, with no dimension row of its own yet, each loader in a cycle
would wait for a fact that another one further on in the output has written, so none
of them could be the furthest. It needs of an output only that its rows are finitely
many with a place each (`WarehouseAssumption`), whatever order another output has.

`PipelineInv` is proved on top of `TransformProofs`: each step of the pipeline is a
step of the transform jobs or kills one (`PipelineStepIsJobStep`), so what is proved
of them carries over as it stands. Its own part, `PipeInv`, is a relay: the
ingestion task's success says that all is landed, the transform's that its job saw
that and is done, the loader's that it holds or has loaded all of that job's files.
`ChainInv` links the relay's runners by the DAG's `>>`.

`DashInv` says that a page under construction shows what the table had when each
query was asked and that the table only grows. `LoadKeepsFacts` is the core: a load
removes no fact and moves none between internal and public, so totals never fall. Of a page
that crashed it says the same of what stayed on display (`FailureKeeps`).

`ingest_overlap` and `warehouse` check `DeliveryInv` and `WarehouseInv` with TLC. The
other invariants are in the modules of the components and hold, as `INVARIANT` lines
added to the cfg, of `ingest_degraded` (`AuditInv`, `LoopInv`), `ingest_progress`
(`ReasonInv`), `ingest_overlap` (`MarkInv`), `transform_bad_rows` (`JobInv`),
`pipeline` (`PipeInv`) and `dashboard` (`DashInv`, `GatedBatches`); no run keeps them,
since the properties they are for are checked and they are proved.

### Model-checked only

`EveryRunEnds`, `EventualDelivery`, `EveryLoadEnds`, `EveryDagRunEnds` and
`EventuallyInWarehouse` are liveness under fairness, which is out of the prover's
reach, as are `ENABLED`, induction over data and recursive operators; no module here
uses the last. The four runs of section 7 that end in a counterexample have no
theorem for what they refute. That a deadlock is always resolved is part of `EveryLoadEnds`.

## 7. Where the code and its documents differ

Each has a run that TLC ends with a counterexample, and an entry under
`findings` in `PROJECT.json` with the lines quoted.

- `ingest_tied_stamps`: with creation dates that tie, as the recorded output has
  them, a row published later with the watermark's own stamp is never fetched.
- `ingest_ageing_out`: while a run pages, a row it has read ages out, those after it
  move down by one, and the next page skips one. Another row arrives, the totals
  agree, the run reports `ok` and the watermark passes the skipped row; the sort on
  OBJECTID does not help.
- `transform_stale`: versions of a row tie in the dedup order; the kept one need
  not be the latest.
- `dag_green`: the gate refuses a batch, the load is skipped, `notify_completion`
  succeeds, and the DAG run is green: it is the only leaf and runs on `all_done`.

More of the code's behaviour is visible in the modules without a run of its own,
some of it against a comment, some against nothing that is written down. Without a
stored watermark the window moves with the clock, so after a first run that died the
next one does not re-read "the same window" (`run_ingest.py:120-121`): in
`ingest_overlap` with `OneAtATime = TRUE`, incremental runs and
`InitialWatermark <- None`, `FailedWindowReread` fails. A count
answer without a count reads as 0 and switches reconciliation off for that run, which
loses rows if an empty page comes as well (`CountMissing`, `FetchEmpty`). A backlog
beyond `max_pages` pages is read short by every run and the watermark stays
(`MaxPages`). An OBJECTID that comes back as another case keeps the creation date of
the first and takes the closing date and hours of the second (`Merged`), so the
fact's hours do not add up; AD-011 names the reassignment and the dedup it breaks, not
the merge. A page opened after Postgres was restarted crashes, and
so does every later one until Streamlit is restarted, because the cached
connection is never tried (`QueryOnDead`); `app.py:55` says "a connection failure
here is a user-facing message, not a crash", which holds until the first connection
only. Before the first load has created the tables a page crashes too
(`QueryFails`), although `app.py:113` has a message for "No data loaded yet".
`check_schema` looks for columns that `transform.py` has just created from its own
schema, so it cannot detect the drift its comment promises (`quality_checks.py:57-60`);
a dropped OBJECTID shows as nulls, which the next check refuses (`WellFormed`).
`ensure_bucket` ("Idempotent bucket creation", `landing.py:44`) is two calls: two
first runs that both find no bucket both create it, and outside us-east-1 the
second one fails (`HeadBucket`, `CreateBucket`; `FailsForAReason` with two
overlapping runs shows it). The transform lists the raw prefix and reads no
manifest, so it takes the pages of a run that is still landing, which
`landing.py:101-103` says the manifest is there to prevent (`Land` beside `Scan`).
Part file names are new in every job and `upload_parquet` deletes nothing, so
after two jobs the `processed/` zone holds each OBJECTID twice (`UploadPart`).

That an update of a row that was landed before is not fetched again is a
documented limitation (`src/README.md`, "Incremental extraction") and not listed.

## 8. Not modelled

- What surrounds a task: a process of an attempt that Airflow has given up on and
  that runs on (overlapping runs and loaders cover it one by one), retry delays,
  clearing a task by hand.
- In `Pipeline`: requests that appear after the start (`Ingest` has them), loads
  statement by statement (`Warehouse` has them).
- Two loaders of an empty database: `CREATE TABLE IF NOT EXISTS` may fail in one of
  them, which has written nothing then.
- The medians, rates and chart layout of a page, and which groups and points its
  `LIMIT`s keep.
- The formatting of requests, manifests and logs; `--describe`; the preview CSV
  and the summary of the transform; configuration parsing. None of it is read by
  another part.
- String trimming, the patterns behind the internal-mail and coordinate flags, and
  the two warning-level checks: they change no state and stop nothing.
- The NaN/NaT clean-up of single values and the calendar arithmetic of `dim_date`:
  pure functions with unit tests; `Dates` is planned for the second.
- Terraform, container files and CI: declarations; the bucket they create is the
  initial state of `Landing`.
- `scripts/ls_raw.py` lists objects and changes nothing.
