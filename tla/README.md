# kglite-datasets: a TLA+ verification project

Models, model-checking runs and machine-checked proofs for the stateful core of
`kglite-datasets`: the loaders that fetch Sodir, Wikidata and SEC data, keep it in
a working directory, and build graphs from it.

## 1. The system

| Component | Source | State | Operations | Hard behaviour |
|---|---|---|---|---|
| HTTP client | `http.rs` | stamp behind a mutex, shared by all clones | `fetch_bytes`, `fetch_json`, `fetch_to_file` | threads queue at a lock held across a sleep; retries; kills inside a write |
| Sodir refresh | `sodir/orchestrator.rs`, `index.rs`, `fetch.rs` | `csv/*.csv`, `sodir_index.json` | classify, probe, fetch, save, stamp the sweep | worker pool with a shared cursor and a channel; kills; save errors; two cooldowns |
| Sodir preprocessing | `sodir/preprocess.rs`, `temporal.rs` | the same CSVs, rewritten in place; copies; a reject log | four foreign-key joins, valid-time copies | a parent refetched while children stay cached; kills inside a rewrite |
| Sodir derived tables | `sodir/derived/` | `_derived_*.csv` | status periods, reserves chains, windows, formations, links | ties, equal and missing dates; two modules that must agree |
| Sodir enhancement | `sodir/enhance.rs`, `ages.rs`, `play_examples.rs`, `volume.rs` | three tables | assign discoveries to plays; pick volumes that may be summed | who is left over; who reports for whom |
| Sodir `open` | `sodir/wrapper.py`, `py/src/sodir.rs` | `graph/`, `sodir_source.json`, the complement blueprint | short-circuit, refresh, rebuild | a graph's age and digest against the call; torn complement, torn graph |
| Wikidata dump | `wikidata/cache.rs`, `client.rs` | `latest-truthy.nt.bz2`, `.part` | HEAD, ranged GET, rename, discard | cut, killed and resumed downloads; versions published meanwhile |
| Wikidata `open` | `wikidata.py`, `freshness.rs`, `_cache.py`, `disk_graph.rs` | the graph directory, `wikidata_source.json`, `_PROCESS_CACHE` | decide, load, rebuild, `cache_clear` | stale process cache; partial `rmtree`; half-finished rebuilds |
| SEC fetch | `sec/fetch.rs`, `client.rs`, `layout.rs`, `tickers.rs`, `py/src/sec.rs` | `raw/` | per-quarter, per-company and per-filing fetches | what is immutable and what is re-fetched; failures inside a batch |
| SEC planning | `sec/slicing.rs`, `buckets.rs`, `planning.rs`, `dispatch.rs` | none | which filings to fetch and parse | boundaries of slices and windows |
| SEC extract | `sec/extract/*` | `processed/*.csv`, the filing index | early return, sinks, identity pass, form extractors | a killed run taken for a complete one; documents of other scopes |
| SEC `open` | `sec/wrapper.py` | the graph caches by mode | resolve, load, fetch, extract, build | plans made from an index of another call |
| SEC parsers | `sec/parsers/*` | none | text and XML to records | none a model checker adds to |
| Bindings | `crates/kglite-datasets-py` | none | batches, conversions, progress, Ctrl-C | a batch that goes on after a failure |

How they interact. The Python wrappers call the Rust core synchronously. The core
reads and writes the working directory, and talks to three servers through clones
of one `DatasetClient` per loader. Only the Sodir refresh runs threads of its own.
Everything that survives the process is a file; every file is replaced either by
writing a sibling and renaming it, or in place. The differences between these two
are where most of the properties are.

What makes each part correct:

* HTTP client: request starts are paced across clones, retries are bounded and
  spaced, a cache path never holds a half-written body, every call returns.
* Sodir refresh: each stem is handled once and reported once; what is reported is
  on disk; the index never claims more than the CSVs show; the cooldowns bound
  their age; a failure or a kill at any point loses only work in flight; it ends.
* Sodir tables: when a graph is built, every table it reads is what its sources give
  now, and tables computed apart from each other agree.
* Sodir `open`: the graph is that of the blueprint asked for, and from the cache only
  within the cooldown.
* Wikidata: an incomplete dump is never visible; a graph is not stamped ahead of the
  server; the cached instance is that of the committed graph; the download is
  spaced; a working graph survives a failed refresh; a call waits for nothing but an
  answer of the server.
* SEC: an extract is complete when it is built from; facts point at rows written with
  them; a repeated call finds everything it asks for; every call returns.

## 2. Modules

The order of the tables below is also the order in which the modules extend each
other. `MC*` modules give the constants of the runs; `*_proofs` hold the proofs.

### HttpClient

Threads with a clone each, making `Bytes` calls (`fetch_bytes`, `fetch_json`) or file
calls (`fetch_to_file` with either mode), each thread for a file of its own as in
all loaders. The mutex is `lock`, the `Instant` in it is `since`, the time that has
passed since (up to `Gap`: longer times behave alike). Sleeps are timers `wait` that
a common `Tick` runs down, so the state space is finite without a bound on time; a
thread whose sleep is over may be scheduled at any later time. A client without
a rate (the Wikidata one) does not use `fetch_bytes`, hence `Gap > 0`.

### SodirRefresh

| Code | Model |
|---|---|
| `sodir_index.json` | `file`: `None`, `Torn`, or an index |
| `index: &mut SodirIndex`, `RefreshReport`, `sweep_due`, `work` | `index`, `report`, `sweepDue`, `work` |
| `AtomicUsize`, `AtomicBool`, `mpsc` | `next`, `abort`, `channel` |
| worker closure | `CheckAbort`, `Claim`, `Probe`, `FetchOk`, `FetchFails`, `Send` |
| pass 1 | `StartRun` (no step of another actor can interleave: no thread runs yet) |
| receive loop | `Receive`, then `SaveTruncate`/`FlushWrite` or `FlushFails` |
| end of `fetch_all_with_enhancement` | `PoolDrained`, `SaveTruncate`, `FinishWrite`, `FinishFails` |
| `return Err` inside the scope | `FlushFails` (drops the receiver), `ScopeJoined` |

A CSV is its row count and the day it was renamed into place; the classification,
the probe and the cooldowns see nothing else. A CSV of less than 5 bytes counts as
missing. `fs::write` of the index is two steps, so a kill can fall between them; the
CSV swap is one, because it is a rename and its temporary file is never read.
`Probe` and `FetchOk` have every answer the service can give, among them the
bodies without `count` or without `features` that the code reads as 0 or as the end.
Days pass between runs only. The environment can kill the process, fail a save,
edit the remote, supply or delete files: `MaxMoves` bounds these together.

### SodirPromise and SodirRefines

`SodirPromise` is what a caller of `refresh_csvs` may rely on, without pool, queue,
cursor, index or index file: a set of pending datasets, each answered once with a
bucket that is true of its CSV (`fetched`: renamed into place today; `unchanged` and
`cached`: within the cooldown), CSVs that change only while their dataset is pending,
and a report that is complete when nothing is pending. `SodirRefines` maps
`SodirRefresh` to it: `phase` to three stages (a call waiting for its threads after a
failed save is still running, and its workers may still rename a CSV), the needed
catalog stems that are in no bucket to `pending`, the clock, the CSVs and the report to
themselves. `Receive` is the promise's `Answer`, a rename its `Replace`, `PoolDrained`
its `Complete`; claims, probes, sends and saves are hidden.

### Lists, SodirTables, SodirDerived, SodirEnrich, SodirEnhance, SodirVolume

Functions of a directory of tables, one module per part of the code. A table is a set of
columns and a sequence of rows; a row maps the columns that matter to cells.

| Module | Code | Content |
|---|---|---|
| `Lists` | Rust's `sort_by`, `filter`, `extend`, `flat_map` | rows in order, filtered, listed, one table after another, in forms TLC can evaluate on small tables and TLAPS can reason about for all; used by the `Sec*` modules too |
| `SodirTables` | `preprocess.rs`, `temporal.rs` | the four joins; the valid-time copies with the rejected rows |
| `SodirDerived` | `derived/status.rs`, `reserves.rs`, `anchors.rs`, `mod.rs` | status periods, reserves chains, windows and snapshots of the anchor tables |
| `SodirEnrich` | `derived/enrich.rs`, `derived/mod.rs` | structural elements, what encloses what, formations; the registry of outputs in its order |
| `SodirEnhance` | `enhance.rs`, `ages.rs`, `play_examples.rs` | links of discoveries to plays by example, containment, age and distance; candidates |
| `SodirVolume` | `volume.rs` | snapshots of reserves, and which volume of a discovery or field is used |

A date is a day number of a model year of `YearDays` days, a geometry the set of grid
cells it covers, a well a point on a line, an age a set of the code's nineteen atoms. The
text of a `fldVersion` is its place in the order of texts, and `NumberOf` gives the number
a text is parsed as, if it is one: the chain ranks by date, number and text, the snapshot by
date and number and then by place in the file, as their modules do.
Columns that no property and no other table tells apart are left out. Everything that
orders rows (sorting, ties, first row wins) is kept, because outputs are sequences and
are compared as such.

### SodirOpen

The life of a workdir: `open`, `fetch_all` and `remove_complement` of the wrapper over the
tables above.

| Code | Model |
|---|---|
| `csv/`, `graph/` with `CURRENT` and `sodir_source.json`, `blueprint_complement.json` | `dir`, `graph` (`body`, `torn`, `day`, `meta`), `saved` |
| arguments, `merged_json` | `call`, `merged` (`deep_merge` of the packaged or custom blueprint with the complement) |
| the short-circuit of `open` | `CacheValid`, `ServeCached`, `CacheMiss` |
| `apply_with_derived` | `Plan`: the list of writes in the code's order; `Write` performs one |
| `shutil.rmtree`, `from_blueprint`, the write of the metadata | `CleanGraph`, `SaveGraph`, `WriteMeta` |
| the answer of a call | `served` |

Each table is one write. A kill after an in-place write may leave it without its last
rows (`TornWrites`); the enhancement's tables are renamed into place and cannot be torn.
The refresh is one step here, with the tables it brings in chosen by the world; its own
steps are `SodirRefresh`. A `world` bounds a behaviour: the versions of the service's
tables, the blueprints, the calls, what a refresh brings in, what the user deletes, and
the numbers (`budget`) of calls, kills and edits.

### WikidataDump

One calling thread that runs `open`, `open(force_rebuild=True)` or `fetch_truthy`,
one after the other, against a server whose version can change at any tick. `open` in
memory mode takes the steps of `fetch_truthy` and then only reads the dump. A file
is the sequence of versions its pieces came from plus its mtime, which is enough
to see a dump spliced from two versions, and enough for every comparison the code
makes. The graph directory is the content it was built from, the mtime of its
commit marker, whether an `rmtree` has begun on it, and its `wikidata_source.json`
(with a JSON null as `None`;
`Embedded` reads it as the code does, so that the null hides `source_mtime_iso` and the
fallback of `freshness.rs:111` is never taken). `Rival` is a rebuild by another process between two
calls. The process cache is kept for one key: graphs of other entity limits have
directories, markers and cache entries of their own.

### SecScope, SecForms, SecOpen

| Code | Model |
|---|---|
| `SliceSpec`, form buckets, dispatch plan, size prediction | `SecScope`: `SliceMatches`, `resolve_fetch_buckets`, `prepare_dispatch_plan`, `_dispatch_per_filing_fetches`, `pick_storage_mode` |
| `extract/forms/*`, `provenance.rs`, `util.rs` walks | `SecForms`: the rows each extractor writes for the documents on disk, as table, node id and reference columns |
| `company_tickers.json`, `raw/`, `processed/`, the graph caches | `disk`, a record of `tickers`, `quarters`, `zip`, `raw`, `dirs`, `facts`, `index`, `csvs`, `graph` |
| the phases of `SEC.open` | `pc`: `resolve`, `cache`, `quarters`, `submissions`, `tickers`, `dispatch`, `fetch`, `extract`, `sinks`, `identity`, `forms`, `build` |
| the tasks of `run_batch` | `todo`; `missed` when one of them failed |
| the index the downloads were planned from | `basis` (history) |

`SecOpen` has one action per phase. A phase that makes requests may fail at each of them
and leaves what the code leaves: the quarters before the failed one, the directory of a
filing without its document. A kill leaves the in-place files torn (`company_tickers.json`,
the filing index, a graph file) and the tables without their end. What a parser finds in a
document is data (`Docs`), and so is what EDGAR has published: the submissions on disk are the
published ones up to the day of the bulk archive, and each row of the filing index is a position
in them (`Emitted`). `ArchiveAssumption` names what the code takes for granted of EDGAR.

## 3. Runs

Every property has a mutant: a definition of the module changed the way a plausible
bug would (the `\* Variant` operators), with which TLC finds it violated.

| Run | Instance | Shows |
|---|---|---|
| `sodir_pool` | 2 workers, 2 catalog stems, one day, 1 move | `ExclusiveClaim`, `OneBucketEach`, `RecordedRowsMatch`, `PoolInv` under every interleaving; `RefreshEnds` also after a failed save; `PromiseKept` |
| `sodir_sessions` | 1 worker, 1 catalog and 1 user stem, 4 days, 2 moves | `ProgressSaved`, `EntryBacked`, `HardRefreshBound`, `SweepMarkedLast`, `FailedFetchKeepsCsv`, `PromiseKept` over sequences of runs, kills, edits and deletions |
| `sodir_open` | the worlds below; `YearDays = 4`, `Cooldown = 2` | `OutputsCurrent` and `ServesItsBlueprint` after kills, deletions, upgrades and calls with other blueprints; `HistoryTiled`, `SnapshotInForce`, `FactsWithinWindow`, `LinksDisjoint`, `VolumesDisjoint` on the tables themselves; `CallReturns` |
| `http_client` | 2 clones, 2 calls each, gap 2, 2 retries, backoff 2 capped at 3 | spacing of stamps and retries, request budget, whole cache files, return of every call |
| `wikidata_dump` | 2 pieces, cooldown 2, clock to 4 | `WholeDump`, `StampNotAhead`, `CacheCurrent`, `DownloadsSpaced`, `RefreshKeepsGraph`, `CallReturns` |
| `sec_open` | 3 calls of 4 kinds, 1 fault, 2 days, 3 filers, 12 filings listed | `FactsAnchored`, `BuiltFresh`, `RepeatCompletes`, `CallReturns` over sequences of calls with different scopes, failed requests, kills and new filings |

Bounds.

* Two workers and two stems are the smallest pool in which a claim can race, a
  worker can exit while another works, and a save can fail while another is blocked;
  the proofs cover all larger ones. `sodir_sessions` has one worker so that it can
  have days: the two cooldowns (1 and 2 days) expire separately and together within
  4 days, and two moves allow a kill after an edit or a deletion after a kill.
* In `http_client` the second call of a thread meets the file, stamp and backoff state the
  first one left, and the second retry reaches the cap. In `wikidata_dump` a download
  can be cut in its middle, and the clock passes the cooldown twice.
* `sodir_open` starts in one of many worlds. `WideLife` has two calls of any of seven
  kinds (disk, forced, with a complement, without, a custom blueprint, in memory,
  `fetch_all`), one kill and one edit between; `LongLife` has three calls, for a graph, one cut short
  over it, and the first again. The other worlds make one undisturbed call on a corpus that
  enumerates the cases of one part of the code: `StatusServer` missing, sentinel, equal and
  swapped dates of wells, facilities and pipelines under each published status; `FieldServer` triples of dated
  and undated reserves versions with ties (one version twice, two spellings of one number, texts that are
  no number), and history spans that are inverted or lack an end;
  `PlayServer` wells of several ages inside, between and away from plays;
  `VolumeServer` every way in which three discoveries of one field or none include each other and
  report; `FullServer` all outputs at once. Three rows are what a tie, a neighbour and a
  bystander need.
* `SnapshotInForce` asks for the same row only where the newest versions of a field are told apart by
  date and number; of two texts with one number the chain takes the greater text and the snapshot the
  first row. Sodir publishes the year as the version, so no text of the repository is contradicted; the
  runs have such fields, and the property says that the date and the number agree there too.
* In `sec_open` the filings have at least one of every bucket, two that EDGAR lacks (an 8-K and an
  8-K/A), one listed under two CIKs, and one published on the second day, which is in the next year. One seed of
  the directory has documents no call of `open` fetches. Three calls
  are needed for an index, a plan from it, and a repetition. `RepeatCompletes` excepts by name what a
  filing's nested document says (`Nested`; here the Form 144): `sec_form144` shows that it is lost.

Deadlock is checked in every run except the five of `SodirOpen` and `SecOpen`: there the
bounded numbers of calls, kills and edits run out, and a behaviour ends in an idle state.
`CallReturns` shows that it ends nowhere else.

Violations: what the documentation says and the code does not do.

| Run | Property | What happens |
|---|---|---|
| `sodir_torn_index` | `IndexLoadable` | `index::save` is a plain `fs::write`; a kill inside it leaves an index every later run fails to parse, against "a Ctrl-C never loses progress" |
| `sodir_probe_cadence` | `ProbeCadence` | the sweep is stamped for the workdir although a probe failed or a dataset belongs to another blueprint; that dataset stays unprobed past `index_cooldown_days` |
| `sodir_licence_ids` | `LicencesJoined` | `ptl_id` is a row number; a licence table fetched anew is numbered anew, and cached children keep the old numbers, so a message belongs to another licence |
| `wikidata_match` | `LocalMatchesRemote` | the local mtime is the time of the last write, so a version published during the download of an older one "matches" |
| `sec_changed_slice` | `NewSliceTakesEffect` | `fetch(force_rebuild=True)` for other companies plans its downloads from the index of the first call and fetches nothing |
| `sec_form144` | `NoticesExtracted` | the generic fetcher saves a Form 144 under the `xsl...` directory its `primaryDocument` names, one level below the files the extractors walk, so `planned_sale.csv` has no row of it |

Fairness. `SodirRefresh`: weak fairness of the calling thread and of each worker. The
OS schedules threads, `recv` and `join` wake up when they can, and a request ends (it
has a deadline and a bounded number of attempts). No fairness for calls, errors,
kills or the calendar. `HttpClient`: weak fairness of time and of each thread; the
mutex is not assumed fair, and the calls of the model are finite, as the job lists of
the loaders are (with an endless stream of calls the mutex could starve a thread).
`WikidataDump`: weak fairness of the call in progress, a single thread, except where it waits
for the server (`Waiting`). The Wikidata client has no read or overall deadline, since a download
takes hours, so a silent server may hold up a HEAD or a body for ever, and no call is sure to
return. `CallReturns` says that nothing else can hold it up: under `ServerAnswers`, an
assumption about the server and none of the specification, every call returns.
`SodirOpen`, `SecOpen`: weak fairness of the call in progress, a single
thread; their clients have a deadline for a whole request, and its expiry is a failure, which is
one of the outcomes. `SodirOpen` and `SecOpen` write it with `pc # "idle"` for the enabledness of `Step`,
which is the same (every other location has a step) and spares TLC the tables and the disk.

## 4. Proofs

Checked by TLAPS for all values of the constants, under the named assumptions of the
modules, which TLC evaluates on the instances of the runs:

* `SodirRefresh`, `HttpClient`, `WikidataDump`: finitely many stems with the catalog among them,
  at least one worker, natural numbers, and sentinels that are not values.
* `SodirOpen`: `WorldsAssumption` (the service's tables are well formed: they have their key
  columns, hold numbers in the columns of ids, days and version texts, and none has the name of a file
  the loader writes itself; a call's complement is one that exists), `CopyNames` (different
  tables have valid-time copies of different names, as `<stem>_valid_at` has) and
  `NumberOfAssumption` (version texts and the numbers they spell are counted from 1). Which tables,
  rows, blueprints, complements, kills and edits there are is arbitrary.
* `SecOpen`: `ArchiveAssumption` (a filing is listed under the filer whose submissions list it, has
  one form and has a document list; EDGAR has nothing before 1993; an issuer a document names is
  a filer; what a directory holds at the start comes from the archive).

**SodirRefresh_proofs.** `TypeOK` is inductive by itself. `ExclusiveClaim` is not: that two
workers run different stems follows from their holding different positions of a list
without repetition, and that neither stem is queued or reported from where every
stem of the list is. `PoolInv` says all of it: `ControlInv` (a busy worker holds a
claimed position, nobody else holds it, it carries the outcome of its own stem, a worker
exits only when the list is used up, the pool is quiet outside a run), `PlaceInv` (an
unclaimed stem is nowhere; a queued or reported one is nowhere else) and `CoverInv`
(until an abort, every claimed stem is in hand, queued or reported). The proofs go
action by action, one lemma for each of the calling thread, the workers and the
environment: `PoolCorrect`, from which `TypeCorrect`, `ClaimsExclusive` and
`BucketsExact` follow. `FreshInv`, inductive relative to `PoolInv`, adds what is true of
the files: saved and live entries do not claim a later fetch than the CSV, what is
probed or skipped is within its cooldown, and answers in flight are true
(`FreshCorrect`), from which `EntriesNeverAhead` and `HardRefresh` follow.

The last sections of the module say what a kill can cost. `SweepLast`: `SweepMarkedLast` becomes
inductive with the fact that no sweep is in progress between calls, when days pass.
`ProgressKept`: at the channel the file equals the index, unless nothing is complete
(`SavedInv`). `CountsMatch`: the counts of the report, of the queue and of the answers in
the workers' hands are those of the CSVs (`CountInv`); a rename cannot disturb them, because
`PlaceInv` and `DistinctJobs` keep every other holder of the stem away.

**SodirRefines_proofs.** `Refinement` shows `Spec => Promise!Spec` for `SodirRefresh`, one
simulation lemma per action group: `StartRunMaps` (what pass 1 skips is fresh, from
`FreshInv`), `ReceiveMaps` (a message is true, from `FreshInv`, and its stem unanswered,
from `PoolInv`), `WorkerMaps` (a rename hits a pending stem, from `PoolInv` and
`JobsNeeded`, which holds also while an aborted run waits for its threads, where
`CoverInv` says nothing), `PoolDrainedMaps` (nothing is pending, from `BucketsExact`).
`FailedFetchKept` follows from the promise: only a pending CSV is replaced.

**Lists_proofs, SodirTables_proofs.** What the operators of the tables return, for tables of any
length: that `InOrder`, `Select` and `AsRows` list exactly their elements, each once and in order,
that `FlatRows` holds the rows of its tables and no others, and that each preprocessing and
enhancement function makes a well-formed table with certain columns and reads certain tables
only. Recursive functions and folds are reasoned about by a least counterexample (the
smallest prefix or set at which a statement fails), which needs no induction over an operator.

**SodirOpen_proofs.** `BlueprintServed` (`ServesItsBlueprint`) needs to know that a stamp that
is read belongs to the graph beside it. `GraphInv` says so for every graph no `rmtree` has
touched (`StampInv`), and that between the `rmtree` and the stamp the directory holds the
build of this call (`BuildInv`). `WorkdirInv` adds the types (`TypeInv`), that every table in
`csv/` is well formed, also after a kill (`TablesInv`), and that the writes of the call that are done
still hold (`WritesInv`). The last is the core: every write has a rank in the order of `Plan`, what is
left to do is a suffix of that order, and the table a write has made is still what its
sources give, because each write replaces one file that no write of a lower rank made or read.
The invariant was checked with TLC on small worlds before it was proved. At the build
nothing is left to do, so `TablesCurrent` (`OutputsCurrent`) follows: every table the graph is built from
is what its sources give now, whatever was killed, deleted or upgraded before. The properties
of the contents follow from it and from lemmas about one function each:
`SnapshotIsInForce` (the last version in force is of the highest rank of the snapshot, all rows of that
rank have one date and number, and with one text they have one version; for any dates, texts and
numbers, `NumberOfAssumption` says only that numbers and texts are counted from 1),
`FactsInWindow`, `AssignedNeverCandidate`, `VolumesNeverOverlap`; `HistoriesTiled` (`HistoryTiled`:
the periods of one well are a block of the table, sorted by the day and then by the column of their
events); and `WrapperTypes` from the invariant.

**HttpClient_proofs.** The invariant adds to the types that whoever sleeps in the gate holds the
lock and that its remaining sleep makes up the gap (`GateInv`), that the requests sent
follow the loop variable (`BudgetInv`), and that only a complete temporary file is
about to be renamed (`SwapInv`). It gives `GateSpaced`, `BudgetKept` and
`CacheNeverTorn`.

**WikidataDump_proofs.** `IInv` joins to `TypeOK` and `WholeDump` what each location of a call
knows of the files (`StepInv`: no dump while one is downloaded, one from there to the stamp),
that no answer of the server is ahead of it (`AnswerInv`), that the dump in place is the last
one downloaded and was dropped only when it was old (`SpacingInv`), and that a cached instance
and a graph of one mtime have one content, also after the save that follows (`CacheInv`). `DumpCorrect` proves it inductive, action by action; the
invariants `DumpsWhole`, `StampsBehind`, `CacheIsCurrent` and the action properties
`DownloadSpacing` and `GraphKept` follow.

**SecOpen_proofs.** `ForcedBuildIsFresh` (`BuiltFresh`): a forced call comes to the build only
through the extraction of this call, and no step between the two touches what the extraction
read (`BuildInv`). `FactsStayAnchored` (`FactsAnchored`): what is on disk comes from the archive
and what the tables hold comes from what is on disk (`ScopeInv`); one lemma for each form
extractor says which rows its references point at, and the identity pass, which writes companies for
everything on disk, makes those rows. `RepeatsComplete` (`RepeatCompletes`): a call that repeats a
successful one with its index intact writes the row of every document it asks for that is not
nested. Its invariant
`CompleteInv` follows the call: the index holds every filing of the slice (`PlanHolds`), the plan
asks for a document of every such filing (`DispatchAsks`), a document is on disk or its
task still to do, and each extractor writes at least what it writes for less (`FormsSee`: they
are monotone in the files and the index). Both invariants were checked with TLC before they were proved.

Model-checked only: the liveness properties (`RefreshEnds`, `CallsReturn`,
`CallReturns`: fairness and `ENABLED` are beyond the prover); `RetrySpaced` (its bound is
a power, which needs induction).

## 5. Not modelled

* The SEC form parsers (`sec/parsers/*`): stateless recognition of text and XML. `SecForms` takes
  what they find as data. Likewise the text of ages, the geometry of polygons and the
  spelling of dates in the Sodir tables.
* `fetch_company_submission`, which no loader calls.
* Cells of tables and columns of the SEC features that are neither an id nor a reference nor
  told apart by a property.
* The bindings' conversions of arguments, reports and exceptions, progress displays and logs,
  and the text of queries.
* The contents of graphs: a graph is the digest, the dump or the extraction it was built from.
* Two processes interleaved step by step in one working directory (`Rival` is a whole rebuild
  between two calls), and a Ctrl-C as anything but a kill or a failed step.
* Loss of data that the file system had not yet written when the machine (and not only the
  process) dies.

## 6. Open points

* `SodirOpen` takes the refresh as one step that brings in a set of tables. Showing that
  `SodirRefresh`, through `SodirPromise`, implements that step needs a common clock and
  a common notion of a table, and is argued here only in the text.
