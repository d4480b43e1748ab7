# TLA+ models of lightweight-airflow-etl

The repository loads dated CSV files of customers and orders into Oracle: a
generator writes them, Airflow DAGs notice them, `csv_processor` validates and
loads them, and a report is built when both datasets of the day are there.
These modules model the way of a row from the generator to the report, with
the races, crashes and timeouts on it, check it with TLC and prove the main
results with TLAPS.

    tlc -config EngineSafety.cfg MCEngineProcess     # model-check one run
    tlapm EngineInvariantProofs.tla                  # check the proofs of a module

`PROJECT.json` lists the runs, the lines of the source each definition
translates (`map`), the faulty variants that show what each property notices
(`mutants`), the hazards and the theorems.

## 1. The system

| Component | State it keeps | Operations | Talks to |
|---|---|---|---|
| `engine.process()` with `load.py` | one Oracle session and transaction, counts of the chunks so far | checksum, look-up, chunk loop, record, commit, three except blocks | data directory, Oracle |
| Oracle schema | `<dataset>_valid`, `<dataset>_invalid`, `ingestion_metadata` | inserts against `UNIQUE(dataset, checksum)`, primary keys and the orders trigger | every session |
| `source.prepare_source()` | a 64 KiB sample, the marks made on it, a second reading of the file | detection, reopening, row filter | detectors, data directory |
| `detect/header.py` | none | header, footer and repeated-header rows of a sample | called by the source |
| `detect/encoding.py`, `detect/dialect.py` | none | agreement of two detectors | charset-normalizer, chardet, clevercsv, csv.Sniffer |
| `compression.py` | bytes read so far | decompression under a ceiling | gzip, zipfile |
| `validate.py`, `normalize.py` | none | verdict and typed values of one row | config |
| `config/` | none | merge of defaults, schema checks | JSON files |
| `OraclePartitionReadyTrigger` | two counters, lost in a restart | poll, back off, wait, give up | Oracle, triggerer |
| `csv_to_oracle_ingest` | XComs of one DagRun | config, branch, FileSensor, `process()`, report | engine, data directory |
| `ingestion_cascade_orchestrator` | DagRuns, every 5 minutes, one at a time | generate, two ingests, report, summary, retention | generator, the other DAGs |
| `customers_orders_report` | one DagRun | sensor, report query | partition trigger, Oracle |
| `generate_csv.py` | staging directory | generate, write, compress, rename | data directory |
| `scripts/` | none | polling and retry loops | Airflow API, Docker |

Oracle and the data directory are the shared state. Files reach the directory
by `rename`, so a reader sees whole files, but not the same file twice: the
engine reads a file three times (checksum, sample, rows) and opens it by name
each time. Nothing but constraints and transactions coordinates concurrent
`process()` calls, and nothing but the scheduler keeps two generators apart.

What makes each part hard, and what would make it correct:

- **Engine.** Two calls may race on one file or on files that share keys, an
  insert may wait or deadlock, a session may be lost before, during or after
  the commit, the process may be killed, the file may change. Correct means: a
  file is in Oracle whole with its one record or not at all, nothing twice,
  every order with its customer, and nothing reported as loaded that is not.
- **Source.** Codec and marks come from a sample that ends anywhere, and are
  applied to another reading of the file. Correct means: no row of data is lost
  silently, none is decoded as the config does not say, and no archive passes
  the ceiling.
- **Rows.** Loader, generator, validator and converter read one config, in four
  modules. Correct means: they agree on what a valid row is.
- **Generator.** Generators may share a staging path, and a crash between two
  renames leaves a new file with an old one. Correct means: what is renamed is
  whole, and orders appear only beside the customers they were drawn from.
- **Cascade.** A timeout of the parent leaves its child run behind; a child
  reports a failed load as a successful run; operators clear tasks. Correct
  means: no failed child is masked, the report and the summary are of the run
  that asked for them, and every run ends.
- **Trigger.** Polls fail, days change and the triggerer restarts. Correct
  means: the event stands for both datasets of one day, short outages are
  ridden out, and the wait ends.

## 2. Modules

| Module | Models | Proofs |
|---|---|---|
| `IngestData` | rows, tables, records; the readings of files, and what their rows become | |
| `IngestionLedger` | abstract: readings loaded whole, one at a time | |
| `EngineProcess` | concurrent `process()` calls over Oracle and the disk | `EngineProcessProofs` |
| `EngineInvariant` | the inductive invariant of `EngineProcess` | `EngineInvariantProofs` |
| `SourceOpening` | the bytes of `prepare_source()`: forms, guard, sample, codec | `SourceOpeningProofs` |
| `SourceRows` | the rows of `prepare_source()` and its stream | `SourceRowsProofs` |
| `RowRules` | config checks, row generation, validation and conversion | `RowRulesProofs` |
| `Publication` | abstract: what readers of the watched directories see | |
| `GeneratorStaging` | `write_staged()` and `main()` of concurrent generators | `GeneratorStagingProofs` |
| `PartitionTrigger` | `OraclePartitionReadyTrigger.run()` | `PartitionTriggerProofs` |
| `Cascade` | the three DAGs with their child runs | `CascadeProofs` |

`EngineProcess` and `IngestionLedger` extend `IngestData`, so both speak of the
same tables; `EngineProcess` instantiates the ledger with three of its own
variables, `GeneratorStaging` instantiates `Publication` with what
`resolve_matched_file()` would pick. `Cascade` composes the parts: of the
generator, the load and the partition trigger it keeps what their own modules
show of them (files are put in place whole and customers first, a load happens
at once or not at all, a wait ends with an event or an error). The `MC*`
modules fix contents, rows, configs and paths for TLC.

Operators marked "Faulty variant" are not part of any specification. Each is
a definition with a mistake in it, and is there to show that the properties
notice the mistake.

### EngineProcess

A worker is a process that calls `process()`; `pc` says where its call is, and
every location is one statement or one round trip to Oracle, so anything may
happen between two of them. `disk` is the data directory; `validRows`,
`invalidRows` and `metadata` are the committed tables; `txValid`, `txInvalid`
and `txMeta` a session's uncommitted inserts. A checksum is the content it was
taken of. `src` is what the rows come from, a *reading*: the content pass 1
sampled, which gives header position, columns, codec and marks, and the content
pass 2 opened, which is streamed by them (source.py:484-534). The three contents,
digested, sampled and streamed, may all differ. `Rows` gives the rows of each
reading, `Opens` whether the rows up to the sampled header can be skipped in it,
`TornAt` the row at which it fails; that a sampled file opens by its own header
is `OpensAssumption`. Nothing is assumed of the rows of a file read by another
file's header.

| Code | Action |
|---|---|
| engine.py:237-243 | `ReturnConfigurationError`, `ReturnFileNotFound`, `Begin` |
| :245, :250, :253-255 | `Sha256File`, `GetConnection` or `ConnectFails`, `FindExisting` |
| :260 with source.py | `DetectSource`, `ReopenSource`, `NextChunk` |
| :261-272 | `InsertValidRow` row by row, `ValidRowsSent`, `InsertInvalidRows` |
| :274-301 | `RecordIngestion`, `RereadWinner` |
| :303-313 | `Commit` |
| :314-358 | `HandleStructural`, `HandleOracle`, `HandleException` |
| :359-361 | in `Return`, part of every ending |

Around the calls: `DeadlockVictim`, `StatementFails`, `LoseSession`,
`CommitAnswerLost` (committed, but the call sees an error), `Kill`,
`ChangeFile`. Valid rows go in one at a time, because `executemany` may wait
for another session's key in the middle of a batch.

### SourceOpening

A file is a form (plain, gzip, zip, a zip without its one member) with its
decompressed bytes, of five classes: ASCII, first or second byte of a UTF-8
character, half of a UTF-16 character, another byte. `Sniff` looks at the
first bytes, `Open` opens the file again by name, `ReadChunk` and `ReadFails`
are the reads of the guard and the decompressor, `SampleRead`, `Detect` and
`CheckHeader` the rest of pass 1, and `EndOfFile` the end of pass 2. `Replace`
renames another file over this one between any two of them. `Detect` takes any
candidates of charset-normalizer and any guess of chardet; `Honest` restricts
them to the narrowest encoding that fits the sample.

### SourceRows

A row is one of a few kinds, told apart by their number of fields, by whether
they look like a header, and by whether they are the header. A file is any
sequence of them, a sample is the whole file, some of its rows, or some rows
and a fragment that may look like another kind. `Detect` is the first pass
with the checks of source.py:357-482, `Replace` a rename over the file between
the passes, `Reopen` and `ReadRow` the second. `detect_header()`'s three
searches are sets of indices into the sample.

### RowRules

A field is what its converters look at: empty or not, a number by its digits
and exponent, a moment by its format, an id. `LoadConfig` accepts or refuses
the two configs, `Plan` and `GenerateRow` make the rows of
`generate_correlated_datasets()` or of customers alone, with the invalid rows
and their categories; `Upload` brings a file from elsewhere, any fields under
any header that `prepare_source()` lets pass. `process_chunks` judges all rows,
by `check_row` and `normalize_row`, operators named as in the code.

### GeneratorStaging

Each generator goes through `write_staged()` twice, once per dataset: open,
write, compress, remove the plain file, rename. `data` is what each path
holds, `handle` the path an open file has now: a rename takes the writers of a
file with it, a removal leaves them `Detached`. Two generators that write one
file leave `Mixed` bytes. `Kill` may come at any step, `Midnight` between any
two; the day is read anew for each dataset (`OpenPlain`).

### PartitionTrigger

`pc` is the await `run()` is at; `retry_count`, `wait_count` and `count` are
its variables. Time is in seconds and passes only in polls and sleeps. `Load`
and `Midnight` change Oracle between any two steps, `TriggererRestarts` starts
`run()` again with its two arguments and fresh counters.

### Cascade

`task` is the task each orchestrator run is at, `child` the task of its up to
three child runs, which `TriggerChild` creates or resets. A pair of files has
a number, its rows' keys are those of its seed; `place` is the pair whose file
lies under each day's name, `ledger` the records in the order of
`processed_at`.

| Code | Action |
|---|---|
| ingestion_cascade_orchestrator.py:65-155 | `StartRun`, `Generate`, `Publish`, `GenerateDone`, `GenerateFails` |
| :157-196 | `TriggerChild`, `ChildEnded` |
| :198-230 | `SummaryTask`, `RetentionTask` |
| :70, and Airflow's clear | `DagrunTimeout`, `Clear` |
| csv_to_oracle_ingest.py:67-143 | `LoadConfig`, `WaitForFile`, `SensorTimeout`, `MatchFile`, `Process`, `ReportResult` |
| customers_orders_report.py | `WaitForBoth`, `BuildReport` |
| regenerate_readme_summary.py:141-149 | `ClearStaleFixtures` |

Around them: `ChildTaskDies`, `Midnight`.

## 3. Runs

| Run | Question | Instance |
|---|---|---|
| `engine_safety` | Are files loaded whole and once, and counted right, whatever fails? | 2 processes, 3 calls, customers and orders files with invalid rows, chunks of 2, one fault of any kind |
| `engine_race` | Does the loser of a race return the winner's result, is nothing loaded twice, and does the invariant behind both (`UndisturbedInv`) hold? | 2 processes, 3 calls, files with and without valid rows, torn and headerless, under two names, one fault of any kind |
| `engine_replaced` | What if files change under a call? | 2 processes, 2 calls, 2 changes among four contents: header in line 1, in line 3, none, and columns in another order with a torn end; `MCEngineProcess` has the rows of each read by the header of each |
| `engine_live` | Does every call end? | 2 calls over the same keys in equal and opposite order, one fault |
| `partition_wait` | Is the event of one day, is a timeout earned, does the wait end? | 2 attempts of 3 seconds, 2 retries, polls of 0 or 2 seconds, one midnight, one restart |
| `source_rows` | Which rows can be lost between the passes? | all files of up to 5 rows of 6 kinds, every cut, 15 replacements |
| `opening` | Are ceiling, sample and codec what they should be, in both passes? | files of up to 6 bytes of every form, sample and chunk of 2, ceiling of 5, any guesses, one replacement |
| `staging` | What do readers see of generators, and what do generators find? | 3 generators, 2 at once, 2 days, kills anywhere |
| `cascade` | Is a failure masked, whose data do report and summary show, do runs end? | 2 orchestrator runs with 3 children each, 2 days, 2 troubles (faults, clears, timeouts) |
| `rows` | Do loader, generator, validator and converter agree? | 10 configs of all types, 6 of them refused, 2 rows a file, 15 fields |

Two runs expect a violation, and find it:

| Run | The statement | What happens |
|---|---|---|
| `cascade_rerun` | a retry of `generate_task` makes byte-identical files, and retrying a run is a no-op (docs/airflow-dag.md:216-218, 226-228) | `gzip.open` stores the time of writing: the file has another digest, is loaded again, and fails on the primary keys of the first load with `DATABASE_ERROR`, which no task reports |
| `opening_ascii` | a well-formed file of any size loses no row (test_structural_validation.py:267-268), and "detected ascii" is no conflict with a declared utf-8 (source.py:373-377) | the codec `ascii` is kept for the whole file; the first other character behind the sample ends the load in `PROCESSING_ERROR` |

### Bounds, and why they are enough

`MaxCalls`, `MaxFaults` and `MaxChanges` bound the calls, the faults and the
file changes of the engine; `MaxDay`, `MaxRestarts`, `MaxRuns`, `MaxTroubles`,
`MaxGenerators` and `MaxOverlap` the environment of trigger, cascade and
generator; `MaxRows` the files; `Chaos` the scores of charset-normalizer;
`RawConfigs` and `Fields` the configs and fields of `RowRules`.

- Two processes make every race of the engine: Oracle's constraints relate
  pairs of sessions, and a third waits like the second. Three calls are two
  that race and one that comes later and finds what they left.
- Contents of two or three rows with chunks of one or two rows have a full
  chunk, a short last chunk, an invalid row between valid ones, and shared
  keys in equal and opposite order.
- One fault can fall on every statement, in every handler and around the
  commit. Two changes of a file put three contents behind checksum, sample and
  rows. The four contents that replace each other give readings that lose rows,
  that take a preamble and a header for rows, that cannot be opened, that fail
  later on, and whose rows are all invalid.
- A source row matters by its position relative to the header, the cut and the
  marked run: five rows hold a header, a row of data, a run of two marked rows
  at the cut and the row the cut falls into. With four, the mistake of
  protecting only the last row goes unnoticed.
- Bytes matter by their position relative to the sample's end, the chunk's end
  and the ceiling: samples and chunks of two with texts of up to six put a
  character before, across and behind each of them.
- Three generators are two that overlap and one that finds what they left, or
  one killed, one that finds its remains and one after it.
- Two orchestrator runs are an earlier and a later one; two troubles are a
  timeout or fault and the clear that follows, or one for each run.
- The trigger's limits enter its behaviour through comparisons only. Two
  attempts and two retries reach each limit from below, at it and past it.
- The fields of `rows` fall short of, meet and exceed precision and scale with
  every sign of exponent; the configs hold every type, accepted and refused.

The theorems below hold for every value of these bounds: any number of
workers, generators, runs, paths, keys, contents and configs, and files of any
length. TLC deadlock checking is off in all runs, because the bounded systems
stop when calls, faults and days are used up.

### Fairness

`engine_live` assumes weak fairness of each call's own next step (a process
that is not killed goes on), that Oracle answers, and that it breaks a cycle
of waiting sessions. It does not assume that a killed process comes back, that
files stop changing or that faults stop, other than by their bound. A killed
process's session is rolled back by Oracle (in the model, at once), so nobody
waits for it for ever.
`partition_wait` assumes weak fairness of `run()`: asyncio resumes a coroutine
whose await is over. Restarts are bounded, because a triggerer that dies
for ever never decides.
`cascade` assumes weak fairness of the next task of each parent and of each
parent's children: scheduler, workers and triggerer keep going, sensors time
out. It assumes nothing of new runs, operators, faults or `dagrun_timeout`.

## 4. Where the repository's statements do not hold

Besides the two runs above, modelling found these. They are stated here
without a run of their own.

- docs/oracle.md:136-141: the loser of a race gets ORA-00001 on its record and
  returns the winner's result. With a valid row in the file it fails earlier,
  on the primary key, and returns `DATABASE_ERROR`; `LoserReturnsWinner` holds
  for files without a valid row that read without an error, while no session is
  lost and no file changes.
- source.py:258-259: pass 2 "reopens and re-reads the identical file". It opens
  the name again, and if the file was replaced since pass 1, it skips as many
  rows as the first file's header needed and takes the first file's columns and
  codec (484-533). Of a replacement whose header is further up the leading rows
  are lost, one with its columns in another order is misread, and the load is
  recorded, under the digest of a third content if the file changed twice.
  `FilesAreWhole` therefore speaks of a reading, and of the file itself only
  while files stay.
- docs/oracle.md:143-146: data is never duplicated. A file replaced between
  checksum and reading is loaded under the old digest and, if no row of it is
  valid, again under its own. `NoDuplicateRows` says so: no two valid
  rows have one key, whatever happens, and no invalid row is loaded twice while
  files stay.
- engine.py:229-233: `process()` never raises. The checksum (245), a rollback
  (327) or close (361) on a lost session, and a failing stream outside the
  caught errors do.
- oracle_partition_trigger.py:103-111: `run()` raises well before the parent's
  four minutes. Backoffs are not counted; with 30, 180 and 10 it may wait 1447
  seconds (`WaitIsBounded` states the bound that holds).
- source.py:393-399: the sample is cut at byte 65536 and decoded strictly, so
  a well-formed file with a character across that byte is rejected.
- source.py:389-390: a byte order mark and the config never conflict. A file
  marked UTF-16 is decoded so, whatever the config declares
  (`TextIsAsDeclared` excepts marked files).
- detect/header.py:3-8: what is above the header is a metadata preamble.
  Mostly malformed rows outvote the header, and a repeated one below takes its
  place: `id,name / 1 / 2 / 7,x / id,name` has its header in row 5.
- test_structural_validation.py:216-219: a footer or a repeated header past
  the sample is loaded as data.
- docs/csv-engine.md:85: an error result counts rows that were rolled back.
- generate_schedule_helpers.py:31-32: seeds differ between runs. Two runs of
  one minute, one by schedule and one by hand, have the same.
- ingestion_cascade_orchestrator.py:53-59: the summary is of the latest
  records, so that of a cleared older run can mix two runs, and a cleared
  ingest of an older run loads the newest pair. TLC showed with three runs and
  three troubles that this can leave a report of neither pair: a first run ends
  well; a second times out before its files are loaded, a third after it has put
  only its customers in place; the second, cleared, loads these customers and
  its own orders, whose customers are not there. That ends in `DATABASE_ERROR`,
  which fails no task, and the first run's records let the report go ahead.
  `ReportsSeeTheirRun` therefore leaves out cascades with a clear and a timeout.
- config/models.py: `decimal_separator` is accepted and never used by
  converter or generator; `customer_id` and `order_id` get structured text ids
  whatever their declared type (`RowRulesAssumption` requires them to be
  strings, as the shipped configs have them).

## 5. Proofs

All proofs are checked by TLAPS from the named assumptions on the constants
(`RowsAssumption`, `CallsAssumption`, `EngineAssumption` and `OpensAssumption`
for the engine,
`TriggerAssumption`, `SourceRows`' own `RowsAssumption`, `OpeningAssumption`,
`RowRulesAssumption`, `GeneratorBounds` and `Sentinels`, `CascadeBounds`), which
TLC evaluates in the runs. In every module the safety properties are not
inductive by themselves; the invariant that is comes first.

**Engine.** `TypeCorrect` proves the type invariant. That a commit keeps files
whole depends on what the open transaction holds, and that on how far the call
is. `IInv` (EngineInvariant) says so part by part: `ProgressInv` how many rows
a location has dealt with, `TxInv` that a transaction holds exactly these rows
of its reading, `KeysApart` that no two transactions and tables share a key,
`RecordsApart` the same of records, `RefsPresent` that orders have customers,
`WholeInv` that each record stands for one whole reading, `WinnerIsFound` that a
call that turns to the winner's record has one to find. `CallInvStep` and
`TableInvStep` take the actions one by one; from `IInv` follow

- `CountsMatch`, `OrdersReferToCustomers`,
- `ReportsDurable`: what a call reports as loaded is committed,
- `RecordedFilesFinal`: no step changes a recorded file,
- `EngineImplementsLedger`: `Commit` (and a commit whose answer is lost) is the
  ledger's `Load` of one reading, every other step a stutter. Of files that are
  replaced under a call the theorem says no more: all the rows of one reading,
  to the end of the file, in one step, under a digest that has no record yet;
  which rows these are is open, as in the code.

What a call streams is the file it has digested only while files stay, and that
it returns a record only while nothing fails; `UndisturbedInv` says so next to
`IInv`: `ExactInv` ties the disk, the checksum and the stream of each call and
the rows of the tables to the reading of one content by its own header, `CalmInv` keeps a call for a file without
a valid row off every path that ends without a record. With it follow

- `FilesWhole`: the rows under a record are all the rows of one reading, and
  while files stay, all the rows of the file with the recorded checksum,
- `LoserReturns`: the insert of a record waits for the winner's commit and then
  fails on UNIQUE(dataset, checksum), and the winner's record is there,
- `NoDuplicates`: valid rows by their primary keys, invalid ones because a
  second load of a file would be a second record of it,
- `EngineImplementsExactLedger`: `Commit` is the ledger's `LoadExact`, all the
  rows of a file under its own checksum.

They are proved for any number of calls and workers; their conditions (section 4)
are those of the properties, not of the proofs.

**Opening.** `IInv` joins the sample's exactness with `ReadSoFar` (how many
bytes a pass may have read, and what ended it) and `CodecChosen` (which codecs
an accepted sample allows, and that the bytes pass 2 has decoded fit).
`GuardIsExact`, `SampleExact` and `OnlyDeclaredText` follow for every size of
sample, chunk and ceiling: the guard counts a chunk before it passes it on, and
pass 1 asks for one byte more than the sample, so it sees whether the file goes
on.

**Source rows.** `StreamTypes` says that what is missing below `next` was
dropped by the filter. `WellFormedRowsNeverLost` follows for any replacement of
the file: the filter asks the real row. For a file that is the one sampled
(which `SampleStays` proves of every run without a replacement), `CutLoses`,
`FootersOptIn` and `FootersEnd` follow from the marks: a footer run of a
truncated sample always reaches its last row, so the whole run is protected and
only exact copies of the header remain. The argument shows a redundancy: with
the protected tail, asking the real row only matters when the file was replaced.

**Row rules.** `VerdictsAreRight` rests on lemmas about the converters: that
`parse_decimal_strict`'s two maxima say the same as counting the digits before
and behind the point, that a check finds an error exactly when some field does
not conform, that no accepted config reaches an assertion. `CategoriesFound`
adds that a generated value conforms to its column and a spoilt one does not,
with `wrong_type` and `invalid_date` of disjoint columns. `PairsFit` follows the ids: each
generated key is its row's number or that of a valid customer, and a valid
customer is an accepted one by the previous theorem.

**Staging.** `IInv` says what a running generator that no other overlaps can
rely on: it is the only one running, its handle is open exactly while it
writes, and its staged file holds what its place in `write_staged()` says,
whatever was there before, because `open("w")` truncates. `StagingKeepsFilesWhole`
and `StagingRecovers` follow: only complete staged files are renamed.
`StagingImplementsPublication` shows that each rename is a step of `Publication`
and everything else a stutter. A reader picks the last name in order, and that
this is the file of the last rename needs `PubInv`: no file in place is of a
later day or generator than the one being written, and while orders are written
the customers of the same generator are the last ones, also when midnight falls
between the two or an earlier generator was killed there.

**Cascade.** A parent that is past a trigger task, or was stopped there, has that
child in success, and nothing but the parent's own `TriggerChild` takes a child
out of it; `NoMaskedFailure` follows for any number of runs, clears and faults.
That report and summary are of the right run rests on three more invariants,
proved together in `CascadeRunsInOrder`. `ParentsInv`: one parent is active at a
time, the files in place are numbered in the order of the runs, and a child runs
under its waiting parent unless it outlived it. `CalmInv`, of cascades without a
fault and without a clear beside a timeout: until they are loaded, the active
run's files are the newest in place, so its own child matches them and, finding
their customers loaded and their keys free, succeeds; past a trigger task the
run's files are loaded. `SummaryInv`: records follow the order of the pairs, so
the latest is the run's own. `ReportsReadTheirRun` and `SummariesCountTheirRun`
follow for any number of runs and days. TLC found the second condition of
`CalmInv` before its proof: two runs were too few to need it (section 4).

**Trigger.** `TriggerTypes` holds the counters under their limits, `ReadyOfOneDay`
carries the day of the last answer to the event, `WaitBounded` charges each
second of the wait to a counter: a poll and a sleep are paid for by the failure
or the insufficient answer they lead to. `TimeoutEarned` counts the other way:
every insufficient answer was waited for, so with an interval that divides the
limit no time is missing. (With one that does not, the wait is shorter.)
`OutagesRiddenOut` says that a streak of failures has cost its backoffs: since
the last answer at least `Backoffs[retry_count]` has passed, and the error comes
only when the streak is as long as it may be. `Backoffs` is a recursive function,
defined on Nat by an induction over a set of numbers.

**Model-checked only.** The liveness properties `CallsEnd`, `Decides` and
`RunsEnd`, which need fairness and ENABLED, beyond this prover; bounds on a wait
are proved (`WaitBounded`). The two statements of the repository that runs
violate, for which the counterexample is the result.

## 6. What is abstracted

- Field values, except what decides an outcome: keys and references in
  contents, and the classes of values in `RowRules`. Formats, messages, logging
  and the text of reports and summaries.
- Oracle beyond what the engine relies on: reads see committed rows, a unique
  key held by an open transaction makes an insert wait, a wait cycle costs one
  statement, a lost session is rolled back, a statement may fail.
- `summary_task` asks for the two datasets one after the other; `SummaryTask`
  reads both at once. Only a child that outlived its parent can load between the
  two, and `SummaryIsOfThisRun` leaves such cascades out.
- The five bytes that Python's cp1250 does not define: `SourceOpening` lets
  cp1250 decode every byte.
- Of a replaced file, which rows are lost or misread: `SourceRows` follows a
  replacement row by row through the filter, the engine's `Rows` takes any rows
  for it.
- Airflow: tasks run in order, a worker may die under a task, a child run
  with an existing id is reset; queues, pools and XCom are left out. Time in
  `Cascade` is the order of events and the day, so sensors and
  `dagrun_timeout` may fire at any time they are enabled.
- SHA-256 is taken to be injective, except that the gzip header's time makes
  two writings of the same rows two files.
- The libraries that guess encodings and delimiters: any answer.
- A decompressor fails from the first byte it cannot produce; how much of a
  damaged archive it still delivers before that is a choice.
- Raw lines kept beside rows, `_not_found()`'s two reasons, the parameters of
  `detect_header()` that no caller passes.

## 7. Not modelled

- The merge of the defaults file into a config, the identifier checks of table
  names, the csv block and chunk size: single tests of constants, whose failure
  is the same `ConfigurationError`.
- Column types and widths in Oracle: a value that does not fit is a failing
  statement.
- The generator's random numbers and Faker's words, `zipf_weighted_sample`'s
  weights: any value they may give is allowed.
- The polling loops of `scripts/`, which hold no state of the system, and the
  rest of these scripts, I/O against Docker and the Airflow API.
- `detect/filename.py` and `detect/schema.py`, which nothing calls;
  `benchmark/` and `tools/corpus/`, development tools.
