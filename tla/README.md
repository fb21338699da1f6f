# LakeFlow: verification models

TLA+ specifications of LakeFlow, a change-data-capture lakehouse: PostgreSQL →
Debezium → Kafka → Spark Structured Streaming → Iceberg, read through Trino and an
API. The modules are translated from the code under `src/` (paths below are relative
to it); TLC checks them on small instances and TLAPS proves the main results for all
values of the constants.

    tlc -config MCSinkCore.cfg MCSinkCore      # model-check a run
    tlapm SinkProofs.tla                       # check the proofs of a module

## 1. The system

| Component | State it keeps | Operations | Correct when |
|---|---|---|---|
| Micro-batch sink, `spark/lakeflow_stream/sink.py` | tables `silver.*`, `bronze.cdc_events`, `ops.dlq_events`, `ops.batch_commits`; in the process: contracts, cached watermark | `process_batch`: reload contracts, decode, plan, MERGE silver per table, append bronze, MERGE DLQ, MERGE batch record, each with retries | re-executing any part of a batch changes nothing; no event lost, none twice; silver never goes back; labels, counts and watermark are functions of the data |
| Streaming query, `spark/lakeflow_stream/job.py` | checkpoint: `stream-epoch`, `query/metadata`, `offsets/N`, `commits/N` | `ensure_epoch`, start, trigger, re-execution | batch ids never collide across checkpoint lineages; every planned batch is executed until it is committed |
| Executable specification, `libs/lakeflow_core/semantics.py` | none | `plan_batch`, `apply_plan` | the sink does the same |
| Contracts and decoding, `libs/lakeflow_core/{contracts,decode,identity,lsn}.py` | contract files; registry with a fingerprint | `load_registry`, `classify`, `decode_change_event` | a registry that loads accepts what its predecessor accepted; the decoder is total |
| Control channel, `spark/lakeflow_stream/control.py`, and Recovery Lab, `api/lakeflow_api/services/recovery.py` | request and acknowledgement files, one armed request | `poll_once`, `maybe_crash_after_commit`; injections of duplicate, malformed and late records | a request makes the driver exit at most once, and not before an acknowledgement was written |
| DLQ replay, `api/lakeflow_api/services/quality.py` | none of its own (reads Trino, writes Kafka) | `replay` | a replay is counted once and resolves its row if it is accepted |
| Contract promotion, `scripts/lakeflowctl.py` | contract files | `contract promote` | readers see the old or the new set |
| Monitor and incidents, `api/lakeflow_api/{monitor,control_store}.py` | last probe results; incident rows | `probe_all`, `open_incident`, `resolve_incidents` | an incident is open exactly while its component is found unhealthy, as far as the control database can be written |
| Tracer and live stream, `api/lakeflow_api/{tracer,routes}.py` | bounded event buffers and an index by key; subscriber queues | `_handle`, `publish`, `subscribe` | index and buffer agree; slots are given back |
| API context, `api/lakeflow_api/{context,domain/ratelimit,domain/sessions}.py` | TTL cache, rate-limit windows, registry | `cached`, `allow` | no more than `limit` hits per window; fresh values are not replaced by older ones |
| Checkpoint reader and trace, `api/lakeflow_api/domain/{checkpoint,trace}.py` | none | `read_checkpoint`, `consumer_lag`, trace stages | conclusions hold for some moment of the checkpoint |
| Maintenance, `libs/lakeflow_core/maintenance.py`, `airflow/dags/lakeflow_maintenance.py` | evidence rows | `maintain_table` | the evidence is true of the rewrite also beside the stream; no file in use is deleted |
| Statistics, benchmark, quality SQL, lineage, ADRs; frontend; platform | none | pure functions, rendering, configuration | — |

How they interact: Debezium writes CDC topics at least once. The sink reads them and
the replay topic. The API asks Trino for open DLQ rows and reproduces their raw bytes to
the replay topic with the header `lakeflow-replay-of`. The Recovery Lab redelivers
records, injects malformed and late ones, and asks the driver to kill itself through
files on a shared volume. `lakeflowctl contract promote` rewrites the contract files,
which the sink reads again at the start of every batch and the API on every request. The
sink publishes each batch record to an ops topic that the API's tracer tails; the API also
reads the checkpoint directory and the tables.

What is hard here: the four tables are committed one after the other and the checkpoint
after them, so a crash leaves a prefix of a batch; a commit may conflict or have an
unknown outcome; events come again and out of order; the batch of a crashed process runs
again in a process with other contracts and no cache; the checkpoint may be wiped while
the tables stay; replays race with contract changes. `PROJECT.json` lists each hazard with
the line where it bites and the properties that watch it.

## 2. Modules

| Module | Content |
|---|---|
| `Sink` | the sink inside the streaming query, with Kafka, Iceberg, Spark's checkpoint and the operators around it; its properties |
| `Lakehouse` | the abstract promise: a ledger of events that only grows and current rows that only move forward, in that order |
| `Semantics` | the executable specification `semantics.py` as operators |
| `SinkReference` | the sink compared with `Semantics`, batch by batch |
| `ContractRules` | what a contract version accepts, which version may follow which, what loads, `classify`, the columns of silver |
| `Decode` | the decisions of the decoder, in their order, and the projection of row images with PII handling |
| `Contracts` | the contract files under `contract promote` and the driver that reads them |
| `Recovery` | the control channel: request files, both threads of the driver, acknowledgements, restarts |
| `Monitor` | the API's monitor: probe cycles, incident rows, outages of the control database, restarts |
| `Trace` | what the API concludes from the Kafka tail, the tables and the checkpoint, read one after the other while the job of `Sink` goes on |
| `Maintenance` | `maintain_table` beside the stream and a second runner |
| `MCSinkCore`, `MCSinkDlq`, `MCSinkReference`, `MCContracts`, `MCRecovery`, `MCMonitor`, `MCTrace`, `MCMaintenance` | instances for TLC |
| `Extrema` | lemmas on least and greatest integers |
| `SinkProofs` | type correctness; silver against bronze, the MERGE guard, refinement of `Lakehouse`; no record lost, no event twice, the DLQ protocol |
| `SinkRepeats` | batches that are run again: the watermark, plans, labels and batch records, what a settled job holds, the sink against `Semantics` |
| `TraceProofs` | what a trace and the lag conclude while the job goes on, the two indexes of the tail |
| `ContractProofs` | compatibility, and what the registry in use guarantees |
| `RecoveryProofs` | one exit per request, acknowledgements |
| `MonitorProofs` | one open incident per title, incidents follow the probes |
| `MaintenanceProofs` | no file in use deleted, evidence true |

### Sink and the code

One driver process, so one batch at a time; `stage` is its program counter. Every step
that reads or writes shared state is an action, so that anything (a message, a promoted
contract set, a crash) can come between two of them.

| Action | Code |
|---|---|
| `EnsureEpoch`, `StartQuery` | `job.py` 42-96: load contracts, `ensure_epoch`, `start()` |
| `Trigger`, `Resume`, `CommitBatch` | Spark: `offsets/N` before the batch, `commits/N` after it, a batch with the first and not the second is run again (external) |
| `BeginBatch` | `sink.py` 418-454: contract reload, empty batch |
| `PlanBatch` | 456-483: watermark, `plan` |
| `MergeSilver` | 485-499, once per table, `merge_silver_sql` |
| `AppendBronze` | 501-524, the anti-join recomputed per attempt |
| `MergeDlq` | 526-533, `_dlq_rows`, `DLQ_MERGE` |
| `MergeRecord` | 535-583, `BATCH_MERGE`, then the watermark cache |
| `Crash` | any exception of `process_batch`, `os._exit` of the control channel, kill -9 |
| `Produce`, `Replay`, `Deploy`, `WipeCheckpoint` | Debezium and the Recovery Lab; `quality.py` 97-114; `lakeflowctl.py` 433-455; an operator |

`_with_retries` is in each write: an attempt succeeds (`Done`), or raises a retriable
exception with or without having taken effect (`Retried`). A last attempt that raises is a
`Crash`.

Abstractions. A record is what the sink tells apart: change, tombstone or gap (an offset without a
record), the event it carries, its timestamp, the set of contract versions that decode it, and the
replay header (the verdicts are those of `Decode`). A silver row is the event it
shows, the LSN before and the epoch and batch that wrote it; the row's columns and `is_deleted`
follow from the event. A timestamp beyond `MaxMillis` is one that `timestamp_millis` cannot convert,
whose result must fit 64 bits in microseconds (`Overflows`): of the source, which the plan converts
for every valid row, or of the envelope, which the append converts for its rows. A deleted row stays
as a tombstone in the table, so a delete is an event like any other. The batch record holds the sets
behind its counts. Times other than the source timestamp, metrics, snapshot summaries and the ops
topic are left out. An event's id is the event itself; distinct LSNs per row are assumed
(`LsnAssumption`), which ADR-0003 derives from row locks. A contract set that `load_registry`
refuses is a version outside `Loadable`: half of a promotion is one.

### Contracts and the code

Two processes share the contract folder of one table, and either may die between steps.

| Action | Code |
|---|---|
| `StartPromotion`, `DemoteFile`, `WriteTarget`, `FillFile` | `lakeflowctl.py` 433-455: the loop that demotes the current version, then the target; `write_text` empties a file before it fills it |
| `StartDriver`, `CheckFingerprint` | `job.py` 54-59; `sink.py` 158-164 at the start of every batch, and a batch runs only for records that wait (`due`) |
| `Arrive` | records in Kafka (external) |
| `ListFiles`, `ReadFile`, `EndRead` | `load_registry`, `contracts.py` 440-462, file by file; a set that does not load is rejected, or ends a driver that is starting |
| `EnsureTables`, `Install` | `sink.py` 81-115 and 165-174 |
| `KillPromoter`, `KillDriver` | kill -9, `os._exit` |

The comparison of fingerprints is one step: if the files read one after the other differ from
those of the registry, the folder differed at the moment the deciding file was read. A value is
what a field specification can ask of it (type, length, patterns, formats, digits), a document
what validator and registry read of a file. `ContractRules` links to `Sink`: a contract set there
is a registry here, `Status` is "valid" where `Classify` is not 0, and `Loadable` are the sets for
which `Loads` holds. Column types, `x-pii` levels and the checks on identifiers are left out, and so
are names of columns that collide (a field `f_hmac` beside a hashed `f`). `due` says that records wait
or are in a batch; Spark starts no batch on idle topics, and nothing else looks at the files.

`Decode` is a function of the registry and a message. A message is what the decoder decides on: the
topic, what its bytes are, the operation, the shape of `source`, two images and a key.
`EnvelopeFault` and `RowFault` list the reasons in the order of `decode.py` 104-179;
`NormalizeImage` says of each written column whether it shows the value, its HMAC or null
(`identity.py` 57-74). Both images are projected and only one is validated, so a timestamp that
cannot be parsed can still be found there (`MALFORMED_ROW_IMAGE`), and text that cannot be encoded
when the row is hashed (`DECODER_ERROR`). The messages of `MCContracts` take every one of these
branches but the last.

### Recovery and the code

The driver has two threads that matter here, the control thread and the one that runs the batches;
they share the slot `armed` and the acknowledgement files. The API writes request files.

| Action | Code |
|---|---|
| `RequestControl` | `recovery.py` 123-129: a temporary file, then a rename |
| `Poll`, `EndPoll` | `control.py` 35-44: the directory is listed once per poll, in the order of names |
| `Take`, `Unreadable` | 45-52: the file is removed before anything is done, or because it cannot be read |
| `Act`, `OpenAck`, `FillAck`, `ReplaceAck`, `Exit` | 53-62 and `ack`, 74-79: arm the slot, acknowledge, `os._exit`; `write_text` empties the file before it fills it |
| `StartBatch`, `Record` | `sink.py` 418-578; `Sink` has the steps between |
| `Pass`, `Fire`, `OpenFired`, `FillFired`, `ReplaceFired`, `ExitFired` | `maybe_crash_after_commit`, 64-72 |
| `CommitBatch`, `Restart`, `Kill` | Spark's commit marker, Docker's restart, any other death (external) |

Both threads open `<id>.tmp`, fill it and rename it, in any order: a rename may publish the other's text,
an empty file (`Torn`), which the other then fills where it is, or a text with the end of a longer one
behind it. `contended` remembers the requests that fired while the control thread was still acknowledging
them; it is no state of the code. The second rename finds no file: in the control thread
`_loop` logs the error and the rest of the listing waits for the next poll; in the batch thread the
batch fails and the driver with it, which is why `ReplaceFired` goes on to the exit either way.
Reading and removing a request is one step, since nobody else touches the file. A request is the
place of its file in the directory; the acknowledgement is its note and the batch it names.

### Monitor and the code

One thread runs cycles; components change and the API restarts at any step.

| Action | Code |
|---|---|
| `InitStore` | `main.py` 29-38: tables are created at start-up, and a failure is logged |
| `Probe`, `Publish` | `monitor.py` 63-84: one component after the other, then the results at once |
| `Unchanged`, `SelectIncident`, `InsertIncident`, `ResolveIncidents` | 85-97 with `control_store.py` 32-48, each statement a transaction of its own (`autocommit=True`, `clients.py` 34) |
| `Fail` | `_safe`, 99-104 |
| `Change`, `RestartApi` | the watched components and the API process (external) |

The control database is on the server of component `Server`, PostgreSQL in
`docker-compose.yml`; a statement fails if that is down or the tables are missing. `failed` records
which components had a failing statement, or an open incident at a restart, since their incidents
were last resolved; it is no state of the code. What a probe asks is left out, its verdict is the
component's condition. Rows of resolved incidents, lag, gauges and the audit log are left out.

### Trace and the code

`Trace` extends `Sink`: all steps of the job, its crashes and its environment come between any
two steps of the reader. A behaviour has one request, a trace of a key or the monitor's reading of
the lag, since requests do not affect each other, and ends with its answer.

| Action | Code |
|---|---|
| `Poll`, `Handle`, `Reconnect`, `RestartApi` | `tracer.py` 88-149: the tail, its two indexes, the consumer that begins at the end of the topics after every error |
| `StartTrace`, `ReadTail`, `ReadBronze`, `ReadDlq`, `ReadBatches`, `ReadSilver`, `TrinoFails` | `services/trace.py` 35-99: the tail, then four queries, of which the first that fails ends the rest |
| `ProbeKafka` | `monitor.py` 140-147: end offsets, before the checkpoint is read |
| `ReadEpoch`, `ListOffsets`, `ListCommits`, `ReadPlanned`, `ReadCommitted` | `read_checkpoint`, `domain/checkpoint.py` 45-62, a look at the directory each |
| `Lag`, `Answer` | `consumer_lag`, 65-71; `assemble`, `domain/trace.py` 54-198, the status of its stages |

Abstractions. The end offsets are one reading, although the code asks partition by partition: each
is older than the checkpoint either way. A trace's stages "PostgreSQL" and the list of events are
left out, and what is written in an answer besides the status. Files of the checkpoint are there or
not, never torn. The rest of the tail is frozen once a trace has read it, as nothing reads it
afterwards. A record whose key cannot be read, or that has none (`HasKey`), is in the index and in
no bucket (`tracer.py` 139-148). The live stream that the same thread feeds is not modelled. An
event with LSN 0 in silver counts as none, as line 184 has it.

### Maintenance and the code

A table is a log of snapshots over files of rows. Two runners, Airflow's task and the command line,
are at a statement each.

| Action | Code |
|---|---|
| `Begin`, `TableExists`, `StatsBefore` | `maintenance.py` 188-200 |
| `PlanRewrite`, `CommitRewrite` | `optimize` in Trino, which reads and writes files and then commits; 163-172 retries what reads like a conflict |
| `FindRewrite`, `CompareParent` | 204-218: the newest rewrite committed after the run began, its fingerprint and that of its parent |
| `ExpireSnapshots`, `ScanOrphans`, `RemoveOrphans` | 219-222 |
| `StatsAfter`, `Fail`, `Record` | 223-247; the DAG, 42-48, fails its task if the record says so |
| `Create`, `StreamWrites`, `StreamCommits`, `StreamDies` | the sink: a file, then the commit that refers to it |
| `Tick` | time, as far as the two retentions see it |

Abstractions. A fingerprint is the set of rows it hashes; `Lossy` lets Trino lose a row, the fault the
evidence is there to show. A rewrite takes all files of the snapshot, of whatever size. Iceberg is its
optimistic commit: a rewrite conflicts if a file it replaces is gone or has other rows. The one
assumption on time is that no write is under way for longer than the orphan retention (`Tick`); the
DAG ends a task after 20 minutes (`lakeflow_dag_support.py` 16-22), and a micro-batch takes far less
than the hour that `Policy` (72-76) keeps files.

What the code does not promise, and the properties therefore leave out: a run on a table without a
snapshot looks for no evidence; with two runners the query takes the newest rewrite, so a run may
record the other's and leave its own unchecked, which is why the second half of `EvidenceIsTrue` is
about runs that were alone; the parent may be expired by the other runner meanwhile, which fails the
run (`Fail`). A run may make two rewrites, when the first took effect and was reported as a
conflict; only the last is looked at (see the disagreements). Repeated attempts of
`expire_snapshots` and `remove_orphan_files` are transitions back to the statement, the deletion of
orphans is one step. The docstring (3-6) leaves the retry of conflicts to the caller, while
`_execute_with_retries` does it in the run.

The operators marked `Faulty:` are variants of the definition that follows them, each
with a bug that code like this could have. No specification uses them; they exist to show
that the property named in `PROJECT.json` would find the bug.

## 3. Runs

| Run | Question | Bounds |
|---|---|---|
| `core` | tables, watermark and batch records under redelivery, retries, a crash at any step, a wiped checkpoint; every record that can be converted is stored | 2 tables of 1 row, 3 events (2 of one row), a gap and a record with an envelope time that cannot be converted, 3 messages, 2 attempts per write, 1 crash, 2 epochs, `FairSpec` |
| `dlq` | rejected records, replays, promoted contracts; refinement of `Lakehouse` | 1 row, a record for each kind of verdict, 1 CDC and 1 replay partition of 2 messages, contract sets 1, 2 (refused) and 3, 1 attempt, 1 crash, 2 epochs |
| `reference` | the sink is `semantics.py`, also when it plans over its own writes | 3 events of one row on 2 partitions of 2 messages, 2 crashes, 1 epoch |
| `contracts` | what the registry in use guarantees, and that it follows the files | 3 versions, 6 documents, 2 promotions, 1 kill, records of 3 fields with 4 values, 24 messages, `FairSpec` |
| `recovery` | requests against both threads of the driver and restarts | 2 requests to exit after a commit and 1 to exit now, 3 batches of which the second applies nothing, 1 other death, `FairSpec` |
| `monitor` | incidents against outages and restarts | 2 components, one of them the server of the control database, 4 changes of condition, 1 restart, `FairSpec` |
| `trace` | what a trace or a reading of the lag concludes while the job goes on | a row with 2 changes, a rejected record of another row and one without a readable key, 1 partition of 2 messages, 1 crash, 2 epochs, a tail of 1 record |
| `maintenance` | evidence and files beside the stream | 2 runners, 2 runs, 3 commits of the stream besides the rewrites, 4 files or 5 with one run begun, 1 tick of the clock with retentions of none |
| `poison`, `late`, `replay_crash`, `drift` | disagreements with the documents, below | as small as shows them |

Why the bounds are enough for the questions: the rules of a batch compare a record with its batch,
with its row in silver and with its row in bronze, and two events of a row produce all four
outcomes; the third message lets one of them come again after a batch that was interrupted. Two
tables show the order of MERGEs within the silver loop. Two attempts distinguish first and repeated
commits, and the second crash of `reference` interrupts the repetition of an interrupted batch. Two
epochs make batch ids collide. Three contract sets with the middle one refused cover a promotion
under the job's feet. Three events of one row are needed where a batch has a stale event beside
another one (`reference`). Three versions tell "compared with all earlier ones" from "with the last
one", and the documents hold a length to relax, a field to remove and define again, a decimal to
widen, a required field, a date-time format and a change of PII handling. Two promotions can
overwrite each other's version. In `recovery` two requests for the one slot overwrite each other,
and an exit now may fall between the steps of an exit after a commit; the batch without events lets
a request stay armed over one. In `trace` two changes of a row make one of them the newest, a crash
with a second epoch puts a batch number into two lineages, and a tail of one record evicts, with
another bucket beside it or the keyless record before it. In `maintenance` two runs overlap or
follow each other, the second of which may find the rewrite of the first; three commits of the
stream are one before both and two between or beside the rewrites, a single run may make two
rewrites, and with retentions of none a tick makes old what is old at all. In `monitor` four changes
are an outage of each component, with its end, and down, degraded and down again of one.
`CHECK_DEADLOCK FALSE` because the log and the counters are bounded: the system stops when all
messages are produced and stored, or all batches are committed. The monitor never stops.

### Properties

- `OneBronzeRowPerEvent`, `NothingLost`: effectively once. They hold together although
  the code only ever compares a batch with a time window of bronze; the first needs equal
  timestamps of all deliveries of an event, which `late` shows and `BronzeUnique` assumes.
- `SilverCoversBronze`, `SilverNeverGoesBack`, `KeepsPromise`: what a reader of the
  tables may rely on between commits.
- `PlanSurvivesOwnWrites`, `LabelsSurviveCrash`: planning is stable under the batch's own
  partial writes, which is why re-execution is harmless.
- `RecordMatchesBronze`, `RecordsAreRepeatable`, `WatermarkCacheFresh`: operational records agree with
  the data over crashes and epochs.
- `SettledMatchesSource`: the end state does not depend on the history of delivery.
- `ReplaysAreAnswered`, `ReplayedIsInBronze`, `ReplayAttemptsAreReplays`,
  `UninterruptedReplayResolves`, `DlqMovesForward` (a theorem only, as `SilverNeverGoesBack`): the
  DLQ protocol.
- `PlanMatchesReference`, `AppendsMatchReference`, `MergeMatchesReference`: the sink
  against `Semantics`, also in the middle of an interrupted batch.
- `ConvertibleRecordsAreStored`: progress, if no record carries a time that cannot be converted;
  `EveryRecordIsStored`, without that condition, is what `poison` violates.
- `EarlierRecordsStayValid`, `VerdictsKept`: what a reload means for records that were
  accepted; a record with a field that only newer versions define is excepted (see `drift`).
- `PiiHandlingAgrees`: records are projected with the fields of all versions, and not only the image that
  was judged. In an accepted record every field of both images is kept, hashed or dropped as each version
  that defines it says. (Its proof does not need that the record is accepted: one handling per field is
  what the comparison of versions gives.) `SilverHasColumns`: the columns are in the table.
  Both hold for `BACKWARD_TRANSITIVE` versions, which all contracts of the repository are; with
  `BACKWARD` a field may come back with another handling. In `MCContracts` `HashedNote` differs from
  `LongNote` in nothing else, and `KeyOnly` may come between them.
- `ReloadedInTheEnd`: if records keep coming, a folder that stays loadable is what the driver uses,
  whatever was written while it read. On idle topics a promoted set is not installed.
- `OneExitPerRequest`, `FiredBatchIsRepeated`, `ExitsAreAcknowledged`: what an operator may conclude
  from an acknowledgement, although both threads write the same file. The first two hold without
  exception. Of the third, that there is an acknowledgement file after an exit always holds; that it can
  be read and tells of the exit holds unless the request fired while it was still being acknowledged as
  armed (`contended`), see the disagreements.
- `RequestsAreTaken`, `BatchesAreCommitted`: the channel does not stop, and no set of requests makes
  the driver crash for ever.
- `OneOpenIncident`: the search for an open row is all that keeps a restart, or a component that goes
  down, degraded and down, from opening a second one; search and insert are two transactions.
- `CheckpointDoneIsCommitted`, `SparkDoneIsVisible`, `SettledTraceIsFinal`: what a trace concludes from
  readings of different moments. The second rests on the order of the commits and on that of the
  queries. The first and `NoLagMeansStored` except a job that starts on another checkpoint while the
  checkpoint is being read (`SameLineage`), since epoch, ids and offsets are read one by one.
- `NoLagMeansStored`: the two probes of the monitor are readings of Kafka and of the checkpoint, the
  older first.
- `IndexAgrees`: the two indexes of the tail, over evictions and reconnections, records without a key
  in the one and not in the other.
- `EvidenceIsTrue`, `NoFileMissing`: maintenance beside commits it does not wait for. The first is about the
  rewrite that a record names, and about the last one of a run that was alone.
- `IncidentsFollowStatus`, `LastingOutageIsRecorded`: the loop compares two cycles, and a failure in
  the middle of it, or a change during it, must neither lose a transition nor count one twice.

### Fairness

`FairSpec` assumes weak fairness of `Job`, the steps of the driver: Docker restarts it
(`restart: unless-stopped`), Spark triggers it every few seconds, and a batch runs to its end
unless the process dies. Nothing is assumed of the environment: producers, operators and
crashes may act or not. Crashes are finitely many, since a driver that dies in every batch
makes no progress; likewise a retry loop ends because `_with_retries` is bounded. In a
bounded log `Job` stays enabled only while there is something to consume, so weak fairness
is enough. A conversion that overflows raises in every attempt: that `Crash` is among
the fair steps and `MaxCrashes` does not bound it (`Overflows`).

In `Contracts`, `FairSpec` assumes the same of the driver's steps and nothing of a promotion, which
may stop anywhere, nor of `Arrive`. The step that compares fingerprints is enabled only while
records wait, since `_maybe_reload_contracts` is called in a batch and nowhere else; that they wait
again and again is therefore the premise of `ReloadedInTheEnd` (`[]<>due`). In `Recovery` each
thread of the driver is weakly fair on its own, since either runs on while the other waits, and so
is the restart; the API need not send anything and `Kill` need not happen. In `Monitor` the thread
is: it catches every exception and sleeps ten seconds.

### Disagreements with the documents

1. `late` (`sink.py:214`). ADR-0003 rule 5 says bronze appends only ids it does not have.
   The lookup is limited to the batch's range of timestamps and `event_id` does not
   contain the timestamp, so the same event with another timestamp is appended again. The
   Recovery Lab's late injection, made twice on a row that has not changed in between,
   does that. For records of Debezium the timestamp is that of the transaction and always
   the same.
2. `replay_crash` (`sink.py:397`). The replay runbook says that an accepted replay turns
   its row to `replayed`. If an attempt rejected the replay, died, and the repetition
   accepts it, the row stays open: its position was already stored. The cause is that contracts are
   reloaded at every attempt (`sink.py:432`). For the same reason ADR-0003 rule 8, that labels stay
   the same when a batch is run again, holds only while they do not change between the attempts: the
   records that count, and with them the labels, change, while bronze keeps those of the first attempt.
   `LabelsSurviveCrash` is checked under one contract set.
3. `drift` (`contracts.py:336`). ADR-0004 says each version accepts every record valid under
   all earlier ones, and `check_backward_compatible` that it enforces this. A field that only the
   newer version defines is not compared, but a record may have carried it before, when it was
   drift and accepted; if it breaks the new rule it is rejected from then on.
4. `poison` (`sink.py:222`). `decode_change_event` says that a poison-pill record "must end up in the
   DLQ, not crash the micro-batch" (`decode.py:89`). Any integer passes as `source.ts_ms`
   (`decode.py:138`), and as `ts_ms` of the envelope; one whose microseconds do not fit 64 bits makes
   `timestamp_millis` raise, in the plan or in the append. Spark repeats the batch with the same
   records, so nothing behind it is stored. Debezium sends none from a sound clock;
   nothing keeps another producer from it.

Six more are no run of their own:

- `control.py:78`. The acknowledgement of a request that fires while it is being acknowledged as armed may
  be published empty, or with two texts in it, and the driver exits; `recovery.py:214` skips a file it
  cannot read, so the operator sees none. `ExitsAreAcknowledged` without its condition fails in the
  `recovery` run for this reason.
- `maintenance.py:231` and line 9 of the DAG: a rewrite that changed content fails the run. If an attempt took
  effect and was reported as a conflict, `_execute_with_retries` (163-171, 207) makes another, and only
  the newest is examined: a row lost by the first goes unnoticed. `EvidenceIsTrue` says "last" for it.
- `main.py:34` says of an absent control database "start degraded; incidents are retried later". Its
  tables are created at start-up only, and an incident is tried only in the cycle in which the status
  changes (`monitor.py:87`): one that could not be written then never is, while `LastingOutageIsRecorded`
  holds for what the database can take. As it is on the PostgreSQL server, an outage of PostgreSQL is
  not recorded while it lasts.
- `replay_attempts` (`sink.py:349`). The runbook says it increments when a replay is rejected
  (`dlq-replay.md:41`). After the checkpoint was wiped a batch may hold a rejected record and its
  rejected replay; `_dlq_rows` keeps the one with the higher position, where partitions of different
  topics are compared, and if that is the record the replay is not counted. `ReplaysAreAnswered`
  without its first condition fails in the `dlq` run for this reason; `ReplaysAnswered` proves that
  a wiped checkpoint is the only one.
- `domain/trace.py:4` says of a stage that it is "failed" when the event was rejected. Line 156 says so
  only if the tail does not hold the record any more; before, it is shown as pending. And the note at
  line 153, that the commit marker is not written yet, is shown for ever for rows of an older epoch.
- `maintenance.py:3-6` and the DAG say that a rewrite that changed content fails the task. It does if
  the rewrite that is looked at is the run's own and the table had a snapshot before (see above).

## 4. Proofs

For every set of keys, events and partitions, any log bound, any contract history, any
number of crashes, attempts and epochs, under the named assumptions of `Sink`:

| Theorem | States |
|---|---|
| `SinkProofs!TypeCorrect` | `Spec => []TypeOK` |
| `SinkProofs!SilverCovers` | `Spec => []SilverCoversBronze` |
| `SinkProofs!SilverForward` | `Spec => SilverNeverGoesBack` |
| `SinkProofs!SinkImplementsPromise` | `Spec => KeepsPromise` |
| `SinkProofs!NoRecordLost` | `Spec => []NothingLost` |
| `SinkProofs!ReplayedInBronze` | `Spec => []ReplayedIsInBronze` |
| `SinkProofs!ReplaysAnswered` | `Spec => []ReplaysAreAnswered` |
| `SinkProofs!DlqForward` | `Spec => DlqMovesForward` |
| `SinkProofs!BronzeUnique` | `Spec => []OneBronzeRowPerEvent`, if deliveries of an event carry one timestamp (`StableTimestamps`) |
| `SinkProofs!AttemptsAreReplays` | `Spec => []ReplayAttemptsAreReplays`, if the partitions are finitely many |
| `SinkRepeats!WatermarkFresh` | `Spec => []WatermarkCacheFresh` |
| `SinkRepeats!SettledMatches` | `Spec => []SettledMatchesSource` |
| `SinkRepeats!PlanSurvives` | `SteadySpec => []PlanSurvivesOwnWrites` |
| `SinkRepeats!LabelsSurvive` | `SteadySpec => []LabelsSurviveCrash` |
| `SinkRepeats!RecordsMatch` | `SteadySpec => []RecordMatchesBronze` |
| `SinkRepeats!RecordsRepeat` | `SteadySpec => RecordsAreRepeatable` |
| `SinkRepeats!PlanMatches`, `AppendsMatch` | `SteadySpec => []PlanMatchesReference`, `SteadySpec => []AppendsMatchReference`, with `StableTimestamps` |
| `SinkRepeats!MergeMatches` | `SteadySpec => MergeMatchesReference`, with `StableTimestamps` |
| `SinkRepeats!UninterruptedResolves` | `KeyedSpec => []UninterruptedReplayResolves`, if `StaysAccepted` |

The hypotheses say what the code relies on and does not enforce:

- `StableTimestamps`: all deliveries of a change carry one timestamp. Debezium's do, it is that of the
  transaction; run `late` shows what does not.
- `SteadySpec` is `Spec` in which no contract set is promoted while the checkpoint has an unfinished
  batch (`Steady`); between batches promotions are free. A promotion in the middle lets the next
  attempt judge the records anew, and run `replay_crash` shows that this can happen.
- `KeyedSpec` is `Spec` in which the replays of a DLQ row are in one partition (`KeyedReplays`): they
  are produced with the key of the record they replay, and only one without a key may go anywhere.
  `StaysAccepted`: later contract sets accept what earlier ones accept, which
  `ContractProofs!UsedVersionsAccept` proves but for the fields of run `drift`.
- finitely many partitions where replays are counted or offsets summed (`AttemptsAreReplays`,
  `NoLagStored`): the cardinality of the records sent is compared.

For every set of fields, values and documents, any number of versions, promotions and kills, under
the named assumptions of `ContractRules` and `Contracts`:

| Theorem | States |
|---|---|
| `ContractProofs!CompatibleAccepts` | a compatible version accepts what the older one accepts, up to newly defined fields |
| `ContractProofs!TypeCorrect` | `Spec => []TypeOK` |
| `ContractProofs!UsedVersionsAccept` | `Spec => []EarlierRecordsStayValid` |
| `ContractProofs!ProjectionAgrees` | `Spec => []PiiHandlingAgrees` |
| `ContractProofs!ColumnsExist` | `Spec => []SilverHasColumns` |
| `ContractProofs!ReloadsKeepVerdicts` | `Spec => VerdictsKept` |

For the reader beside the job, with any number of polls, evictions, crashes and epochs between its
steps:

| Theorem | States |
|---|---|
| `TraceProofs!CheckpointDone` | `TraceSpec => []CheckpointDoneIsCommitted`, with `StableTimestamps` |
| `TraceProofs!SparkVisible` | `TraceSpec => []SparkDoneIsVisible`, if no event has LSN 0 |
| `TraceProofs!NoLagStored` | `TraceSpec => []NoLagMeansStored`, for finitely many partitions |
| `TraceProofs!SettledFinal` | `TraceSpec => []SettledTraceIsFinal`, with `StableTimestamps` and no LSN 0 |
| `TraceProofs!IndexFollows` | `TraceSpec => []IndexAgrees` |

The condition on LSNs is there because `domain/trace.py` 184 takes an LSN of 0 for an absent one;
PostgreSQL assigns none.

And for any requests, batches, components and runners, under the assumptions of `Recovery`,
`Monitor` and `Maintenance`:

| Theorem | States |
|---|---|
| `RecoveryProofs!TypeCorrect`, `MonitorProofs!TypeCorrect` | `Spec => []TypeOK` of `Recovery`, of `Monitor` |
| `RecoveryProofs!OneExit` | `Spec => []OneExitPerRequest` |
| `RecoveryProofs!FiredIsRepeated` | `Spec => []FiredBatchIsRepeated` |
| `RecoveryProofs!AcknowledgedFirst` | `Spec => []ExitsAreAcknowledged` |
| `MonitorProofs!OneOpen` | `Spec => []OneOpenIncident` |
| `MonitorProofs!Follows` | `Spec => []IncidentsFollowStatus` |
| `MaintenanceProofs!TypeCorrect` | `Spec => []TypeInv`, which this module defines |
| `MaintenanceProofs!FilesStay` | `Spec => []NoFileMissing` |
| `MaintenanceProofs!EvidenceHolds` | `Spec => []EvidenceIsTrue` |

*Contracts.* `TypeOK` says that what is about to be installed loads. `InUse` adds that the registry
in use evolves compatibly and has its columns; columns are never removed, so a crash between
`EnsureTables` and `Install` is harmless. `CompatibleAccepts` goes keyword by keyword; with
transitive versions any two are compared, hence `UsedVersionsAccept` and one handling per field
(`OneHandling`), which an image shows in its projection (`ProjectedAsHandled`).
`ReloadsKeepVerdicts` needs no compatibility: added versions are higher, and the earliest one that
accepts wins.

*Type correctness* of `Sink` is not inductive alone: `At(x)` must denote a message, so `LogInv` adds that
planned offsets lie within the log (a log never shrinks), that DLQ ids and replay headers point
to records, and that a batch is planned while one is processed.

*Silver and bronze.* `SilverCoversBronze` fails if bronze could receive an event that silver
does not reflect. `PlanInv` says why it cannot: every event that will be appended is applied,
superseded by an applied or stale one of its row, or stale, and stale events are below the
baseline. The baseline of a repeated batch is `prev` and not what the row shows, hence
`PrevBelow`. Applied events are shown once the loop has passed their table. The MERGE guard
alone gives `SilverForward`. Both together are the step simulation of `Lakehouse`: a MERGE is
`Advance`, an append is `Enter`, everything else stutters.

*Delivery.* `NothingLost` follows from what is behind the program counter: from stage `dlq` on
all valid records are in bronze (`PlannedInv`: the plan covers them, and calls duplicate only
what bronze holds), from stage `record` on all rejected ones are in the DLQ (`WrittenInv`).
`ReplayInv` is needed because a replay may be rejected without being inserted: its row must
already exist. Tables only grow, so what was committed earlier stays.

*DLQ.* `OriginInv` says that a replay carries the record of the row it answers, so a replay that is
accepted puts the change of its row into bronze before the DLQ is merged: `ReplayedIsInBronze`.
`DlqForward` is one step, since an answer must be newer than the last one (`MergedDlqRows`).
For `ReplaysAreAnswered` the batch must not hold the record beside its replay. `Ordered` says that it
does not: the record of a DLQ row is below the planned offsets, and a replay within them answers
a record below the start of the running batch. `Trigger` keeps it because what is in the DLQ is
below the start of the new batch, and a new lineage breaks it, whence `LineageInv` and the condition
on epochs. `AnsweredInv` then says that the replays of the batch are answered from
stage `record` on, and the committed ones always; what is answered stays so (`AnsweredKept`).

*Maintenance.* `FileInv` says where a file can be: one that is being written is stored, in no snapshot
and too young for an orphan; one that is about to be deleted is neither being written nor in a snapshot
that can be read. `DraftInv` keeps the writers' files apart. A commit turns one of the first kind into
a file in use, so none of the second ever becomes one. For the evidence, the content of a snapshot never
changes, hence what was true of it stays true, and a run that was alone has found its own rewrite.

*Uniqueness* needs that the anti-join sees every earlier row of an event, that is, that the row's
timestamp lies in the window; `StampInv` carries the timestamps of the log through the plan into
bronze.

*Control channel.* A request moves one way: from its file to the control thread, from there to the
slot, from there to the batch thread, and then it has made the driver exit. `OnceInv` says that it is
never in two of these places and, after the exit, in none. `FiredInv` holds the same of temporary
files as of acknowledgements, since either thread may publish the other's text, and adds that the
named batch cannot be committed with one attempt: after the first attempt its thread can only exit.
`ActionInv`, `WriterInv` and `ToldInv` are about who has opened which file and what a reader finds in
it: outside a contest one thread writes alone, so what it publishes is its own text; in a contest a
rename that finds no file was preceded by one that found it, so a file is there.

*Monitor.* `LoopInv` says what is true at a step of the loop: the results are statuses of this cycle,
and where an incident is about to be inserted none is open, because nobody else writes. `FollowInv`
is `IncidentsFollowStatus` for every moment: a component that the loop has passed agrees with the
results, one that it has not passed agrees with the cycle before, so a step of the loop turns the one
into the other, and publishing turns "all passed" into "none passed" (`LoopStep`).

*Repeated batches.* Four invariants about the batch that may be run again. `BatchesInv` (`ProcessInv`,
`EpochInv`, `CacheInv`) says that whatever names a batch of the current epoch names one that its
checkpoint has planned, since a new epoch is a new number, and that the cached watermark is the one of
the batch records. `RepeatInv` then compares the running attempt with a process that would start now:
`Again` is `Sink` with the context of such a process, which reads contracts, checkpoint and tables only.
As long as the batch is unfinished, what it has written to bronze and silver is as `Again` plans it
(`OwnRowsInv`), the attempt in progress has the same plan (`SamePlanInv`), and past the append every row
is there, with a record that counts them (`DoneInv`). This is inductive because planning looks past the
batch's own rows: those of bronze count as new, and a silver row of the batch shows its predecessor in
`prev`. From it follow `PlanSurvives`, `LabelsSurvive`, `RecordsMatch` and `RecordsRepeat`.

*The settled job.* `SourceInv` says that the tables hold nothing but acceptable changes and, with one
contract set, that the DLQ holds none that it accepts; `NothingLost` is the other direction.

*Reference.* `Semantics` searches all of bronze for an event, the sink a window of timestamps; the
watermark of `Semantics` counts the candidates, that of the sink every valid record, duplicates
included. `UniqueInv` settles the first, since rows of an event have the timestamp of its records, and
so lie in the window of any batch that holds one (`PriorIsPrior`). `MarkInv` settles the second: the
record of a batch comes after its rows and a later record is never lower, so an event of an earlier
batch is below the watermark already and counting it again changes nothing. A MERGE per table is
`apply_plan` restricted to the table, which the loop over the tables carries to all of silver.

*Replays.* `ResolveInv` assumes that nothing has crashed. Then a batch is planned once, the offsets only
advance, and the registry in use is not newer than the folder; the replay that was counted last is of
a committed batch or of this one (`LastCounted`), so a replay of the running batch is newer and its
MERGE takes effect. It cannot be reopened, since any later replay of the row has the same record, which
the contracts in use accept (`Resolved`).

*Trace.* `TraceInv` is the type of what has been read. `CheckpointInv` carries the readings of epoch,
ids and offsets from one to the next: until another lineage begins (`SameLineage`), what was read is of
the epoch of the checkpoint and every batch up to the newest marker was committed, for which `finished`
keeps the history. `LedgerInv` says that silver, which is read last, reflects the ledger read before it;
this is `SilverCoversBronze` at the first reading and `SilverNeverGoesBack` after it. `OneRowInv` is
`BronzeUnique` in the snapshot. `LagInv` ties offsets that were read to `AllStored`, that nothing below
the end of a committed batch is missing. `SettledFinal` needs that every bronze row of the current epoch
has a batch record unless its batch is unfinished (`RecordedInv`), and that a trace of a settled
stream reads what still holds (`QuietInv`). `IndexInv` says of the tail that a record that is polled
is later than all indexed ones of its partition, that the bucket of a key is the index without the
other keys, that a record without a key is in none, and that the oldest record, if it has a key, is
therefore the first of its bucket, the one that the eviction removes.

Every safety property of a passing run is a theorem. Left to TLC alone are the liveness properties
`ConvertibleRecordsAreStored`, `ReloadedInTheEnd`, `RequestsAreTaken`, `BatchesAreCommitted` and
`LastingOutageIsRecorded`: they rest on fairness, and `ENABLED` is beyond this prover. The runs that
expect a violation are not proved about either. Of the operators, no module declares one RECURSIVE.

## 5. Not modelled

- The types of the silver columns and the namespaces, `_latest_snapshot`, `_publish` and the
  metrics: nothing the sink reads back.
- Acknowledged requests that never fire: an armed request is overwritten by the next one and
  forgotten at a restart, which `Recovery` reaches and no document excludes.
- The incidents that the Recovery Lab opens for its own actions (the monitor does not watch
  `recovery-lab`, so it never resolves them), the audit and mutation logs.
- Integers of the envelope beyond 64 bits, which the `bigint` columns turn into null (Debezium's do not
  exceed them), and timestamps before 1970.
- Orphans deleted in part when `remove_orphan_files` fails half-way, and the number of attempts of
  `_execute_with_retries`, which only bounds how often its steps repeat.
- A DLQ MERGE that is retried is in no run (`dlq` has one attempt per write) but in the theorems.
- Two promotions at a time, and edits of the contract folder by hand.
- `Broadcaster` (50 subscribers, queues of 500 frames that drop what does not fit) and the arrival rate:
  clients poll, so nothing relies on a frame.
- Files of the checkpoint that are read while Spark writes them.
- Commits that become visible only after a retry has read the table.
- Two drivers on one checkpoint: Spark's checkpoint locking is not part of the code.
- The components marked `not_modelled` in `PROJECT.json`, until the plan reaches them.

## 6. Plan

Done: `Sink`, `Lakehouse`, `Semantics`, `SinkReference`, `ContractRules`, `Decode`, `Contracts`,
`Recovery`, `Monitor`, `Trace`, `Maintenance`, with their runs and theorems. Left, in this order:

1. Column types under widening; `Status` of `Sink` derived from `Decode`, where it is a parameter of
   the record.
2. `ApiContext`: cache, rate limiter and contract reload under threads.
