------------------------------- MODULE Sink --------------------------------
(***************************************************************************)
(* The Spark job that turns Kafka micro-batches into Iceberg tables: the   *)
(* foreachBatch sink of spark/lakeflow_stream/sink.py inside the query of  *)
(* spark/lakeflow_stream/job.py.                                           *)
(*                                                                         *)
(* One driver process runs one batch at a time.  Its checkpoint directory  *)
(* holds the planned offsets of every batch (written before the batch      *)
(* runs) and the number of committed batches (written after it); its four  *)
(* Iceberg tables are committed one after the other, so a crash may leave  *)
(* any prefix of a batch's writes behind and Spark then runs the same      *)
(* batch again.  A commit may also fail with an optimistic conflict, or    *)
(* with an unknown outcome after it took effect, and is then retried       *)
(* inside the batch.                                                       *)
(*                                                                         *)
(* Kafka records are reduced to what the sink tells apart: the change      *)
(* event they carry, its source timestamp, the contract versions that      *)
(* accept it and the replay header.  Iceberg, Kafka and Spark's own        *)
(* bookkeeping are external and modelled from how the job uses them.       *)
(***************************************************************************)
EXTENDS Integers, Sequences, FiniteSets, FiniteSetsExt

CONSTANTS
    Key,          \* primary keys, over all source tables
    Tables,       \* number of contracts; tables are 1..Tables in registry order
    TableOf,      \* [Key -> 1..Tables]
    Event,        \* change events, by event_id
    NoEvent,      \* a silver row that does not exist
    KeyOf,        \* [Event -> Key]
    Lsn,          \* [Event -> 0..MaxLong]: source.lsn
    Partition,    \* all topic-partitions, numbered by (topic, partition)
    Replays,      \* the topic-partitions of the DLQ replay topic
    Number,       \* [Partition -> Nat]: the partition number within the topic
    Body,         \* what can be produced (see BodyAssumption)
    Versions,     \* contract sets 1..Versions are deployed in this order
    Loadable,     \* those load_registry accepts
    Lateness,     \* allowed_lateness_ms
    MaxLong,      \* largest LSN or timestamp (2^63 - 1 in the code)
    MaxMillis,    \* largest timestamp that timestamp_millis converts (MaxLong / 1000)
    MaxTries,     \* attempts of _with_retries (5 in the code)
    MaxOffset,    \* bound: messages per topic-partition
    MaxCrashes,   \* bound: crashes of the driver
    MaxEpochs     \* bound: checkpoint lineages

ASSUME EventAssumption ==
    /\ KeyOf \in [Event -> Key]
    /\ MaxLong \in Nat /\ MaxMillis \in 0..MaxLong
    /\ Lsn \in [Event -> 0..MaxLong]
    /\ NoEvent \notin Event

\* Row locks serialise the changes of a row, so they have distinct LSNs
\* (ADR-0003, "Consequences").
ASSUME LsnAssumption ==
    \A e, f \in Event : KeyOf[e] = KeyOf[f] /\ Lsn[e] = Lsn[f] => e = f

ASSUME TableAssumption ==
    /\ Tables \in Nat \ {0}
    /\ TableOf \in [Key -> 1..Tables]

\* A change carries an event and the contract versions under which it
\* decodes; a malformed record is accepted by none.  A gap is an offset
\* that holds no record (compaction, control records).  ts is the time of the
\* change in the source, sent that of the envelope (0 if it has none).
ASSUME BodyAssumption ==
    Body \subseteq [kind : {"change", "tombstone", "gap"}, event : Event,
                    ts : 0..MaxLong, sent : 0..MaxLong,
                    accepted : SUBSET (1..Versions)]

ASSUME LogAssumption ==
    /\ Partition \subseteq Nat \ {0}
    /\ Replays \subseteq Partition
    /\ Number \in [Partition -> Nat]

ASSUME BoundAssumption ==
    /\ Versions \in Nat \ {0} /\ Loadable \subseteq 1..Versions /\ 1 \in Loadable
    /\ Lateness \in Nat
    /\ MaxTries \in Nat \ {0} /\ MaxOffset \in Nat
    /\ MaxCrashes \in Nat /\ MaxEpochs \in Nat

VARIABLES
    \* outside the job
    kafka,        \* [Partition -> Seq(Message)]
    contracts,    \* the contract set on disk
    \* the checkpoint directory
    epochFile,    \* stream-epoch: the epoch, or NoEpoch
    metadata,     \* query/metadata exists
    offsets,      \* query/offsets: the end offsets of batch 0, 1, ...
    commits,      \* query/commits: how many batches are committed
    \* the Iceberg tables
    silver,       \* [Key -> SilverRow]
    bronze,       \* a set of BronzeRow
    snapshots,    \* commits that appended rows to bronze
    dlq,          \* DLQ rows by dlq_id, the Kafka coordinates of the record
    batches,      \* batch records by <<stream_epoch, batch_id>>
    \* the driver process
    stage,        \* what the driver does next
    ctx,          \* SinkContext: registry, epoch and the watermark cache
    planned,      \* the plan of the running batch: PlanRow by event_id
    newMark,      \* its watermark_after
    table,        \* next table of the silver loop
    tries,        \* attempts of the write under way
    \* counters
    epochs,       \* stream epochs generated so far
    crashes       \* crashes so far

external   == <<kafka, contracts>>
checkpoint == <<epochFile, metadata, offsets, commits>>
lake       == <<silver, bronze, snapshots, dlq, batches>>
batch      == <<planned, newMark, table, tries>>
process    == <<stage, ctx, batch>>
vars       == <<external, checkpoint, lake, process, epochs, crashes>>

-----------------------------------------------------------------------------
(* Data                                                                    *)

NoEpoch    == 0
NoLsn      == -1          \* NULL: older than every LSN
NoPosition == <<0, 0>>    \* NULL: no replay header, no replay seen yet
Outcome    == {"applied", "superseded", "stale", "duplicate"}
Stage      == {"down", "booted", "idle", "begin", "plan",
               "silver", "bronze", "dlq", "record", "commit"}

\* Kafka coordinates; the first offset of a partition is 1.
Coordinates == Partition \X (1..MaxOffset)
Message     == [body : Body, replay_of : Coordinates \cup {NoPosition}]

\* A silver row by the change it shows.  Its data and its is_deleted flag
\* are those of the event; a deleted row stays, as a tombstone.
SilverRow == [event : Event \cup {NoEvent}, prev : Nat \cup {NoLsn},
              epoch : Nat, batch : Nat]
NoRow     == [event |-> NoEvent, prev |-> NoLsn, epoch |-> NoEpoch, batch |-> 0]
LsnShown(e) == IF e = NoEvent THEN NoLsn ELSE Lsn[e]

\* snapshot is that of the commit that appended the row.
BronzeRow == [event : Event, ts : Nat, late : BOOLEAN, outcome : Outcome,
              replay_of : Coordinates \cup {NoPosition},
              epoch : Nat, batch : Nat, snapshot : Nat]

PlanRow   == [outcome : Outcome, late : BOOLEAN, ts : Nat,
              replay_of : Coordinates \cup {NoPosition}]

DlqRow    == [status : {"open", "replayed"}, attempts : Nat,
              last : Nat \X Nat]

\* What the record counts is kept as the sets counted: input_rows (with their
\* kafka_offsets), dlq_rows, and the events per outcome.
BatchRow  == [attempts : Nat, watermark : Nat, rows : SUBSET Coordinates,
              rejected : SUBSET Coordinates, outcomes : [Outcome -> SUBSET Event]]

\* Replay positions compare as "%05d:%020d" strings: partition, then offset.
After(a, b) == \/ a[1] > b[1]
               \/ a[1] = b[1] /\ a[2] > b[2]

-----------------------------------------------------------------------------
(* The batch handed to process_batch                                       *)

Batch   == Len(offsets) - 1                       \* batch_id
BatchId == <<ctx.epoch, Batch>>

To(p)   == offsets[Len(offsets)][p]
From(p) == IF Len(offsets) = 1 THEN 0 ELSE offsets[Len(offsets) - 1][p]

At(x)      == kafka[x[1]][x[2]]
EventAt(x) == At(x).body.event
TsAt(x)    == At(x).body.ts
SentAt(x)  == At(x).body.sent

Rows == {x \in Coordinates : /\ From(x[1]) < x[2] /\ x[2] <= To(x[1])
                             /\ At(x).body.kind # "gap"}

\* The decoder's verdict under contract set v.
Status(x, v) == IF At(x).body.kind # "change" THEN At(x).body.kind
                ELSE IF v \in At(x).body.accepted THEN "valid" ELSE "dlq"

Valid    == {x \in Rows : Status(x, ctx.registry) = "valid"}
Rejected == {x \in Rows : Status(x, ctx.registry) = "dlq"}

\* In-batch duplicates keep the first occurrence.
Earlier(x, y) == \/ x[1] < y[1]
                 \/ x[1] = y[1] /\ x[2] < y[2]
Unique  == {EventAt(x) : x \in Valid}
First(e) == CHOOSE x \in Valid :
              /\ EventAt(x) = e
              /\ \A y \in Valid : EventAt(y) = e => ~Earlier(y, x)

-----------------------------------------------------------------------------
(* The watermark before and after the batch                                *)

NoBatch == -2    \* watermark_batch of a new process

RecordedWatermark ==
    LET earlier == {n \in 0..(Batch - 1) : <<ctx.epoch, n>> \in DOMAIN batches}
    IN  IF earlier = {} THEN 0 ELSE batches[<<ctx.epoch, Max(earlier)>>].watermark

\* The cached value is that of the batch just before, else the table is read.
WatermarkBefore == IF ctx.watermarkBatch = Batch - 1 THEN ctx.watermark
                   ELSE RecordedWatermark

\* Every valid row counts, duplicates included.
WatermarkAfter ==
    Max({WatermarkBefore} \cup {TsAt(x) - Lateness : x \in Valid})

-----------------------------------------------------------------------------
(* The plan: an outcome for every unique valid event                       *)

\* Faulty: batch_id alone identifies a batch.
Own_AnyEpoch(row) == row.batch = Batch

Own(row) == row.epoch = ctx.epoch /\ row.batch = Batch

\* Bronze is searched only between the batch's first and last timestamps.
InWindow(row) == \E x, y \in Valid : TsAt(x) <= row.ts /\ row.ts <= TsAt(y)
BronzeLookup  == {row \in bronze : InWindow(row)}

\* Faulty: the rows of a crashed attempt count as duplicates.
IsPriorDup_OwnToo(e) == \E row \in BronzeLookup : row.event = e

\* The code takes the first row of the event; any of them would do.
IsPriorDup(e) == \E row \in BronzeLookup : row.event = e /\ ~Own(row)
Candidates    == {e \in Unique : ~IsPriorDup(e)}

\* Faulty: a second attempt takes the row the first one wrote for its baseline.
Baseline_Shown(k) == LsnShown(silver[k].event)

\* The LSN of the row before this batch, also if an attempt already wrote it.
Baseline(k) == IF Own(silver[k]) THEN silver[k].prev
               ELSE LsnShown(silver[k].event)

\* Faulty: rows are ranked by ascending LSN.
IsLatest_Ascending(e) ==
    \A f \in Candidates : KeyOf[f] = KeyOf[e] => Lsn[e] <= Lsn[f]

IsLatest(e) == \A f \in Candidates : KeyOf[f] = KeyOf[e] => Lsn[f] <= Lsn[e]

\* Faulty: the rank in the batch is looked at before the baseline.
OutcomeOf_RankFirst(e) ==
    IF e \notin Candidates THEN "duplicate"
    ELSE IF ~IsLatest(e) THEN "superseded"
    ELSE IF Lsn[e] <= Baseline(KeyOf[e]) THEN "stale" ELSE "applied"

OutcomeOf(e) ==
    IF e \notin Candidates THEN "duplicate"
    ELSE IF Lsn[e] <= Baseline(KeyOf[e]) THEN "stale"
    ELSE IF IsLatest(e) THEN "applied" ELSE "superseded"

Plan == [e \in Unique |-> [outcome |-> OutcomeOf(e),
                           late    |-> TsAt(First(e)) < WatermarkBefore,
                           ts      |-> TsAt(First(e)),
                           replay_of |-> At(First(e)).replay_of]]

Planned(outcome) == {e \in DOMAIN planned : planned[e].outcome = outcome}

\* timestamp_millis raises for what has no microseconds in 64 bits.  It is asked
\* for all valid rows by the plan, and for the rows of bronze by their append.
Overflows ==
    \/ stage = "plan" /\ \E x \in Valid : TsAt(x) > MaxMillis
    \/ /\ stage = "bronze"
       /\ \E e \in DOMAIN planned \ Planned("duplicate") : SentAt(First(e)) > MaxMillis

-----------------------------------------------------------------------------
(* What the four writes leave in the tables                                *)


\* Faulty: the MERGE has no LSN guard.
Updates_Unguarded(t, k) == {e \in Planned("applied") : TableOf[k] = t /\ KeyOf[e] = k}
\* MERGE INTO silver of table t, guarded by s._source_lsn > t._source_lsn.
Updates(t, k) == {e \in Planned("applied") : /\ TableOf[k] = t /\ KeyOf[e] = k
                                             /\ Lsn[e] > LsnShown(silver[k].event)}
\* Faulty: a MERGE leaves the previous LSN of the row as it was.
MergedSilver_PrevKept(t) ==
    [k \in Key |-> IF Updates(t, k) = {} THEN silver[k]
                   ELSE [event |-> CHOOSE e \in Updates(t, k) : TRUE,
                         prev  |-> silver[k].prev,
                         epoch |-> ctx.epoch, batch |-> Batch]]

MergedSilver(t) ==
    [k \in Key |-> IF Updates(t, k) = {} THEN silver[k]
                   ELSE [event |-> CHOOSE e \in Updates(t, k) : TRUE,
                         prev  |-> LsnShown(silver[k].event),
                         epoch |-> ctx.epoch, batch |-> Batch]]

\* Faulty: no anti-join; bronze without the stale.
Fresh_NoAntiJoin == DOMAIN planned \ Planned("duplicate")
Fresh_NotStale == {e \in Planned("applied") \cup Planned("superseded") :
                     \A row \in BronzeLookup : row.event # e}

\* The anti-join is recomputed on every attempt of the append.
Fresh == {e \in DOMAIN planned \ Planned("duplicate") :
            \A row \in BronzeLookup : row.event # e}
BronzeRows ==
    {[event |-> e, ts |-> planned[e].ts, late |-> planned[e].late,
      outcome |-> planned[e].outcome, replay_of |-> planned[e].replay_of,
      epoch |-> ctx.epoch, batch |-> Batch, snapshot |-> snapshots + 1] : e \in Fresh}

\* Rejected records, and valid replays, which resolve the row they answer.
IsReplay(x) == At(x).replay_of # NoPosition
\* Faulty: an accepted replay is not reported to the DLQ.
DlqInput_Rejected == Rejected

DlqInput == Rejected \cup {x \in Valid : IsReplay(x)}
DlqId(x) == IF IsReplay(x) THEN At(x).replay_of ELSE x
DlqIds   == {DlqId(x) : x \in DlqInput}
ReplayPosition(x) == <<Number[x[1]], x[2]>>

\* Faulty: of several replays of a row the oldest counts.
DlqSources_Oldest == {f \in [DlqIds -> DlqInput] : \A d \in DlqIds :
                        /\ DlqId(f[d]) = d
                        /\ \A x \in DlqInput : DlqId(x) = d =>
                             ~After(ReplayPosition(f[d]), ReplayPosition(x))}

\* One input row per dlq_id, one of those with the newest position.
DlqSources == {f \in [DlqIds -> DlqInput] : \A d \in DlqIds :
                 /\ DlqId(f[d]) = d
                 /\ \A x \in DlqInput : DlqId(x) = d =>
                      ~After(ReplayPosition(x), ReplayPosition(f[d]))}

\* Faulty: a replay that was counted counts again.
Answers_Again(d, src) == /\ d \in DOMAIN src /\ IsReplay(src[d])
                         /\ ~After(dlq[d].last, ReplayPosition(src[d]))

Answers(d, src) == /\ d \in DOMAIN src /\ IsReplay(src[d])
                   /\ After(ReplayPosition(src[d]), dlq[d].last)

\* Faulty: a replay resolves its row whether or not it is accepted.
StatusAfter_Always(x) == "replayed"

StatusAfter(x) == IF x \in Rejected THEN "open" ELSE "replayed"
MergedDlq(src) ==
    LET inserted == {d \in DOMAIN src : ~IsReplay(src[d])}
    IN  [d \in DOMAIN dlq \cup inserted |->
           IF d \notin DOMAIN dlq
             THEN [status |-> "open", attempts |-> 0, last |-> NoPosition]
           ELSE IF Answers(d, src)
             THEN [status   |-> StatusAfter(src[d]),
                   attempts |-> dlq[d].attempts + 1,
                   last     |-> ReplayPosition(src[d])]
           ELSE dlq[d]]

\* Faulty: the watermark before the batch is recorded.
MergedBatches_MarkBefore ==
    LET row == [attempts |-> 1, watermark |-> WatermarkBefore, rows |-> Rows,
                rejected |-> Rejected, outcomes |-> [o \in Outcome |-> Planned(o)]]
    IN  [b \in DOMAIN batches \cup {BatchId} |->
           IF b = BatchId THEN row ELSE batches[b]]

\* WHEN MATCHED THEN UPDATE SET attempts = t.attempts + 1, ...
MergedBatches ==
    LET seen == IF BatchId \in DOMAIN batches THEN batches[BatchId].attempts ELSE 0
        row  == [attempts |-> seen + 1, watermark |-> newMark, rows |-> Rows,
                 rejected |-> Rejected, outcomes |-> [o \in Outcome |-> Planned(o)]]
    IN  [b \in DOMAIN batches \cup {BatchId} |->
           IF b = BatchId THEN row ELSE batches[b]]

-----------------------------------------------------------------------------
(* Initial state                                                           *)

NoContext == [registry |-> 0, epoch |-> NoEpoch, watermark |-> 0,
              watermarkBatch |-> NoBatch]
NoPlan == [e \in {} |-> 0]

Init ==
    /\ kafka = [p \in Partition |-> <<>>] /\ contracts = 1
    /\ epochFile = NoEpoch /\ metadata = FALSE /\ offsets = <<>> /\ commits = 0
    /\ silver = [k \in Key |-> NoRow] /\ bronze = {} /\ snapshots = 0
    /\ dlq = [d \in {} |-> 0] /\ batches = [b \in {} |-> 0]
    /\ stage = "down" /\ ctx = NoContext
    /\ planned = NoPlan /\ newMark = 0 /\ table = 1 /\ tries = 1
    /\ epochs = 0 /\ crashes = 0

-----------------------------------------------------------------------------
(* The world around the job                                                *)

AppendTo(p, message) ==
    /\ Len(kafka[p]) < MaxOffset
    /\ kafka' = [kafka EXCEPT ![p] = Append(@, message)]

\* Debezium, or an injection of the Recovery Lab, writes to a CDC topic.
Produce(p, b) ==
    /\ AppendTo(p, [body |-> b, replay_of |-> NoPosition])
    /\ UNCHANGED <<contracts, checkpoint, lake, process, epochs, crashes>>

\* The API reproduces the raw record of a DLQ row that was open when Trino was
\* asked.  Every row is open at first and a request may take any time, so the
\* row may have been resolved since.
Replay(p, d) ==
    /\ AppendTo(p, [body |-> At(d).body, replay_of |-> d])
    /\ UNCHANGED <<contracts, checkpoint, lake, process, epochs, crashes>>

\* lakeflowctl promotes the next contract set.
Deploy ==
    /\ contracts < Versions
    /\ contracts' = contracts + 1
    /\ UNCHANGED <<kafka, checkpoint, lake, process, epochs, crashes>>

\* An operator removes the query's state, with or without the epoch file.
WipeCheckpoint ==
    /\ stage = "down" /\ metadata /\ epochs < MaxEpochs
    /\ metadata' = FALSE /\ offsets' = <<>> /\ commits' = 0
    /\ epochFile' \in {epochFile, NoEpoch}
    /\ UNCHANGED <<external, lake, process, epochs, crashes>>

-----------------------------------------------------------------------------
(* The driver: start-up and batch scheduling                               *)

\* Faulty: the epoch outlives the query it belongs to.
EpochKept_FileOnly == epochFile # NoEpoch

\* ensure_epoch keeps the epoch only with the query it belongs to.
EpochKept == epochFile # NoEpoch /\ metadata

\* main: load the contracts (the job does not start without them), then
\* ensure_epoch.
EnsureEpoch ==
    /\ stage = "down" /\ contracts \in Loadable
    /\ epochs' = IF EpochKept THEN epochs ELSE epochs + 1
    /\ epochFile' = IF EpochKept THEN epochFile ELSE epochs + 1
    /\ ctx' = [NoContext EXCEPT !.registry = contracts, !.epoch = epochFile']
    /\ stage' = "booted"
    /\ UNCHANGED <<external, metadata, offsets, commits, lake, batch, crashes>>

\* writeStream.start(): Spark creates the query's metadata on first use.
StartQuery ==
    /\ stage = "booted"
    /\ metadata' = TRUE
    /\ stage' = "idle"
    /\ UNCHANGED <<external, epochFile, offsets, commits, lake, ctx, batch,
                   epochs, crashes>>

Start(p) == IF offsets = <<>> THEN 0 ELSE offsets[Len(offsets)][p]

\* Spark plans a batch over some of the new messages: offsets/N is written.
Trigger ==
    /\ stage = "idle" /\ Len(offsets) = commits
    /\ \E to \in [Partition -> 0..MaxOffset] :
        /\ \A p \in Partition : Start(p) <= to[p] /\ to[p] <= Len(kafka[p])
        /\ \E p \in Partition : Start(p) < to[p]
        /\ offsets' = Append(offsets, to)
    /\ stage' = "begin"
    /\ UNCHANGED <<external, epochFile, metadata, commits, lake, ctx, batch,
                   epochs, crashes>>

\* After a restart Spark runs the batch that has offsets/N but no commits/N.
Resume ==
    /\ stage = "idle" /\ Len(offsets) = commits + 1
    /\ stage' = "begin"
    /\ UNCHANGED <<external, checkpoint, lake, ctx, batch, epochs, crashes>>

\* commits/N is written once process_batch has returned.
CommitBatch ==
    /\ stage = "commit"
    /\ commits' = Len(offsets)
    /\ stage' = "idle"
    /\ planned' = NoPlan /\ newMark' = 0
    /\ UNCHANGED <<external, epochFile, metadata, offsets, lake, ctx, table,
                   tries, epochs, crashes>>

\* The process dies: kill -9, the control channel's os._exit, or an exception
\* of process_batch: a write that failed MaxTries times, or for good, or a
\* conversion that overflows, in this attempt as in every other.
Crash ==
    /\ stage # "down" /\ (crashes < MaxCrashes \/ Overflows)
    /\ crashes' = IF crashes <= MaxCrashes THEN crashes + 1 ELSE crashes
    /\ stage' = "down" /\ ctx' = NoContext
    /\ planned' = NoPlan /\ newMark' = 0 /\ table' = 1 /\ tries' = 1
    /\ UNCHANGED <<external, checkpoint, lake, epochs>>

-----------------------------------------------------------------------------
(* process_batch                                                           *)

\* Faulty: a batch without a valid record returns at once.
BeginBatch_ValidOnly ==
    /\ stage = "begin"
    /\ ctx' = [ctx EXCEPT !.registry = IF contracts \in Loadable THEN contracts ELSE @]
    /\ stage' = IF \E x \in Rows : Status(x, ctx'.registry) = "valid"
                  THEN "plan" ELSE "commit"
    /\ UNCHANGED <<external, checkpoint, lake, batch, epochs, crashes>>

\* Faulty: the minimum of no timestamps raises in a batch without records.
BeginBatch_EmptyRaises ==
    /\ stage = "begin"
    /\ ctx' = IF Rows = {} THEN NoContext
              ELSE [ctx EXCEPT !.registry = IF contracts \in Loadable THEN contracts ELSE @]
    /\ stage' = IF Rows = {} THEN "down" ELSE "plan"
    /\ UNCHANGED <<external, checkpoint, lake, batch, epochs, crashes>>

\* Contracts are hot-reloaded, an unloadable set keeps the previous one; a
\* batch without records returns at once and leaves no batch record.
BeginBatch ==
    /\ stage = "begin"
    /\ ctx' = [ctx EXCEPT !.registry = IF contracts \in Loadable THEN contracts ELSE @]
    /\ stage' = IF Rows = {} THEN "commit" ELSE "plan"
    /\ UNCHANGED <<external, checkpoint, lake, batch, epochs, crashes>>

\* Without a valid row the silver and bronze writes are skipped.
PlanBatch ==
    /\ stage = "plan" /\ ~Overflows
    /\ planned' = Plan /\ newMark' = WatermarkAfter
    /\ stage' = IF Valid = {} THEN "dlq" ELSE "silver"
    /\ table' = 1
    /\ UNCHANGED <<external, checkpoint, lake, ctx, tries, epochs, crashes>>

\* _with_retries.  The write is done; or it raised a retriable exception, and
\* had taken effect (CommitStateUnknownException) or not, and is tried again.
Done    == tries' = 1
\* Faulty: one attempt too many.
Retried_Once == tries <= MaxTries /\ tries' = tries + 1

Retried == tries < MaxTries /\ tries' = tries + 1

\* The loop over the contracts; a table with nothing to apply is not written.
MergeSilver ==
    /\ stage = "silver"
    /\ \/ /\ \A e \in Planned("applied") : TableOf[KeyOf[e]] # table
          /\ Done /\ UNCHANGED silver
       \/ /\ \E e \in Planned("applied") : TableOf[KeyOf[e]] = table
          /\ \/ Done /\ silver' = MergedSilver(table)
             \/ Retried /\ silver' \in {silver, MergedSilver(table)}
    /\ IF tries' # 1 THEN UNCHANGED <<table, stage>>
       ELSE IF table < Tables THEN table' = table + 1 /\ UNCHANGED stage
       ELSE table' = 1 /\ stage' = "bronze"
    /\ UNCHANGED <<external, checkpoint, bronze, snapshots, dlq, batches, ctx, planned,
                   newMark, epochs, crashes>>

AppendFresh ==
    /\ bronze' = bronze \cup BronzeRows
    /\ snapshots' = IF Fresh = {} THEN snapshots ELSE snapshots + 1
AppendBronze ==
    /\ stage = "bronze" /\ ~Overflows
    /\ \/ Done /\ stage' = "dlq" /\ AppendFresh
       \/ Retried /\ UNCHANGED stage /\ (AppendFresh \/ UNCHANGED <<bronze, snapshots>>)
    /\ UNCHANGED <<external, checkpoint, silver, dlq, batches, ctx, planned,
                   newMark, table, epochs, crashes>>

\* Skipped unless a record was rejected or is a replay.
MergeDlq ==
    /\ stage = "dlq"
    /\ \/ DlqInput = {} /\ Done /\ stage' = "record" /\ UNCHANGED dlq
       \/ /\ DlqInput # {}
          /\ \E src \in DlqSources :
              \/ Done /\ stage' = "record" /\ dlq' = MergedDlq(src)
              \/ Retried /\ UNCHANGED stage /\ dlq' \in {dlq, MergedDlq(src)}
    /\ UNCHANGED <<external, checkpoint, silver, bronze, snapshots, batches, ctx, planned,
                   newMark, table, epochs, crashes>>

\* The batch record, then the cached watermark.
MergeRecord ==
    /\ stage = "record"
    /\ \/ /\ Done /\ stage' = "commit" /\ batches' = MergedBatches
          /\ ctx' = [ctx EXCEPT !.watermark = newMark, !.watermarkBatch = Batch]
       \/ /\ Retried /\ UNCHANGED <<stage, ctx>>
          /\ batches' \in {batches, MergedBatches}
    /\ UNCHANGED <<external, checkpoint, silver, bronze, snapshots, dlq, planned, newMark,
                   table, epochs, crashes>>

-----------------------------------------------------------------------------
(* Specification                                                           *)

Environment ==
    \/ \E p \in Partition \ Replays, b \in Body : Produce(p, b)
    \/ \E p \in Replays, d \in DOMAIN dlq : Replay(p, d)
    \/ Deploy
    \/ WipeCheckpoint

StartUp == EnsureEpoch \/ StartQuery \/ Trigger \/ Resume

ProcessBatch == \/ BeginBatch \/ PlanBatch \/ MergeSilver \/ AppendBronze
                \/ MergeDlq \/ MergeRecord \/ CommitBatch

Job  == StartUp \/ ProcessBatch
Next == Environment \/ Job \/ Crash

Spec == Init /\ [][Next]_vars

\* Docker restarts the driver, Spark triggers it every few seconds, and a
\* batch runs to its end unless the process dies; it raises what it must.
FairSpec == Spec /\ WF_vars(Job \/ (Overflows /\ Crash))

-----------------------------------------------------------------------------
(* Safety                                                                  *)

\* Every variable holds what the code can put there: SinkContext, the rows of
\* the four tables (tables.py) and the files of the checkpoint directory.
TypeOK ==
    /\ kafka \in [Partition -> Seq(Message)]
    /\ \A p \in Partition : Len(kafka[p]) <= MaxOffset
    /\ contracts \in 1..Versions
    /\ epochFile \in Nat /\ metadata \in BOOLEAN
    /\ offsets \in Seq([Partition -> 0..MaxOffset])
    /\ commits \in Nat /\ Len(offsets) \in {commits, commits + 1}
    /\ silver \in [Key -> SilverRow]
    /\ bronze \subseteq BronzeRow /\ snapshots \in Nat
    /\ DOMAIN dlq \subseteq Coordinates /\ \A d \in DOMAIN dlq : dlq[d] \in DlqRow
    /\ DOMAIN batches \subseteq Nat \X Nat
    /\ \A b \in DOMAIN batches : batches[b] \in BatchRow
    /\ stage \in Stage
    /\ ctx \in [registry : 0..Versions, epoch : Nat, watermark : Nat,
                watermarkBatch : Int]
    /\ DOMAIN planned \subseteq Event
    /\ \A e \in DOMAIN planned : planned[e] \in PlanRow
    /\ newMark \in Nat /\ table \in 1..Tables /\ tries \in 1..MaxTries
    /\ epochs \in Nat /\ crashes \in 0..(MaxCrashes + 1)

\* Bronze holds one row per change event, whatever is redelivered, retried or
\* run again (sink.py:8, append_bronze 516-518; ADR-0003 rule 5).
OneBronzeRowPerEvent ==
    \A r, q \in bronze : r.event = q.event => r = q

\* A reader who finds an event in bronze finds it, or a later change of the
\* same row, in silver: silver is merged first, for every table (485-520).
SilverCoversBronze ==
    \A row \in bronze : Lsn[row.event] <= LsnShown(silver[KeyOf[row.event]].event)

Writing == stage \in {"silver", "bronze", "dlq", "record"}

\* Planning the running batch again, at any point of its own writes, gives the
\* plan it is executing: own rows do not count as duplicates and
\* _prev_source_lsn restores the baseline (plan 228-253).  This is what makes
\* a re-run after a crash write the same labels.
PlanSurvivesOwnWrites ==
    Writing /\ Valid # {} => planned = Plan

\* The rows that an earlier attempt of this batch left in bronze carry the
\* labels of the present plan (ADR-0003 rule 8).
LabelsSurviveCrash ==
    Writing => \A row \in bronze : Own(row) =>
        /\ row.event \in DOMAIN planned
        /\ planned[row.event].outcome = row.outcome
        /\ planned[row.event].late = row.late

\* What the lakehouse must hold of a record it has consumed.
Stored(x) ==
    \/ At(x).body.kind # "change"
    \/ \E row \in bronze : row.event = EventAt(x)
    \/ DlqId(x) \in DOMAIN dlq

Committed(x) == commits > 0 /\ x[2] <= offsets[commits][x[1]]

\* Nothing below the committed offsets is missing from the lakehouse: the
\* checkpoint commit comes after every table commit (job.py 86-92).
NothingLost ==
    \A x \in Coordinates : Committed(x) => Stored(x)

\* All messages are committed and every version has been accepting the same.
Settled ==
    /\ stage = "idle" /\ commits = Len(offsets)
    /\ \A p \in Partition : Start(p) = Len(kafka[p])

Produced == {x \in Coordinates : x[2] <= Len(kafka[x[1]])}
ValidIn(v) == {x \in Produced : Status(x, v) = "valid"}

\* Once the job has caught up, bronze is the set of accepted change events
\* and each silver row shows the newest of its key: what was delivered once
\* per event, in LSN order, would have given the same tables (ADR-0003).
SettledMatchesSource ==
    Settled /\ Versions = 1 =>
        LET accepted == {EventAt(x) : x \in ValidIn(1)}
        IN  /\ {row.event : row \in bronze} = accepted
            /\ \A k \in Key :
                LET mine == {e \in accepted : KeyOf[e] = k}
                IN  IF mine = {} THEN silver[k] = NoRow
                    ELSE /\ silver[k].event \in mine
                         /\ \A e \in mine : Lsn[e] <= Lsn[silver[k].event]

\* The watermark cached in the process is what the table would have answered
\* (_watermark_before 200-208), also around empty batches and restarts.
WatermarkCacheFresh ==
    stage \in {"plan", "silver", "bronze", "dlq", "record"} =>
        WatermarkBefore = RecordedWatermark

\* The outcomes counted in a batch record are those of the bronze rows the batch
\* has written, over all of its attempts.
RecordMatchesBronze ==
    \A b \in DOMAIN batches, o \in Outcome \ {"duplicate"} :
        batches[b].outcomes[o] =
            {row.event : row \in {r \in bronze : /\ <<r.epoch, r.batch>> = b
                                                  /\ r.outcome = o}}

\* Every committed replay has been counted on the DLQ row it answers, or a
\* newer one has (DLQ_MERGE 395-408; docs/runbooks/dlq-replay.md 41).  Not so
\* after the checkpoint was wiped: then a batch may hold a record together with
\* its replay, and if both are rejected the one with the higher position counts.
ReplaysAreAnswered ==
    epochs <= 1 =>
        \A x \in Coordinates : Committed(x) /\ IsReplay(x) =>
            ~After(ReplayPosition(x), dlq[DlqId(x)].last)

\* A DLQ row is marked replayed only when its change is in bronze: the DLQ is
\* merged after the event tables (520, 526-533).
ReplayedIsInBronze ==
    \A d \in DOMAIN dlq : dlq[d].status = "replayed" =>
        \E row \in bronze : row.event = EventAt(d)

\* Between batches, a replay that entered bronze has resolved the DLQ row it
\* answers (docs/runbooks/dlq-replay.md: "Success": status replayed).
AcceptedReplayResolves ==
    stage = "idle" /\ commits = Len(offsets) =>
        \A row \in bronze : row.replay_of # NoPosition =>
            dlq[row.replay_of].status = "replayed"

\* So it does when no crash comes between the attempts of a batch, all replays
\* of a row go to one partition, as those of a record with a key do, and no later
\* contract set rejects what an earlier one accepts.
UninterruptedReplayResolves == crashes = 0 => AcceptedReplayResolves

\* replay_attempts never exceeds the replays that were sent, however often the
\* batches that hold them are run or their commits retried.
ReplayAttemptsAreReplays ==
    \A d \in DOMAIN dlq :
        dlq[d].attempts <= Cardinality({x \in Produced : At(x).replay_of = d})

-----------------------------------------------------------------------------
(* Action properties                                                       *)

\* No step moves a silver row back to an older change, so a deleted row is not
\* resurrected by an update that was made before the delete (MERGE guard).
SilverNeverGoesBack ==
    [][\A k \in Key : LsnShown(silver[k].event) <= LsnShown(silver'[k].event)]_vars

\* A batch record is only ever rewritten by another attempt of the same batch:
\* the same Kafka records with the same outcomes (ensure_epoch 42-51).
RecordsAreRepeatable ==
    [][\A b \in DOMAIN batches :
        /\ b \in DOMAIN batches'
        /\ batches'[b].rows = batches[b].rows
        /\ batches'[b].outcomes = batches[b].outcomes
        /\ batches'[b].watermark = batches[b].watermark]_vars

\* A DLQ row is never removed and its replay position only moves forward.
DlqMovesForward ==
    [][\A d \in DOMAIN dlq :
        /\ d \in DOMAIN dlq'
        /\ \/ dlq'[d] = dlq[d]
           \/ /\ After(dlq'[d].last, dlq[d].last)
              /\ dlq'[d].attempts = dlq[d].attempts + 1]_vars

\* The tables implement the promise of the lakehouse.
Promise == INSTANCE Lakehouse WITH
    current <- [k \in Key |-> silver[k].event],
    ledger  <- {row.event : row \in bronze}
KeepsPromise == Promise!Spec

-----------------------------------------------------------------------------
(* Liveness                                                                *)

\* Records that are in Kafka and not yet below the committed offsets and stored.
Waiting == {x \in Produced : ~(Committed(x) /\ Stored(x))}

\* Every record that reaches Kafka is stored in the end, through crashes, commit
\* conflicts and wiped checkpoints, whatever it carries ("a poison-pill record must
\* end up in the DLQ, not crash the micro-batch", decode.py:89).  A behaviour
\* produces finitely many, so the job catches up with all of them.
EveryRecordIsStored == Waiting # {} ~> Waiting = {}

Convertible(x) == TsAt(x) <= MaxMillis /\ SentAt(x) <= MaxMillis

\* So it is as long as no record carries a timestamp that timestamp_millis cannot
\* convert (plan 222, _bronze_rows 327).
ConvertibleRecordsAreStored ==
    [](\A x \in Produced : Convertible(x)) => EveryRecordIsStored

=============================================================================
