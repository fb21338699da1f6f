---------------------------- MODULE SinkRepeats -----------------------------
(***************************************************************************)
(* A batch that is run again.  The checkpoint makes Spark run a batch once *)
(* more after a crash, and the tables then hold any prefix of its writes.  *)
(* The proofs show that what the tables and batch records name are batches *)
(* of the checkpoint, that the cached watermark is the recorded one, that  *)
(* every attempt makes the same plan, and that this is the plan of the     *)
(* reference model.                                                        *)
(***************************************************************************)
EXTENDS SinkReference, SinkProofs

-----------------------------------------------------------------------------
(* Lineages.  Whatever names a batch of the current epoch names one of the *)
(* batches that its checkpoint has planned: a new epoch is a new number.   *)

\* What the process knows of the checkpoint and the contracts.
ProcessInv ==
    /\ metadata \/ stage # "down" => epochFile # NoEpoch
    /\ stage # "down" => ctx.epoch = epochFile /\ ctx.registry \in Loadable

\* The batches that the tables name.
BatchIds == {<<row.epoch, row.batch>> : row \in bronze}
            \cup {<<silver[k].epoch, silver[k].batch>> : k \in Key}
            \cup DOMAIN batches

EpochInv ==
    /\ epochFile <= epochs
    /\ \A b \in BatchIds :
         /\ b[1] <= epochs
         /\ b[1] = epochFile /\ (metadata \/ stage = "booted") => b[2] < Len(offsets)

LEMMA ProcessStep ==
    ASSUME TypeInv, LineageInv, ProcessInv, [Next]_vars
    PROVE  ProcessInv'
<1>1. CASE EnsureEpoch
  <2>1. epochFile' # NoEpoch
    BY <1>1 DEF EnsureEpoch, EpochKept, NoEpoch, TypeInv, TypeOK
  <2>2. ctx'.epoch = epochFile' /\ ctx'.registry \in Loadable
    BY <1>1 DEF EnsureEpoch, NoContext
  <2> QED
    BY <2>1, <2>2 DEF ProcessInv
<1>2. CASE BeginBatch
  <2>1. /\ ctx'.epoch = ctx.epoch /\ ctx'.registry \in {contracts, ctx.registry}
        /\ ctx'.registry = contracts => contracts \in Loadable \/ contracts = ctx.registry
        /\ stage # "down" /\ UNCHANGED <<epochFile, metadata>>
    BY <1>2 DEF BeginBatch, checkpoint, TypeInv, TypeOK
  <2> QED
    BY <2>1 DEF ProcessInv
<1>3. CASE MergeRecord
  <2>1. /\ ctx'.epoch = ctx.epoch /\ ctx'.registry = ctx.registry
        /\ stage # "down" /\ UNCHANGED <<epochFile, metadata>>
    BY <1>3 DEF MergeRecord, checkpoint, TypeInv, TypeOK
  <2> QED
    BY <2>1 DEF ProcessInv
<1>4. CASE WipeCheckpoint \/ Crash \/ StartQuery
  BY <1>4 DEF WipeCheckpoint, Crash, StartQuery, ProcessInv, process, checkpoint
<1>5. CASE /\ UNCHANGED <<epochFile, metadata, ctx>>
           /\ stage' = stage \/ stage # "down"
  BY <1>5 DEF ProcessInv
<1> QED
  BY <1>1, <1>2, <1>3, <1>4, <1>5
  DEF Next, Environment, Produce, Replay, Deploy, Job, StartUp, Trigger, Resume,
     ProcessBatch, PlanBatch, MergeSilver, AppendBronze, MergeDlq, CommitBatch,
     vars, process, checkpoint

\* A step names no other batches than the running one.
LEMMA BatchIdsStep ==
    ASSUME TypeInv, CoverInv, [Next]_vars
    PROVE  \/ BatchIds' \subseteq BatchIds
           \/ /\ BatchIds' \subseteq BatchIds \cup {BatchId} /\ stage \in Running
              /\ UNCHANGED <<epochFile, metadata, offsets, epochs>>
<1>1. CASE MergeRecord
  <2>1. /\ UNCHANGED <<silver, bronze, epochFile, metadata, offsets, epochs>>
        /\ stage \in Running
        /\ batches' = batches \/ batches' = MergedBatches
    BY <1>1 DEF MergeRecord, Running, checkpoint
  <2>2. DOMAIN batches' \subseteq DOMAIN batches \cup {BatchId}
    BY <2>1 DEF MergedBatches
  <2> QED
    BY <2>1, <2>2 DEF BatchIds
<1>2. CASE stage = "silver" /\ silver' = MergedSilver(table) /\ UNCHANGED bronze
  <2>1. MergeSilver \/ silver' = silver
    BY <1>2 DEF Next, Environment, Produce, Replay, Deploy, WipeCheckpoint, Job, StartUp,
       EnsureEpoch, StartQuery, Trigger, Resume, ProcessBatch, BeginBatch, PlanBatch,
       AppendBronze, MergeDlq, MergeRecord, CommitBatch, Crash, lake, vars
  <2>2. UNCHANGED batches
    BY <1>2 DEF Next, Environment, Produce, Replay, Deploy, WipeCheckpoint, Job, StartUp,
       EnsureEpoch, StartQuery, Trigger, Resume, ProcessBatch, BeginBatch, PlanBatch,
       MergeSilver, AppendBronze, MergeDlq, MergeRecord, CommitBatch, Crash, lake, vars
  <2>3. CASE MergeSilver
    <3>1. UNCHANGED <<epochFile, metadata, offsets, epochs>> /\ stage \in Running
      BY <2>3 DEF MergeSilver, checkpoint, Running
    <3>2. \A k \in Key : \/ silver'[k] = silver[k]
                         \/ silver'[k].epoch = ctx.epoch /\ silver'[k].batch = Batch
      BY <1>2 DEF MergedSilver
    <3> QED
      BY <1>2, <2>2, <3>1, <3>2 DEF BatchIds, BatchId
  <2>4. CASE silver' = silver
    BY <1>2, <2>2, <2>4 DEF BatchIds
  <2> QED
    BY <2>1, <2>3, <2>4
<1>3. CASE AppendBronze
  <2>1. /\ UNCHANGED <<silver, batches, epochFile, metadata, offsets, epochs>>
        /\ stage \in Running
        /\ bronze' = bronze \/ bronze' = bronze \cup BronzeRows
    BY <1>3 DEF AppendBronze, AppendFresh, Running, checkpoint
  <2>2. \A row \in BronzeRows : row.epoch = ctx.epoch /\ row.batch = Batch
    BY DEF BronzeRows
  <2> QED
    BY <2>1, <2>2 DEF BatchIds, BatchId
<1>4. CASE UNCHANGED <<silver, bronze, batches>>
  BY <1>4 DEF BatchIds
<1>5. CASE MergeSilver
  BY <1>2, <1>4, <1>5 DEF MergeSilver
<1> QED
  BY <1>1, <1>3, <1>4, <1>5
  DEF Next, Environment, Produce, Replay, Deploy, WipeCheckpoint, Job, StartUp,
     EnsureEpoch, StartQuery, Trigger, Resume, ProcessBatch, BeginBatch, PlanBatch,
     MergeDlq, CommitBatch, Crash, lake, vars

LEMMA BatchIdsType ==
    ASSUME TypeInv
    PROVE  \A b \in BatchIds : b[1] \in Nat /\ b[2] \in Nat
<1>1. \A row \in bronze : row.epoch \in Nat /\ row.batch \in Nat
  BY DEF TypeInv, TypeOK, BronzeRow
<1>2. \A k \in Key : silver[k].epoch \in Nat /\ silver[k].batch \in Nat
  BY DEF TypeInv, TypeOK, SilverRow
<1>3. \A b \in DOMAIN batches : b[1] \in Nat /\ b[2] \in Nat
  BY DEF TypeInv, TypeOK
<1> QED
  BY <1>1, <1>2, <1>3 DEF BatchIds

LEMMA EpochStep ==
    ASSUME TypeInv, CoverInv, LineageInv, ProcessInv, EpochInv, [Next]_vars
    PROVE  EpochInv'
<1>1. epochs \in Nat /\ epochFile \in Nat /\ Len(offsets) \in Nat
  BY DEF TypeInv, TypeOK
<1>2. CASE EnsureEpoch
  <2>1. /\ UNCHANGED <<metadata, offsets, lake>> /\ stage' = "booted"
        /\ epochs' = IF EpochKept THEN epochs ELSE epochs + 1
        /\ epochFile' = IF EpochKept THEN epochFile ELSE epochs + 1
    BY <1>2 DEF EnsureEpoch
  <2>2. BatchIds' = BatchIds
    BY <2>1 DEF BatchIds, lake
  <2>3. CASE EpochKept
    BY <2>1, <2>2, <2>3 DEF EpochInv, EpochKept
  <2>4. CASE ~EpochKept
    <3>1. \A b \in BatchIds : b[1] # epochs + 1 /\ b[1] <= epochs + 1
      BY <1>1, BatchIdsType DEF EpochInv
    <3> QED
      BY <1>1, <2>1, <2>2, <2>4, <3>1 DEF EpochInv
  <2> QED
    BY <2>3, <2>4
<1>3. CASE WipeCheckpoint
  <2>1. /\ UNCHANGED <<lake, epochs>> /\ metadata' = FALSE /\ stage' = "down"
        /\ epochFile' \in {epochFile, 0}
    BY <1>3 DEF WipeCheckpoint, process, NoEpoch
  <2>2. BatchIds' = BatchIds
    BY <2>1 DEF BatchIds, lake
  <2> QED
    BY <1>1, <2>1, <2>2 DEF EpochInv
<1>4. CASE Trigger
  <2>1. /\ UNCHANGED <<lake, epochs, epochFile, metadata>> /\ stage = "idle" /\ stage' = "begin"
        /\ Len(offsets') = Len(offsets) + 1
    BY <1>4 DEF Trigger, TypeInv, TypeOK
  <2>2. BatchIds' = BatchIds
    BY <2>1 DEF BatchIds, lake
  <2>3. \A b \in BatchIds : b[2] < Len(offsets) => b[2] < Len(offsets')
    BY <1>1, <2>1, BatchIdsType
  <2> QED
    BY <2>1, <2>2, <2>3 DEF EpochInv
<1>5. CASE /\ stage \in Running /\ BatchIds' \subseteq BatchIds \cup {BatchId}
           /\ UNCHANGED <<epochFile, metadata, offsets, epochs>>
  <2>1. BatchId[1] = epochFile /\ BatchId[2] = Len(offsets) - 1 /\ metadata
    BY <1>5 DEF ProcessInv, BatchId, Batch, Running, LineageInv
  <2> QED
    BY <1>1, <1>5, <2>1 DEF EpochInv
<1>6. CASE StartQuery
  <2>1. UNCHANGED <<lake, epochs, epochFile, offsets>> /\ stage = "booted"
    BY <1>6 DEF StartQuery
  <2>2. BatchIds' = BatchIds
    BY <2>1 DEF BatchIds, lake
  <2> QED
    BY <2>1, <2>2 DEF EpochInv
<1>7. CASE /\ BatchIds' \subseteq BatchIds
           /\ stage' # "booted" \/ stage = "booted"
           /\ UNCHANGED <<epochs, epochFile, offsets, metadata>>
  BY <1>7 DEF EpochInv
<1>8. \/ EnsureEpoch \/ WipeCheckpoint \/ Trigger \/ StartQuery
      \/ /\ stage' # "booted" \/ stage = "booted"
         /\ UNCHANGED <<epochs, epochFile, offsets, metadata>>
  BY DEF Next, Environment, Produce, Replay, Deploy, Job, StartUp, Resume, ProcessBatch,
     BeginBatch, PlanBatch, MergeSilver, AppendBronze, MergeDlq, MergeRecord,
     CommitBatch, Crash, vars, process, checkpoint
<1> QED
  BY <1>2, <1>3, <1>4, <1>5, <1>6, <1>7, <1>8, BatchIdsStep

-----------------------------------------------------------------------------
(* The watermark                                                           *)

\* What the process has cached is in the record of the batch it names.
CacheInv ==
    stage # "down" /\ ctx.watermarkBatch # NoBatch =>
        LET b == <<ctx.epoch, ctx.watermarkBatch>>
        IN  /\ ctx.watermarkBatch \in Nat
            /\ b \in DOMAIN batches /\ batches[b].watermark = ctx.watermark
            /\ \/ ctx.watermarkBatch < commits
               \/ stage = "commit" /\ ctx.watermarkBatch = commits

LEMMA CacheStep ==
    ASSUME TypeInv, TypeInv', ProcessInv, CacheInv, [Next]_vars
    PROVE  CacheInv'
<1>1. commits \in Nat /\ NoBatch = -2
  BY DEF TypeInv, TypeOK, NoBatch
<1>2. CASE EnsureEpoch \/ Crash
  <2>1. CASE EnsureEpoch
    BY <2>1 DEF EnsureEpoch, NoContext, CacheInv
  <2>2. CASE Crash
    BY <2>2 DEF Crash, CacheInv
  <2> QED
    BY <1>2, <2>1, <2>2
<1>3. CASE MergeRecord
  <2>1. /\ stage = "record" /\ stage \in Running /\ stage # "down"
        /\ UNCHANGED <<offsets, commits>>
    BY <1>3 DEF MergeRecord, checkpoint, Running
  <2>2. Batch = commits /\ Batch \in Nat
    BY <2>1, <1>1 DEF TypeInv, LogInv, Batch
  <2>3. CASE UNCHANGED <<stage, ctx>>
    <3>1. batches' = batches \/ batches' = MergedBatches
      BY <1>3 DEF MergeRecord
    <3>2. SUFFICES ASSUME ctx.watermarkBatch # NoBatch PROVE CacheInv'
      BY <2>3 DEF CacheInv
    <3>3. /\ ctx.watermarkBatch \in Nat /\ ctx.watermarkBatch < commits
          /\ <<ctx.epoch, ctx.watermarkBatch>> \in DOMAIN batches
          /\ batches[<<ctx.epoch, ctx.watermarkBatch>>].watermark = ctx.watermark
      BY <2>1, <3>2 DEF CacheInv
    <3>4. <<ctx.epoch, ctx.watermarkBatch>> # BatchId
      BY <2>2, <3>3 DEF BatchId
    <3>5. /\ <<ctx.epoch, ctx.watermarkBatch>> \in DOMAIN batches'
          /\ batches'[<<ctx.epoch, ctx.watermarkBatch>>].watermark = ctx.watermark
      BY <3>1, <3>3, <3>4 DEF MergedBatches
    <3> QED
      BY <2>1, <2>3, <3>3, <3>5 DEF CacheInv
  <2>4. CASE ~UNCHANGED <<stage, ctx>>
    <3>1. /\ stage' = "commit" /\ batches' = MergedBatches
          /\ ctx' = [ctx EXCEPT !.watermark = newMark, !.watermarkBatch = Batch]
      BY <1>3, <2>4 DEF MergeRecord
    <3>2. ctx'.epoch = ctx.epoch /\ ctx'.watermark = newMark /\ ctx'.watermarkBatch = Batch
      BY <3>1 DEF TypeInv, TypeOK
    <3>3. BatchId \in DOMAIN batches' /\ batches'[BatchId].watermark = newMark
      BY <3>1 DEF MergedBatches
    <3> QED
      BY <2>1, <2>2, <3>1, <3>2, <3>3 DEF CacheInv, BatchId
  <2> QED
    BY <2>3, <2>4
<1>4. CASE BeginBatch
  <2>1. /\ ctx'.epoch = ctx.epoch /\ ctx'.watermark = ctx.watermark
        /\ ctx'.watermarkBatch = ctx.watermarkBatch
        /\ stage = "begin" /\ UNCHANGED <<batches, commits>>
    BY <1>4 DEF BeginBatch, checkpoint, lake, TypeInv, TypeOK
  <2> QED
    BY <2>1 DEF CacheInv
<1>5. CASE CommitBatch
  <2>1. /\ stage = "commit" /\ UNCHANGED <<ctx, batches>>
        /\ commits' = Len(offsets) /\ stage \in Running
    BY <1>5 DEF CommitBatch, lake, Running
  <2>2. commits' = commits + 1
    BY <2>1 DEF TypeInv, LogInv
  <2>3. stage' = "idle"
    BY <1>5 DEF CommitBatch
  <2> QED
    BY <1>1, <2>1, <2>2, <2>3 DEF CacheInv
<1>6. CASE /\ UNCHANGED <<ctx, batches>>
           /\ UNCHANGED commits \/ stage' = "down"
           /\ stage # "commit" \/ stage' = "commit"
           /\ stage # "down" \/ stage' = "down"
  BY <1>6 DEF CacheInv
<1> QED
  BY <1>2, <1>3, <1>4, <1>5, <1>6
  DEF Next, Environment, Produce, Replay, Deploy, WipeCheckpoint, Job, StartUp,
     StartQuery, Trigger, Resume, ProcessBatch, PlanBatch, MergeSilver, AppendBronze,
     MergeDlq, vars, process, checkpoint, lake

\* A cached watermark is that of the batch before only if the table says so.
LEMMA CacheIsFresh ==
    ASSUME TypeInv, CacheInv, stage \in Running
    PROVE  WatermarkBefore = RecordedWatermark
<1> SUFFICES ASSUME ctx.watermarkBatch = Batch - 1
             PROVE  ctx.watermark = RecordedWatermark
  BY DEF WatermarkBefore
<1> PICK wb : wb = ctx.watermarkBatch
  OBVIOUS
<1> DEFINE earlier == {n \in 0..(Batch - 1) : <<ctx.epoch, n>> \in DOMAIN batches}
<1>1. Batch \in Nat
  BY DEF TypeInv, TypeOK, LogInv, Batch
<1>2. wb # NoBatch /\ stage # "down"
  BY <1>1 DEF NoBatch, Running
<1>3. /\ wb \in Nat /\ <<ctx.epoch, wb>> \in DOMAIN batches
      /\ batches[<<ctx.epoch, wb>>].watermark = ctx.watermark
  BY <1>2 DEF CacheInv
<1>4. wb \in earlier /\ \A n \in earlier : n \in Int /\ n <= wb
  BY <1>1, <1>3
<1>5. wb \in Int
  BY <1>3
<1>6. Max(earlier) = wb
  <2> HIDE DEF earlier
  <2>1. Max(earlier) \in earlier /\ \A n \in earlier : n <= Max(earlier)
    BY <1>4, <1>5, MaxIsGreatest
  <2> QED
    BY <1>4, <2>1
<1> QED
  BY <1>3, <1>4, <1>6 DEF RecordedWatermark

BatchesInv == ProcessInv /\ EpochInv /\ CacheInv

\* What names a batch names one that the checkpoint has planned, and the cached
\* watermark is that of the newest batch record (job.py 42-63, sink.py 582-583).
THEOREM BatchesInvariant == Spec => []BatchesInv
<1>1. Init => BatchesInv
  BY DEF Init, BatchesInv, ProcessInv, EpochInv, CacheInv, BatchIds, NoEpoch, NoRow
<1>2. TypeInv /\ TypeInv' /\ CoverInv /\ DlqInv /\ BatchesInv /\ [Next]_vars => BatchesInv'
  BY ProcessStep, EpochStep, CacheStep DEF DlqInv, BatchesInv
<1> QED
  BY <1>1, <1>2, TypeInvariant, CoverInvariant, DlqInvariant, PTL DEF Spec

\* The watermark cached in the process is what the batch records say, around
\* empty batches, restarts and new epochs (_watermark_before 200-208).
THEOREM WatermarkFresh == Spec => []WatermarkCacheFresh
<1>1. TypeInv /\ BatchesInv => WatermarkCacheFresh
  BY CacheIsFresh DEF BatchesInv, WatermarkCacheFresh, Running
<1> QED
  BY <1>1, TypeInvariant, BatchesInvariant, PTL

-----------------------------------------------------------------------------
(* A batch that is run again.  Between the moment its offsets are written  *)
(* and its commit marker, a new process would make the same plan of it,    *)
(* whatever has been written of it already: that is the plan of Again,     *)
(* which reads the contracts, the checkpoint and the tables only.  This    *)
(* needs that no contract set is promoted meanwhile: the next attempt      *)
(* would judge the records by it.                                          *)

Unfinished == Len(offsets) = commits + 1
Steady     == Unfinished => UNCHANGED contracts

NewContext == [registry |-> IF contracts \in Loadable THEN contracts ELSE ctx.registry,
               epoch |-> epochFile, watermark |-> 0, watermarkBatch |-> NoBatch]
Again == INSTANCE Sink WITH ctx <- NewContext

\* A batch that a process runs, or that one can start to run again.
Pending == Unfinished /\ (stage # "down" \/ contracts \in Loadable)
Loaded  == Running \ {"begin"}

Labels   == Again!Plan
Added    == {e \in DOMAIN Labels : Labels[e].outcome # "duplicate"}
HasRow(e) == \E row \in bronze : Again!Own(row) /\ row.event = e

\* The rows of the batch in bronze and in silver are as planned.
OwnRowsInv ==
    /\ \A row \in bronze : Again!Own(row) =>
          /\ row.event \in Added
          /\ Labels[row.event].outcome = row.outcome
          /\ Labels[row.event].late = row.late
    /\ \A k \in Key : Again!Own(silver[k]) =>
          /\ silver[k].event \in DOMAIN Labels /\ KeyOf[silver[k].event] = k
          /\ Labels[silver[k].event].outcome = "applied"

\* The plan in progress is the one a new process would make.
SamePlanInv ==
    /\ stage \in Loaded => ctx.registry = NewContext.registry
    /\ Writing => planned = Labels /\ newMark = Again!WatermarkAfter

\* All rows are there once an attempt got past the append, and the record of
\* an attempt is that of the plan.
DoneInv ==
    /\ stage \in {"dlq", "record", "commit"} \/ Again!BatchId \in DOMAIN batches =>
          \A e \in Added : HasRow(e)
    /\ Again!BatchId \in DOMAIN batches =>
          LET row == batches[Again!BatchId]
          IN  /\ row.rows = Rows /\ row.watermark = Again!WatermarkAfter
              /\ row.outcomes =
                    [o \in Outcome |-> {e \in DOMAIN Labels : Labels[e].outcome = o}]

RepeatInv == Pending => OwnRowsInv /\ SamePlanInv /\ DoneInv

LEMMA AgainRows ==
    /\ Again!Rows = Rows /\ Again!Batch = Batch /\ Again!BatchId = <<epochFile, Batch>>
    /\ \A x : /\ Again!At(x) = At(x) /\ Again!EventAt(x) = EventAt(x)
              /\ Again!TsAt(x) = TsAt(x)
    /\ \A x, y : Again!Earlier(x, y) <=> Earlier(x, y)
    /\ \A r : Again!Own(r) <=> r.epoch = epochFile /\ r.batch = Batch
    /\ \A e : Again!LsnShown(e) = LsnShown(e)
    /\ Again!Valid \subseteq Rows
<1>1. /\ \A x : Again!At(x) = At(x)
      /\ \A p : Again!To(p) = To(p) /\ Again!From(p) = From(p)
      /\ Again!Coordinates = Coordinates
  BY DEF Again!At, At, Again!To, To, Again!From, From, Again!Coordinates, Coordinates
<1>2. Again!Rows = Rows
  BY <1>1 DEF Again!Rows, Rows
<1> QED
  BY <1>1, <1>2 DEF Again!Batch, Batch, Again!BatchId, Again!EventAt, EventAt,
     Again!TsAt, TsAt, Again!Earlier, Earlier, Again!Own, Again!LsnShown, LsnShown,
     Again!Valid, NewContext, NoLsn, Again!NoLsn

LEMMA AgainValidRow ==
    ASSUME TypeInv, offsets # <<>>, NEW x \in Again!Valid
    PROVE  /\ x \in Rows /\ x \in Coordinates
           /\ EventAt(x) \in Event /\ TsAt(x) \in 0..MaxLong
           /\ At(x).replay_of \in Coordinates \cup {NoPosition}
<1>1. x \in Rows
  BY AgainRows
<1>2. x \in Coordinates /\ At(x) \in Message
  BY <1>1, PlannedRow
<1>3. At(x).body \in Body /\ At(x).replay_of \in Coordinates \cup {NoPosition}
  BY <1>2 DEF Message
<1>4. At(x).body.event \in Event /\ At(x).body.ts \in 0..MaxLong
  BY <1>3, BodyAssumption
<1> QED
  BY <1>1, <1>2, <1>3, <1>4 DEF EventAt, TsAt

\* Two coordinates that are both first are one.
LEMMA OneFirst ==
    ASSUME NEW x \in Coordinates, NEW y \in Coordinates, ~Earlier(x, y), ~Earlier(y, x)
    PROVE  x = y
<1>1. x[1] \in Nat /\ x[2] \in Nat /\ y[1] \in Nat /\ y[2] \in Nat
  BY CoordinatesAreNumbers
<1>2. x[1] = y[1] /\ x[2] = y[2]
  BY <1>1 DEF Earlier
<1>3. x = <<x[1], x[2]>> /\ y = <<y[1], y[2]>>
  BY DEF Coordinates
<1> QED
  BY <1>2, <1>3

LEMMA AgainFirst ==
    ASSUME TypeInv, offsets # <<>>, NEW e \in Again!Unique
    PROVE  /\ Again!First(e) \in Again!Valid /\ EventAt(Again!First(e)) = e
           /\ \A y \in Again!Valid : EventAt(y) = e => ~Earlier(y, Again!First(e))
<1>1. PICK x0 \in Again!Valid : EventAt(x0) = e
  BY AgainRows DEF Again!Unique
<1>2. Again!Valid \in SUBSET Coordinates
  BY AgainValidRow
<1>3. PICK x \in Again!Valid :
         /\ EventAt(x) = e
         /\ \A y \in Again!Valid : EventAt(y) = e => ~Earlier(y, x)
  BY <1>1, <1>2, FirstExists
<1>4. /\ Again!EventAt(x) = e
      /\ \A y \in Again!Valid : Again!EventAt(y) = e => ~Again!Earlier(y, x)
  BY <1>3, AgainRows
<1>5. /\ Again!First(e) \in Again!Valid /\ Again!EventAt(Again!First(e)) = e
      /\ \A y \in Again!Valid : Again!EventAt(y) = e => ~Again!Earlier(y, Again!First(e))
  BY <1>3, <1>4 DEF Again!First
<1> QED
  BY <1>5, AgainRows

\* The process at work makes the plan that a new one would make.
LEMMA SamePlan ==
    ASSUME TypeInv, ProcessInv, CacheInv, stage \in Running,
           ctx.registry = NewContext.registry
    PROVE  /\ Valid = Again!Valid /\ Unique = Again!Unique
           /\ BatchId = Again!BatchId
           /\ \A row : Own(row) <=> Again!Own(row)
           /\ BronzeLookup = Again!BronzeLookup
           /\ Candidates = Again!Candidates
           /\ \A k : Baseline(k) = Again!Baseline(k)
           /\ WatermarkBefore = Again!WatermarkBefore
           /\ WatermarkAfter = Again!WatermarkAfter
           /\ \A e \in Unique : First(e) = Again!First(e)
           /\ Plan = Labels
<1>1. ctx.epoch = epochFile /\ stage # "down"
  BY DEF ProcessInv, Running
<1>2. \A x \in Rows : Status(x, ctx.registry) = Again!Status(x, NewContext.registry)
  BY AgainRows DEF Status, Again!Status
<1>3. Valid = Again!Valid
  BY <1>2, AgainRows DEF Valid, Again!Valid
<1>4. Unique = Again!Unique
  BY <1>3, AgainRows DEF Unique, Again!Unique
<1>5. BatchId = Again!BatchId /\ \A row : Own(row) <=> Again!Own(row)
  BY <1>1, AgainRows DEF BatchId, Own
<1>6. BronzeLookup = Again!BronzeLookup
  BY <1>3, AgainRows DEF BronzeLookup, Again!BronzeLookup, InWindow, Again!InWindow
<1>7. Candidates = Again!Candidates
  BY <1>4, <1>5, <1>6 DEF Candidates, Again!Candidates, IsPriorDup, Again!IsPriorDup
<1>8. \A k : Baseline(k) = Again!Baseline(k)
  BY <1>5, AgainRows DEF Baseline, Again!Baseline
<1>9. WatermarkBefore = Again!WatermarkBefore
  <2>1. Batch \in Nat
    BY DEF TypeInv, TypeOK, LogInv, Batch
  <2>2. Again!WatermarkBefore = Again!RecordedWatermark
    BY <2>1, AgainRows DEF Again!WatermarkBefore, NewContext, NoBatch
  <2>3. RecordedWatermark = Again!RecordedWatermark
    BY <1>1, AgainRows DEF RecordedWatermark, Again!RecordedWatermark, NewContext,
       Max, Again!Max
  <2> QED
    BY <2>2, <2>3, CacheIsFresh
<1>10. WatermarkAfter = Again!WatermarkAfter
  BY <1>3, <1>9, AgainRows DEF WatermarkAfter, Again!WatermarkAfter, Max, Again!Max
<1>11. ASSUME NEW e \in Unique PROVE First(e) = Again!First(e)
  BY <1>3, AgainRows DEF First, Again!First
<1>12. \A e \in Unique : OutcomeOf(e) = Again!OutcomeOf(e)
  BY <1>7, <1>8 DEF OutcomeOf, Again!OutcomeOf, IsLatest, Again!IsLatest
<1>13. Plan = Labels
  BY <1>4, <1>9, <1>11, <1>12, AgainRows DEF Plan, Labels, Again!Plan
<1> QED
  BY <1>3, <1>4, <1>5, <1>6, <1>7, <1>8, <1>9, <1>10, <1>11, <1>13

LEMMA LabelsDomain == DOMAIN Labels = Again!Unique
BY DEF Labels, Again!Plan

\* What the plan depends on.
LEMMA PlanInputs ==
    ASSUME TypeInv, offsets # <<>>,
           Again!Valid' = Again!Valid,
           \A x \in Again!Valid : At(x)' = At(x),
           Again!WatermarkBefore' = Again!WatermarkBefore,
           \A e \in Again!Unique : Again!IsPriorDup(e)' <=> Again!IsPriorDup(e),
           \A k \in Key : Again!Baseline(k)' = Again!Baseline(k)
    PROVE  Labels' = Labels /\ Again!WatermarkAfter' = Again!WatermarkAfter
<1>1. \A x \in Again!Valid : /\ EventAt(x)' = EventAt(x) /\ TsAt(x)' = TsAt(x)
                             /\ EventAt(x) \in Event
  BY AgainValidRow DEF EventAt, TsAt
<1>2. \A x : /\ Again!EventAt(x) = EventAt(x) /\ Again!EventAt(x)' = EventAt(x)'
             /\ Again!TsAt(x) = TsAt(x) /\ Again!TsAt(x)' = TsAt(x)'
             /\ Again!At(x) = At(x) /\ Again!At(x)' = At(x)'
  BY DEF Again!EventAt, EventAt, Again!TsAt, TsAt, Again!At, At
<1>3. Again!Unique' = Again!Unique /\ Again!Unique \subseteq Event
  BY <1>1, <1>2 DEF Again!Unique
<1>4. Again!Candidates' = Again!Candidates /\ Again!Candidates \subseteq Event
  BY <1>3 DEF Again!Candidates
<1>5. \A e \in Again!Unique : KeyOf[e] \in Key
  BY <1>3, EventAssumption
<1>6. \A e \in Again!Unique : Again!IsLatest(e)' <=> Again!IsLatest(e)
  BY <1>4 DEF Again!IsLatest
<1>7. \A e \in Again!Unique : Again!OutcomeOf(e)' = Again!OutcomeOf(e)
  BY <1>4, <1>5, <1>6 DEF Again!OutcomeOf
<1>8. ASSUME NEW e \in Again!Unique PROVE Again!First(e)' = Again!First(e)
  <2>1. \A x \in Again!Valid : EventAt(x)' = EventAt(x)
    BY <1>1
  <2>2. \A x, y : Again!Earlier(x, y)' <=> Again!Earlier(x, y)
    BY DEF Again!Earlier
  <2> QED
    BY <1>2, <2>1, <2>2 DEF Again!First
<1>9. ASSUME NEW e \in Again!Unique
      PROVE  /\ Again!TsAt(Again!First(e))' = Again!TsAt(Again!First(e))
             /\ Again!At(Again!First(e))' = Again!At(Again!First(e))
  <2> PICK x : x = Again!First(e)
    OBVIOUS
  <2>1. x \in Again!Valid /\ Again!First(e)' = x
    BY <1>8, AgainFirst
  <2>2. /\ Again!TsAt(x)' = Again!TsAt(x) /\ Again!At(x)' = Again!At(x)
        /\ Again!TsAt(Again!First(e))' = Again!TsAt(x)'
        /\ Again!At(Again!First(e))' = Again!At(x)'
    BY <1>1, <1>2, <2>1
  <2> QED
    BY <2>2
<1>10. Labels' = Labels
  BY <1>3, <1>7, <1>8, <1>9 DEF Labels, Again!Plan
<1>11. {Again!TsAt(x) - Lateness : x \in Again!Valid}'
         = {Again!TsAt(x) - Lateness : x \in Again!Valid}
  BY <1>1, <1>2
<1> QED
  BY <1>10, <1>11 DEF Again!WatermarkAfter

\* No part of the plan depends on what the batch has written.
LEMMA Replan ==
    ASSUME TypeInv, offsets # <<>>, UNCHANGED offsets, NewContext' = NewContext,
           UNCHANGED kafka \/ LogAppend,
           \A row : ~Again!Own(row) => (row \in bronze' <=> row \in bronze),
           \A k \in Key : Again!Baseline(k)' = Again!Baseline(k),
           \A b : b # Again!BatchId =>
              /\ b \in DOMAIN batches' <=> b \in DOMAIN batches
              /\ b \in DOMAIN batches => batches'[b] = batches[b]
    PROVE  /\ Labels' = Labels /\ Again!WatermarkAfter' = Again!WatermarkAfter
           /\ Rows' = Rows /\ Again!BatchId' = Again!BatchId
           /\ \A r : Again!Own(r)' <=> Again!Own(r)
<1>1. Rows' = Rows /\ \A x \in Rows : At(x)' = At(x)
  <2>1. CASE UNCHANGED kafka
    BY <2>1 DEF Rows, At, From, To
  <2> QED
    BY <2>1, RowsKept
<1>2. /\ Batch' = Batch /\ Batch \in Int /\ epochFile' = epochFile
      /\ NewContext'.registry = NewContext.registry
  BY DEF Batch, NewContext, TypeInv, TypeOK
<1>3. /\ Again!Rows' = Rows' /\ Again!Batch' = Batch' /\ Again!Batch = Batch
      /\ \A x : Again!At(x)' = At(x)' /\ Again!At(x) = At(x)
  <2>1. /\ \A x : Again!At(x)' = At(x)' /\ Again!At(x) = At(x)
        /\ \A p : /\ Again!To(p)' = To(p)' /\ Again!From(p)' = From(p)'
        /\ Again!Coordinates' = Coordinates'
    BY DEF Again!At, At, Again!To, To, Again!From, From, Again!Coordinates, Coordinates
  <2> QED
    BY <2>1 DEF Again!Rows, Rows, Again!Batch, Batch
<1>4. Again!BatchId' = Again!BatchId /\ \A r : Again!Own(r)' <=> Again!Own(r)
  BY <1>2, <1>3 DEF Again!BatchId, Again!Own, NewContext
<1>5. Again!Valid' = Again!Valid
  <2>1. \A x \in Rows : \A v : Again!Status(x, v)' = Again!Status(x, v)
    BY <1>1, <1>3 DEF Again!Status
  <2> QED
    BY <1>1, <1>2, <1>3, <2>1, AgainRows DEF Again!Valid
<1>6. \A x \in Again!Valid : At(x)' = At(x)
  BY <1>1, AgainRows
<1>7. Again!WatermarkBefore' = Again!WatermarkBefore
  <2> DEFINE earlier == {n \in 0..(Batch - 1) : <<epochFile, n>> \in DOMAIN batches}
  <2>1. PICK S : S = earlier
    OBVIOUS
  <2>2. \A n \in 0..(Batch - 1) : <<epochFile, n>> # Again!BatchId
    BY <1>2, AgainRows
  <2>3. S = {n \in 0..(Batch - 1) : <<epochFile, n>> \in DOMAIN batches'}
    BY <2>1, <2>2
  <2>4. Again!RecordedWatermark = IF S = {} THEN 0 ELSE batches[<<epochFile, Max(S)>>].watermark
    BY <1>3, <2>1 DEF Again!RecordedWatermark, Max, Again!Max, NewContext
  <2>5. Again!RecordedWatermark' = IF S = {} THEN 0 ELSE batches'[<<epochFile, Max(S)>>].watermark
    BY <1>2, <1>3, <2>3 DEF Again!RecordedWatermark, Max, Again!Max, NewContext
  <2>6. ASSUME S # {} PROVE batches'[<<epochFile, Max(S)>>] = batches[<<epochFile, Max(S)>>]
    <3>1. S \in SUBSET Int /\ \A n \in S : n <= Batch - 1
      BY <1>2, <2>1
    <3>2. Max(S) \in S
      <4>1. Batch - 1 \in Int
        BY <1>2
      <4> QED
        BY <2>6, <3>1, <4>1, MaxIsGreatest
    <3> QED
      BY <2>1, <2>2, <3>2
  <2>7. Again!RecordedWatermark' = Again!RecordedWatermark
    BY <2>4, <2>5, <2>6
  <2>8. Batch' = Batch /\ NewContext.watermarkBatch = -2 /\ Batch \in Nat
    BY <1>2 DEF NewContext, NoBatch, TypeInv, TypeOK, Batch
  <2>9. NewContext'.watermarkBatch = -2
    BY <2>8
  <2> QED
    BY <1>3, <2>7, <2>8, <2>9 DEF Again!WatermarkBefore
<1>8. ASSUME NEW e \in Again!Unique PROVE Again!IsPriorDup(e)' <=> Again!IsPriorDup(e)
  <2>1. \A x \in Again!Valid : Again!TsAt(x)' = Again!TsAt(x)
    BY <1>3, <1>6 DEF Again!TsAt
  <2>2. \A row : Again!InWindow(row)' <=> Again!InWindow(row)
    BY <1>5, <2>1 DEF Again!InWindow
  <2>3. \A row : ~Again!Own(row) => (row \in Again!BronzeLookup' <=> row \in Again!BronzeLookup)
    BY <2>2 DEF Again!BronzeLookup
  <2> QED
    BY <1>4, <2>3 DEF Again!IsPriorDup
<1>9. Labels' = Labels /\ Again!WatermarkAfter' = Again!WatermarkAfter
  BY <1>5, <1>6, <1>7, <1>8, PlanInputs
<1> QED
  BY <1>1, <1>4, <1>9

\* The parts of RepeatInv only speak of the plan, the tables and the stage.
LEMMA QuietRepeat ==
    ASSUME TypeInv, Pending, RepeatInv, UNCHANGED offsets, NewContext' = NewContext,
           UNCHANGED kafka \/ LogAppend, UNCHANGED <<silver, bronze, batches>>,
           stage' \in Loaded => ctx'.registry = NewContext'.registry,
           Writing' => UNCHANGED <<planned, newMark>> /\ Writing,
           stage' \in {"dlq", "record", "commit"} =>
              stage \in {"dlq", "record", "commit"} \/ Added = {}
    PROVE  RepeatInv'
<1>1. offsets # <<>>
  BY DEF Pending, Unfinished, TypeInv, TypeOK
<1>2. \A k \in Key : Again!Baseline(k)' = Again!Baseline(k)
  BY DEF Again!Baseline, Again!Own, Again!Batch, Again!LsnShown, NewContext
<1>3. /\ Labels' = Labels /\ Again!WatermarkAfter' = Again!WatermarkAfter
      /\ Rows' = Rows /\ Again!BatchId' = Again!BatchId
      /\ \A r : Again!Own(r)' <=> Again!Own(r)
  BY <1>1, <1>2, Replan
<1>4. Added' = Added /\ \A e : HasRow(e)' <=> HasRow(e)
  BY <1>3 DEF Added, HasRow
<1>5. OwnRowsInv'
  BY <1>3, <1>4 DEF RepeatInv, OwnRowsInv
<1>6. SamePlanInv'
  BY <1>3 DEF RepeatInv, SamePlanInv
<1>7. DoneInv'
  <2>1. stage' \in {"dlq", "record", "commit"} \/ Again!BatchId \in DOMAIN batches =>
           \A e \in Added : HasRow(e)
    BY DEF RepeatInv, DoneInv
  <2>2. Again!BatchId \in DOMAIN batches =>
          /\ batches[Again!BatchId].rows = Rows
          /\ batches[Again!BatchId].watermark = Again!WatermarkAfter
          /\ batches[Again!BatchId].outcomes =
                [o \in Outcome |-> {e \in DOMAIN Labels : Labels[e].outcome = o}]
    BY DEF RepeatInv, DoneInv
  <2> QED
    BY <1>3, <1>4, <2>1, <2>2 DEF DoneInv
<1> QED
  BY <1>5, <1>6, <1>7 DEF RepeatInv

\* A batch whose offsets have just been written has left nothing.
LEMMA TriggerRepeats ==
    ASSUME TypeInv, LineageInv, ProcessInv, EpochInv, Trigger
    PROVE  RepeatInv'
<1>1. /\ stage = "idle" /\ stage' = "begin" /\ UNCHANGED <<epochFile, lake>>
      /\ Len(offsets') = Len(offsets) + 1 /\ Len(offsets) \in Nat
  BY DEF Trigger, TypeInv, TypeOK
<1>2. \A b \in BatchIds : b[1] = epochFile => b[2] < Len(offsets)
  BY <1>1 DEF EpochInv, LineageInv
<1>3. <<epochFile, Len(offsets)>> \notin BatchIds
  BY <1>1, <1>2
<1>4. /\ Again!BatchId' = <<epochFile, Len(offsets)>>
      /\ \A r : Again!Own(r)' <=> r.epoch = epochFile /\ r.batch = Len(offsets)
  BY <1>1 DEF Again!BatchId, Again!Batch, Again!Own, NewContext
<1>5. /\ Again!BatchId' \notin DOMAIN batches'
      /\ (\A row \in bronze : ~Again!Own(row))'
      /\ (\A k \in Key : ~Again!Own(silver[k]))'
  <2>1. Again!BatchId' \notin DOMAIN batches' /\ UNCHANGED <<bronze, silver>>
    BY <1>1, <1>3, <1>4 DEF BatchIds, lake
  <2>2. \A row \in bronze : ~(row.epoch = epochFile /\ row.batch = Len(offsets))
    BY <1>3 DEF BatchIds
  <2>3. \A k \in Key : ~(silver[k].epoch = epochFile /\ silver[k].batch = Len(offsets))
    BY <1>3 DEF BatchIds
  <2> QED
    BY <1>4, <2>1, <2>2, <2>3
<1> QED
  BY <1>1, <1>5 DEF RepeatInv, OwnRowsInv, SamePlanInv, DoneInv, Loaded, Writing

LEMMA PlanBatchRepeats ==
    ASSUME TypeInv, ProcessInv, CacheInv, RepeatInv, PlanBatch
    PROVE  RepeatInv'
<1>1. /\ stage = "plan" /\ stage' \in {"dlq", "silver"}
      /\ stage' = "dlq" => Valid = {}
      /\ planned' = Plan /\ newMark' = WatermarkAfter
      /\ UNCHANGED <<external, checkpoint, lake, ctx>>
  BY DEF PlanBatch
<1>2. stage \in Running /\ stage \in Loaded /\ Pending /\ offsets # <<>>
  <2>1. stage \in Running /\ stage \in Loaded /\ stage # "down"
    BY <1>1 DEF Running, Loaded
  <2> QED
    BY <2>1, BatchIsPlanned DEF Pending, Unfinished, TypeInv, LogInv
<1>3. ctx.registry = NewContext.registry
  BY <1>2 DEF RepeatInv, SamePlanInv
<1>4. NewContext' = NewContext /\ UNCHANGED <<kafka, offsets, commits, silver, bronze, batches>>
  BY <1>1 DEF NewContext, external, checkpoint, lake
<1>5. \A k \in Key : Again!Baseline(k)' = Again!Baseline(k)
  BY <1>4 DEF Again!Baseline, Again!Own, Again!Batch, Again!LsnShown
<1>6. /\ Labels' = Labels /\ Again!WatermarkAfter' = Again!WatermarkAfter
      /\ Rows' = Rows /\ Again!BatchId' = Again!BatchId
      /\ \A r : Again!Own(r)' <=> Again!Own(r)
  BY <1>2, <1>4, <1>5, Replan
<1>7. Added' = Added /\ \A e : HasRow(e)' <=> HasRow(e)
  BY <1>4, <1>6 DEF Added, HasRow
<1>8. planned' = Labels' /\ newMark' = Again!WatermarkAfter'
  BY <1>1, <1>2, <1>3, <1>6, SamePlan
<1>9. OwnRowsInv'
  BY <1>2, <1>4, <1>6, <1>7 DEF RepeatInv, OwnRowsInv
<1>10. SamePlanInv'
  BY <1>1, <1>3, <1>4, <1>8 DEF SamePlanInv
<1>11. stage' = "dlq" => Added = {}
  <2>1. Valid = Again!Valid
    BY <1>2, <1>3, SamePlan
  <2> QED
    BY <1>1, <2>1, LabelsDomain DEF Added, Again!Unique
<1>12. DoneInv'
  <2>1. stage' \in {"dlq", "record", "commit"} \/ Again!BatchId \in DOMAIN batches =>
           \A e \in Added : HasRow(e)
    <3>1. Again!BatchId \in DOMAIN batches => \A e \in Added : HasRow(e)
      BY <1>2 DEF RepeatInv, DoneInv
    <3>2. stage' \in {"dlq", "record", "commit"} => Added = {}
      BY <1>1, <1>11
    <3> QED
      BY <3>1, <3>2
  <2>2. Again!BatchId \in DOMAIN batches =>
          /\ batches[Again!BatchId].rows = Rows
          /\ batches[Again!BatchId].watermark = Again!WatermarkAfter
          /\ batches[Again!BatchId].outcomes =
                [o \in Outcome |-> {e \in DOMAIN Labels : Labels[e].outcome = o}]
    BY <1>2 DEF RepeatInv, DoneInv
  <2> QED
    BY <1>4, <1>6, <1>7, <2>1, <2>2 DEF DoneInv
<1> QED
  BY <1>9, <1>10, <1>12 DEF RepeatInv

LEMMA BeginBatchRepeats ==
    ASSUME TypeInv, RepeatInv, BeginBatch
    PROVE  RepeatInv'
<1>1. /\ stage = "begin" /\ stage \in Running /\ stage' \in {"commit", "plan"}
      /\ stage' = "commit" => Rows = {}
      /\ UNCHANGED <<kafka, contracts, offsets, epochFile, silver, bronze, batches>>
  BY DEF BeginBatch, external, checkpoint, lake, Running
<1>2. /\ ctx'.registry = NewContext.registry
      /\ NewContext' = NewContext
  BY <1>1 DEF BeginBatch, NewContext, TypeInv, TypeOK
<1>3. Pending
  BY <1>1 DEF Pending, Unfinished, TypeInv, LogInv
<1>4. Rows = {} => Added = {}
  BY AgainRows, LabelsDomain DEF Added, Again!Unique
<1> QED
  BY <1>1, <1>2, <1>3, <1>4, QuietRepeat DEF Writing, Loaded

\* Own rows of silver are not merged over, so the baseline stays.
LEMMA MergeSilverRepeats ==
    ASSUME TypeInv, CoverInv, ProcessInv, RepeatInv, MergeSilver
    PROVE  RepeatInv'
<1>1. /\ stage = "silver" /\ stage' \in {"silver", "bronze"}
      /\ silver' \in {silver, MergedSilver(table)}
      /\ UNCHANGED <<kafka, contracts, offsets, epochFile, bronze, batches, ctx,
                     planned, newMark>>
  BY DEF MergeSilver, external, checkpoint, lake
<1>2. stage \in Running /\ stage \in Loaded /\ stage # "down" /\ Writing
  BY <1>1 DEF Running, Loaded, Writing
<1>3. Pending /\ offsets # <<>> /\ ctx.epoch = epochFile
  BY <1>2, BatchIsPlanned DEF Pending, Unfinished, TypeInv, LogInv, ProcessInv
<1>4. NewContext' = NewContext
  BY <1>1 DEF NewContext
<1>5. planned = Labels /\ newMark = Again!WatermarkAfter
  BY <1>2, <1>3 DEF RepeatInv, SamePlanInv
<1>6. CASE silver' = silver
  BY <1>1, <1>2, <1>3, <1>4, <1>6, QuietRepeat DEF RepeatInv, SamePlanInv, Loaded
<1>7. CASE silver' = MergedSilver(table)
  <2>1. ASSUME NEW k \in Key
        PROVE  \/ silver'[k] = silver[k]
               \/ /\ ~Again!Own(silver[k]) /\ Again!Own(silver'[k])
                  /\ silver'[k].prev = LsnShown(silver[k].event)
                  /\ silver'[k].event \in DOMAIN Labels /\ KeyOf[silver'[k].event] = k
                  /\ Labels[silver'[k].event].outcome = "applied"
    <3> SUFFICES ASSUME Updates(table, k) # {} PROVE
                  /\ ~Again!Own(silver[k]) /\ Again!Own(silver'[k])
                  /\ silver'[k].prev = LsnShown(silver[k].event)
                  /\ silver'[k].event \in DOMAIN Labels /\ KeyOf[silver'[k].event] = k
                  /\ Labels[silver'[k].event].outcome = "applied"
      BY <1>7 DEF MergedSilver
    <3>1. PICK e : /\ e \in Updates(table, k)
                   /\ silver'[k] = [event |-> e, prev |-> LsnShown(silver[k].event),
                                    epoch |-> ctx.epoch, batch |-> Batch]
      BY <1>7 DEF MergedSilver
    <3>2. /\ e \in Planned("applied") /\ KeyOf[e] = k
          /\ Lsn[e] > LsnShown(silver[k].event)
          /\ e \in DOMAIN Labels /\ Labels[e].outcome = "applied"
      BY <1>5, <3>1 DEF Updates, Planned
    <3>3. Again!Own(silver'[k])
      BY <1>3, <3>1, AgainRows
    <3>4. ASSUME Again!Own(silver[k]) PROVE FALSE
      <4>1. PICK f : f = silver[k].event
        OBVIOUS
      <4>2. f \in DOMAIN Labels /\ KeyOf[f] = k /\ Labels[f].outcome = "applied"
        BY <1>3, <3>4, <4>1 DEF RepeatInv, OwnRowsInv
      <4>3. f \in Planned("applied") /\ f \in Event /\ e \in Event
        BY <1>5, <3>2, <4>2 DEF Planned, TypeInv, TypeOK
      <4>4. Lsn[e] = Lsn[f]
        BY <1>1, <3>2, <4>2, <4>3 DEF CoverInv, PlanInv
      <4>5. LsnShown(f) = Lsn[f] /\ Lsn[f] \in Nat
        BY <4>3, EventAssumption DEF LsnShown
      <4> QED
        BY <3>2, <4>1, <4>4, <4>5
    <3> QED
      BY <3>1, <3>2, <3>3, <3>4
  <2>2. \A k \in Key : Again!Baseline(k)' = Again!Baseline(k)
    <3>1. Batch' = Batch /\ epochFile' = epochFile
      BY <1>1 DEF Batch
    <3>2. ASSUME NEW k \in Key PROVE Again!Baseline(k)' = Again!Baseline(k)
      <4>1. /\ Again!Baseline(k)' = IF silver'[k].epoch = epochFile /\ silver'[k].batch = Batch
                                   THEN silver'[k].prev ELSE LsnShown(silver'[k].event)
            /\ Again!Baseline(k) = IF silver[k].epoch = epochFile /\ silver[k].batch = Batch
                                   THEN silver[k].prev ELSE LsnShown(silver[k].event)
        BY <3>1 DEF Again!Baseline, Again!Own, Again!Batch, Batch, NewContext,
           Again!LsnShown, LsnShown, NoLsn, Again!NoLsn
      <4> QED
        BY <2>1, <4>1, AgainRows
    <3> QED
      BY <3>2
  <2>3. /\ Labels' = Labels /\ Again!WatermarkAfter' = Again!WatermarkAfter
        /\ Rows' = Rows /\ Again!BatchId' = Again!BatchId
        /\ \A r : Again!Own(r)' <=> Again!Own(r)
    BY <1>1, <1>3, <1>4, <2>2, Replan
  <2>4. Added' = Added /\ \A e : HasRow(e)' <=> HasRow(e)
    BY <1>1, <2>3 DEF Added, HasRow
  <2>5. OwnRowsInv'
    <3>1. \A row \in bronze' : Again!Own(row)' =>
             /\ row.event \in Added'
             /\ Labels'[row.event].outcome = row.outcome
             /\ Labels'[row.event].late = row.late
      BY <1>1, <1>3, <2>3, <2>4 DEF RepeatInv, OwnRowsInv
    <3>2. ASSUME NEW k \in Key, Again!Own(silver'[k])
          PROVE  /\ silver'[k].event \in DOMAIN Labels /\ KeyOf[silver'[k].event] = k
                 /\ Labels[silver'[k].event].outcome = "applied"
      BY <1>3, <2>1, <3>2 DEF RepeatInv, OwnRowsInv
    <3>3. \A k \in Key : Again!Own(silver[k])' => Again!Own(silver'[k])
      BY <1>1, <2>3 DEF Again!Own, Again!Batch
    <3> QED
      BY <2>3, <3>1, <3>2, <3>3 DEF OwnRowsInv
  <2>6. SamePlanInv'
    BY <1>1, <1>2, <1>3, <1>4, <1>5, <2>3 DEF RepeatInv, SamePlanInv, Writing
  <2>7. DoneInv'
    <3>1. Again!BatchId \in DOMAIN batches =>
            /\ \A e \in Added : HasRow(e)
            /\ batches[Again!BatchId].rows = Rows
            /\ batches[Again!BatchId].watermark = Again!WatermarkAfter
            /\ batches[Again!BatchId].outcomes =
                  [o \in Outcome |-> {e \in DOMAIN Labels : Labels[e].outcome = o}]
      BY <1>3 DEF RepeatInv, DoneInv
    <3> QED
      BY <1>1, <2>3, <2>4, <3>1 DEF DoneInv
  <2> QED
    BY <2>5, <2>6, <2>7 DEF RepeatInv
<1> QED
  BY <1>1, <1>6, <1>7

\* What the anti-join leaves out are duplicates, and rows that an earlier
\* attempt has appended.
LEMMA AppendBronzeRepeats ==
    ASSUME TypeInv, ProcessInv, CacheInv, RepeatInv, AppendBronze
    PROVE  RepeatInv'
<1>1. /\ stage = "bronze" /\ stage' \in {"bronze", "dlq"}
      /\ \/ stage' = "bronze" /\ UNCHANGED bronze
         \/ bronze' = bronze \cup BronzeRows
      /\ UNCHANGED <<kafka, contracts, offsets, epochFile, silver, batches, ctx,
                     planned, newMark>>
  BY DEF AppendBronze, AppendFresh, external, checkpoint
<1>2. stage \in Running /\ stage \in Loaded /\ stage # "down" /\ Writing
  BY <1>1 DEF Running, Loaded, Writing
<1>3. Pending /\ offsets # <<>> /\ ctx.epoch = epochFile
  BY <1>2, BatchIsPlanned DEF Pending, Unfinished, TypeInv, LogInv, ProcessInv
<1>4. NewContext' = NewContext
  BY <1>1 DEF NewContext
<1>5. /\ planned = Labels /\ newMark = Again!WatermarkAfter
      /\ ctx.registry = NewContext.registry
  BY <1>2, <1>3 DEF RepeatInv, SamePlanInv
<1>6. CASE stage' = "bronze" /\ UNCHANGED bronze
  BY <1>1, <1>2, <1>3, <1>4, <1>6, QuietRepeat DEF RepeatInv, SamePlanInv, Loaded
<1>7. CASE bronze' = bronze \cup BronzeRows
  <2>1. \A row \in BronzeRows : /\ Again!Own(row) /\ row.event \in Fresh
                                /\ row.event \in Added
                                /\ Labels[row.event].outcome = row.outcome
                                /\ Labels[row.event].late = row.late
    BY <1>3, <1>5, AgainRows DEF BronzeRows, Fresh, Planned, Added
  <2>2. \A row : ~Again!Own(row) => (row \in bronze' <=> row \in bronze)
    BY <1>7, <2>1
  <2>3. \A k \in Key : Again!Baseline(k)' = Again!Baseline(k)
    BY <1>1, <1>4 DEF Again!Baseline, Again!Own, Again!Batch, Again!LsnShown
  <2>4. /\ Labels' = Labels /\ Again!WatermarkAfter' = Again!WatermarkAfter
        /\ Rows' = Rows /\ Again!BatchId' = Again!BatchId
        /\ \A r : Again!Own(r)' <=> Again!Own(r)
    BY <1>1, <1>3, <1>4, <2>2, <2>3, Replan
  <2>5. Added' = Added /\ \A e : HasRow(e) => HasRow(e)'
    BY <1>7, <2>4 DEF Added, HasRow
  <2>6. \A e \in Added : HasRow(e)'
    <3> SUFFICES ASSUME NEW e \in Added PROVE \E row \in bronze' : Again!Own(row) /\ row.event = e
      BY <2>4 DEF HasRow
    <3>1. e \in DOMAIN planned /\ planned[e].outcome # "duplicate"
      BY <1>5 DEF Added
    <3>2. e \in Again!Unique /\ Again!OutcomeOf(e) # "duplicate"
      BY <1>5, <3>1, LabelsDomain DEF Labels, Again!Plan
    <3>3. \A row \in BronzeLookup : row.event = e => Again!Own(row)
      <4>1. ~Again!IsPriorDup(e)
        BY <3>2 DEF Again!OutcomeOf, Again!Candidates
      <4>2. BronzeLookup = Again!BronzeLookup
        BY <1>2, <1>5, SamePlan
      <4> QED
        BY <4>1, <4>2 DEF Again!IsPriorDup
    <3>4. CASE \E row \in BronzeLookup : row.event = e
      BY <1>7, <3>3, <3>4 DEF BronzeLookup
    <3>5. CASE \A row \in BronzeLookup : row.event # e
      <4>1. e \in Fresh
        BY <3>1, <3>5 DEF Fresh, Planned
      <4>2. \E row \in BronzeRows : row.event = e
        <5>1. PICK row : row = [event |-> e, ts |-> planned[e].ts, late |-> planned[e].late,
                     outcome |-> planned[e].outcome, replay_of |-> planned[e].replay_of,
                     epoch |-> ctx.epoch, batch |-> Batch, snapshot |-> snapshots + 1]
          OBVIOUS
        <5>2. row \in BronzeRows /\ row.event = e
          BY <4>1, <5>1 DEF BronzeRows
        <5> QED
          BY <5>2
      <4> QED
        BY <1>7, <2>1, <4>2
    <3> QED
      BY <3>4, <3>5
  <2>7. OwnRowsInv'
    <3>1. \A row \in bronze : Again!Own(row) =>
             /\ row.event \in Added
             /\ Labels[row.event].outcome = row.outcome
             /\ Labels[row.event].late = row.late
      BY <1>3 DEF RepeatInv, OwnRowsInv
    <3>2. \A k \in Key : Again!Own(silver[k]) =>
             /\ silver[k].event \in DOMAIN Labels /\ KeyOf[silver[k].event] = k
             /\ Labels[silver[k].event].outcome = "applied"
      BY <1>3 DEF RepeatInv, OwnRowsInv
    <3> QED
      BY <1>1, <1>7, <2>1, <2>4, <2>5, <3>1, <3>2 DEF OwnRowsInv
  <2>8. SamePlanInv'
    BY <1>1, <1>4, <1>5, <2>4 DEF SamePlanInv
  <2>9. DoneInv'
    <3>1. Again!BatchId \in DOMAIN batches =>
            /\ batches[Again!BatchId].rows = Rows
            /\ batches[Again!BatchId].watermark = Again!WatermarkAfter
            /\ batches[Again!BatchId].outcomes =
                  [o \in Outcome |-> {e \in DOMAIN Labels : Labels[e].outcome = o}]
      BY <1>3 DEF RepeatInv, DoneInv
    <3> QED
      BY <1>1, <2>4, <2>5, <2>6, <3>1 DEF DoneInv
  <2> QED
    BY <2>7, <2>8, <2>9 DEF RepeatInv
<1> QED
  BY <1>1, <1>6, <1>7

LEMMA MergeRecordRepeats ==
    ASSUME TypeInv, ProcessInv, CacheInv, RepeatInv, MergeRecord
    PROVE  RepeatInv'
<1>1. /\ stage = "record" /\ stage' \in {"record", "commit"}
      /\ batches' \in {batches, MergedBatches}
      /\ stage' = "record" => UNCHANGED ctx
      /\ UNCHANGED <<kafka, contracts, offsets, epochFile, silver, bronze, planned, newMark>>
  BY DEF MergeRecord, external, checkpoint
<1>2. stage \in Running /\ stage \in Loaded /\ stage # "down" /\ Writing
  BY <1>1 DEF Running, Loaded, Writing
<1>3. Pending /\ offsets # <<>> /\ ctx.epoch = epochFile
  BY <1>2, BatchIsPlanned DEF Pending, Unfinished, TypeInv, LogInv, ProcessInv
<1>4. ctx'.registry = ctx.registry /\ NewContext' = NewContext
  BY <1>1 DEF MergeRecord, NewContext, TypeInv, TypeOK
<1>5. /\ planned = Labels /\ newMark = Again!WatermarkAfter
      /\ ctx.registry = NewContext.registry
  BY <1>2, <1>3 DEF RepeatInv, SamePlanInv
<1>6. CASE batches' = batches
  BY <1>1, <1>2, <1>3, <1>4, <1>5, <1>6, QuietRepeat DEF Writing
<1>7. CASE batches' = MergedBatches
  <2>1. BatchId = Again!BatchId
    BY <1>3, AgainRows DEF BatchId
  <2>2. /\ DOMAIN batches' = DOMAIN batches \cup {Again!BatchId}
        /\ \A b \in DOMAIN batches : b # Again!BatchId => batches'[b] = batches[b]
        /\ batches'[Again!BatchId].rows = Rows
        /\ batches'[Again!BatchId].watermark = newMark
        /\ batches'[Again!BatchId].outcomes = [o \in Outcome |-> Planned(o)]
    BY <1>7, <2>1 DEF MergedBatches
  <2>3. \A k \in Key : Again!Baseline(k)' = Again!Baseline(k)
    BY <1>1, <1>4 DEF Again!Baseline, Again!Own, Again!Batch, Again!LsnShown
  <2>4. /\ Labels' = Labels /\ Again!WatermarkAfter' = Again!WatermarkAfter
        /\ Rows' = Rows /\ Again!BatchId' = Again!BatchId
        /\ \A r : Again!Own(r)' <=> Again!Own(r)
    BY <1>1, <1>3, <1>4, <2>2, <2>3, Replan
  <2>5. Added' = Added /\ \A e : HasRow(e)' <=> HasRow(e)
    BY <1>1, <2>4 DEF Added, HasRow
  <2>6. OwnRowsInv'
    BY <1>1, <1>3, <2>4, <2>5 DEF RepeatInv, OwnRowsInv
  <2>7. SamePlanInv'
    BY <1>1, <1>4, <1>5, <2>4 DEF SamePlanInv
  <2>8. \A e \in Added : HasRow(e)
    BY <1>1, <1>3 DEF RepeatInv, DoneInv
  <2>9. [o \in Outcome |-> Planned(o)]
          = [o \in Outcome |-> {e \in DOMAIN Labels : Labels[e].outcome = o}]
    BY <1>5 DEF Planned
  <2>10. DoneInv'
    BY <1>5, <2>2, <2>4, <2>5, <2>8, <2>9 DEF DoneInv
  <2> QED
    BY <2>6, <2>7, <2>10 DEF RepeatInv
<1> QED
  BY <1>1, <1>6, <1>7

\* The batch that is pending after a step was so before, or has just been
\* planned.
LEMMA PendingStep ==
    ASSUME TypeInv, LineageInv, ProcessInv, [Next]_vars, Steady, Pending', ~Trigger
    PROVE  /\ Pending /\ UNCHANGED <<offsets, commits>> /\ NewContext' = NewContext
           /\ ~CommitBatch /\ ~WipeCheckpoint
<1>1. ~CommitBatch
  BY DEF CommitBatch, Pending, Unfinished, TypeInv, TypeOK
<1>2. ~WipeCheckpoint
  BY DEF WipeCheckpoint, Pending, Unfinished
<1>3. UNCHANGED <<offsets, commits>>
  BY <1>1, <1>2 DEF Next, Environment, Produce, Replay, Deploy, Job, StartUp, EnsureEpoch,
     StartQuery, Resume, ProcessBatch, BeginBatch, PlanBatch, MergeSilver, AppendBronze,
     MergeDlq, MergeRecord, Crash, vars, checkpoint
<1>4. Unfinished /\ UNCHANGED contracts
  BY <1>3 DEF Pending, Unfinished, Steady
<1>5. metadata
  BY <1>4 DEF Unfinished, LineageInv, TypeInv, TypeOK
<1>6. UNCHANGED epochFile
  BY <1>2, <1>5 DEF Next, Environment, Produce, Replay, Deploy, Job, StartUp, EnsureEpoch,
     EpochKept, ProcessInv,
     StartQuery, Trigger, Resume, ProcessBatch, BeginBatch, PlanBatch, MergeSilver, AppendBronze,
     MergeDlq, MergeRecord, CommitBatch, Crash, vars, checkpoint
<1>7. CASE contracts \in Loadable
  BY <1>1, <1>2, <1>3, <1>4, <1>6, <1>7 DEF Pending, NewContext
<1>8. CASE contracts \notin Loadable
  <2>1. stage' # "down"
    BY <1>4, <1>8 DEF Pending
  <2>2. ~EnsureEpoch /\ ~Crash
    BY <1>8, <2>1 DEF EnsureEpoch, Crash
  <2>3. stage # "down"
    BY <1>1, <1>2, <2>1, <2>2 DEF Next, Environment, Produce, Replay, Deploy, Job, StartUp,
       StartQuery, Trigger, Resume, ProcessBatch, BeginBatch, PlanBatch, MergeSilver, AppendBronze,
       MergeDlq, MergeRecord, vars, process
  <2>4. ctx'.registry = ctx.registry
    <3>1. CASE BeginBatch
      BY <1>8, <3>1 DEF BeginBatch, TypeInv, TypeOK
    <3>2. CASE MergeRecord
      BY <3>2 DEF MergeRecord, TypeInv, TypeOK
    <3> QED
      BY <2>2, <3>1, <3>2 DEF Next, Environment, Produce, Replay, Deploy, WipeCheckpoint,
         Job, StartUp,
         StartQuery, Trigger, Resume, ProcessBatch, PlanBatch, MergeSilver, AppendBronze,
         MergeDlq, CommitBatch, vars, process
  <2> QED
    BY <1>1, <1>2, <1>3, <1>4, <1>6, <2>3, <2>4 DEF Pending, NewContext
<1> QED
  BY <1>7, <1>8

LEMMA RepeatStep ==
    ASSUME TypeInv, CoverInv, LineageInv, BatchesInv, RepeatInv, [Next]_vars, Steady
    PROVE  RepeatInv'
<1> SUFFICES ASSUME Pending' PROVE RepeatInv'
  BY DEF RepeatInv
<1>1. CASE Trigger
  BY <1>1, TriggerRepeats DEF BatchesInv
<1>2. CASE BeginBatch \/ PlanBatch \/ MergeSilver \/ AppendBronze \/ MergeRecord
  BY <1>2, BeginBatchRepeats, PlanBatchRepeats, MergeSilverRepeats, AppendBronzeRepeats,
     MergeRecordRepeats DEF BatchesInv
<1>3. CASE ~(Trigger \/ BeginBatch \/ PlanBatch \/ MergeSilver \/ AppendBronze \/ MergeRecord)
  <2>1. /\ Pending /\ UNCHANGED <<offsets, commits>> /\ NewContext' = NewContext
        /\ ~CommitBatch /\ ~WipeCheckpoint
    BY <1>3, PendingStep DEF BatchesInv
  <2>2. UNCHANGED kafka \/ LogAppend
    BY LogStep
  <2>3. /\ UNCHANGED <<silver, bronze, batches>>
        /\ stage' \in Loaded => stage \in Loaded /\ UNCHANGED ctx
        /\ Writing' => UNCHANGED <<planned, newMark>> /\ Writing
        /\ stage' \in {"dlq", "record", "commit"} => stage \in {"dlq", "record", "commit"}
    BY <1>3, <2>1 DEF Next, Environment, Produce, Replay, Deploy, Job, StartUp, EnsureEpoch,
       StartQuery, Resume, ProcessBatch, MergeDlq, Crash, vars, lake, process, batch,
       Loaded, Running, Writing
  <2>4. stage' \in Loaded => ctx'.registry = NewContext'.registry
    BY <2>1, <2>3 DEF RepeatInv, SamePlanInv
  <2> QED
    BY <2>1, <2>2, <2>3, <2>4, QuietRepeat
<1> QED
  BY <1>1, <1>2, <1>3

LEMMA RepeatInit == Init => RepeatInv
BY DEF Init, RepeatInv, Pending, Unfinished

\* The sink, if no promotion comes between the planning of a batch and its
\* commit.  One that does may change verdicts, and the outcomes with them (run
\* replay_crash).
SteadySpec == Spec /\ [][Steady]_vars

\* If no contracts are promoted between the attempts of a batch, all of them make
\* the plan of the first one, whatever each has left in the tables: the re-run
\* that the checkpoint asks for changes nothing (process_batch 418-583).
THEOREM RepeatInvariant == SteadySpec => []RepeatInv
<1>1. TypeInv /\ CoverInv /\ DlqInv /\ BatchesInv /\ RepeatInv /\ [Next]_vars /\ [Steady]_vars
        => RepeatInv'
  <2>1. ASSUME TypeInv, CoverInv, DlqInv, BatchesInv, RepeatInv, [Next]_vars, [Steady]_vars
        PROVE  RepeatInv'
    <3>1. Steady
      BY <2>1 DEF Steady, vars, external
    <3> QED
      BY <2>1, <3>1, RepeatStep DEF DlqInv
  <2> QED
    BY <2>1
<1> QED
  BY <1>1, RepeatInit, TypeInvariant, CoverInvariant, DlqInvariant, BatchesInvariant, PTL
  DEF SteadySpec, Spec

-----------------------------------------------------------------------------
(* What follows for the plan, the tables and the batch records             *)

\* Planning the running batch again, at any point of its own writes and on
\* any attempt, gives the plan it is executing (plan 228-253): own rows do not
\* count as duplicates and _prev_source_lsn restores the baseline.
THEOREM PlanSurvives == SteadySpec => []PlanSurvivesOwnWrites
<1>1. TypeInv /\ BatchesInv /\ RepeatInv => PlanSurvivesOwnWrites
  <2> SUFFICES ASSUME TypeInv, BatchesInv, RepeatInv, Writing PROVE planned = Plan
    BY DEF PlanSurvivesOwnWrites
  <2>1. stage \in Running /\ stage \in Loaded /\ stage # "down"
    BY DEF Writing, Running, Loaded
  <2>2. Pending
    BY <2>1 DEF Pending, Unfinished, TypeInv, LogInv
  <2>3. planned = Labels /\ ctx.registry = NewContext.registry
    BY <2>1, <2>2 DEF RepeatInv, SamePlanInv
  <2> QED
    BY <2>1, <2>3, SamePlan DEF BatchesInv
<1> QED
  BY <1>1, TypeInvariant, BatchesInvariant, RepeatInvariant, PTL DEF SteadySpec

\* The rows that an earlier attempt of a batch left in bronze carry the labels
\* of the plan that the present attempt makes (ADR-0003 rule 8).
THEOREM LabelsSurvive == SteadySpec => []LabelsSurviveCrash
<1>1. TypeInv /\ BatchesInv /\ RepeatInv => LabelsSurviveCrash
  <2> SUFFICES ASSUME TypeInv, BatchesInv, RepeatInv, Writing,
                      NEW row \in bronze, Own(row)
               PROVE  /\ row.event \in DOMAIN planned
                      /\ planned[row.event].outcome = row.outcome
                      /\ planned[row.event].late = row.late
    BY DEF LabelsSurviveCrash
  <2>1. stage \in Running /\ stage # "down"
    BY DEF Writing, Running
  <2>2. Pending /\ ctx.epoch = epochFile
    BY <2>1 DEF Pending, Unfinished, TypeInv, LogInv, BatchesInv, ProcessInv
  <2>3. planned = Labels /\ Again!Own(row)
    BY <2>2, AgainRows DEF RepeatInv, SamePlanInv, Own
  <2> QED
    BY <2>2, <2>3 DEF RepeatInv, OwnRowsInv, Added
<1> QED
  BY <1>1, TypeInvariant, BatchesInvariant, RepeatInvariant, PTL DEF SteadySpec

\* A step changes the rows and the record of the running batch only.
LEMMA OtherBatches ==
    ASSUME TypeInv, CoverInv, [Next]_vars, NEW b, stage \in Running => b # BatchId
    PROVE  /\ b \in DOMAIN batches' <=> b \in DOMAIN batches
           /\ b \in DOMAIN batches => batches'[b] = batches[b]
           /\ \A row : <<row.epoch, row.batch>> = b =>
                          (row \in bronze' <=> row \in bronze)
<1>1. /\ b \in DOMAIN batches' <=> b \in DOMAIN batches
      /\ b \in DOMAIN batches => batches'[b] = batches[b]
  <2>1. CASE UNCHANGED batches
    BY <2>1
  <2>2. CASE stage = "record" /\ batches' = MergedBatches
    <3>1. b # BatchId
      BY <2>2 DEF Running
    <3>2. DOMAIN MergedBatches = DOMAIN batches \cup {BatchId}
      BY DEF MergedBatches
    <3>3. b \in DOMAIN batches => MergedBatches[b] = batches[b]
      BY <3>1 DEF MergedBatches
    <3> QED
      BY <2>2, <3>1, <3>2, <3>3
  <2>3. CASE MergeRecord
    BY <2>1, <2>2, <2>3 DEF MergeRecord
  <2> QED
    BY <2>1, <2>3 DEF Next, Environment, Produce, Replay, Deploy, WipeCheckpoint, Job,
       StartUp, EnsureEpoch, StartQuery, Trigger, Resume, ProcessBatch, BeginBatch,
       PlanBatch, MergeSilver, AppendBronze, MergeDlq, CommitBatch, Crash, lake, vars
<1>2. \A row : <<row.epoch, row.batch>> = b => (row \in bronze' <=> row \in bronze)
  <2>1. CASE UNCHANGED bronze
    BY <2>1
  <2>2. CASE stage = "bronze" /\ bronze' = bronze \cup BronzeRows
    <3>1. \A row \in BronzeRows : <<row.epoch, row.batch>> = BatchId
      BY DEF BronzeRows, BatchId
    <3> QED
      BY <2>2, <3>1 DEF Running
  <2> QED
    BY <2>1, <2>2, TablesStep
<1> QED
  BY <1>1, <1>2

RowsOf(b, o) == {row.event : row \in {r \in bronze : /\ <<r.epoch, r.batch>> = b
                                                     /\ r.outcome = o}}

\* The record of the pending batch counts what is in bronze.
PendingMatches ==
    Pending /\ Again!BatchId \in DOMAIN batches =>
        \A o \in Outcome \ {"duplicate"} :
            batches[Again!BatchId].outcomes[o] = RowsOf(Again!BatchId, o)

LEMMA PendingRecord == RepeatInv => PendingMatches
<1> SUFFICES ASSUME RepeatInv, Pending, Again!BatchId \in DOMAIN batches,
                    NEW o \in Outcome \ {"duplicate"}
             PROVE  batches[Again!BatchId].outcomes[o] = RowsOf(Again!BatchId, o)
  BY DEF PendingMatches
<1>1. batches[Again!BatchId].outcomes[o] = {e \in DOMAIN Labels : Labels[e].outcome = o}
  BY DEF RepeatInv, DoneInv
<1>2. \A row : <<row.epoch, row.batch>> = Again!BatchId <=> Again!Own(row)
  BY AgainRows
<1>3. ASSUME NEW e \in DOMAIN Labels, Labels[e].outcome = o PROVE e \in RowsOf(Again!BatchId, o)
  <2>1. e \in Added
    BY <1>3 DEF Added
  <2>2. PICK row \in bronze : Again!Own(row) /\ row.event = e
    BY <2>1 DEF RepeatInv, DoneInv, HasRow
  <2>3. row.outcome = o
    BY <1>3, <2>2 DEF RepeatInv, OwnRowsInv
  <2> QED
    BY <1>2, <2>2, <2>3 DEF RowsOf
<1>4. ASSUME NEW e \in RowsOf(Again!BatchId, o)
      PROVE  e \in DOMAIN Labels /\ Labels[e].outcome = o
  <2>1. PICK row \in bronze : Again!Own(row) /\ row.event = e /\ row.outcome = o
    BY <1>2 DEF RowsOf
  <2> QED
    BY <2>1 DEF RepeatInv, OwnRowsInv, Added
<1> QED
  BY <1>1, <1>3, <1>4

\* The outcomes counted in a batch record are those of the bronze rows of the
\* batch, over all of its attempts (merge_batch_record_sql).
THEOREM RecordsMatch == SteadySpec => []RecordMatchesBronze
<1>1. Init => RecordMatchesBronze
  BY DEF Init, RecordMatchesBronze
<1>2. TypeInv /\ TypeInv' /\ CoverInv /\ BatchesInv /\ PendingMatches'
        /\ RecordMatchesBronze /\ [Next]_vars => RecordMatchesBronze'
  <2> SUFFICES ASSUME TypeInv, TypeInv', CoverInv, BatchesInv, PendingMatches',
                      RecordMatchesBronze, [Next]_vars,
                      NEW b \in DOMAIN batches', NEW o \in Outcome \ {"duplicate"}
               PROVE  batches'[b].outcomes[o] = RowsOf(b, o)'
    BY DEF RecordMatchesBronze, RowsOf
  <2>1. CASE Pending' /\ b = Again!BatchId'
    BY <2>1 DEF PendingMatches
  <2>2. CASE stage \in Running => b # BatchId
    <3>1. /\ b \in DOMAIN batches /\ batches'[b] = batches[b]
          /\ \A row : <<row.epoch, row.batch>> = b => (row \in bronze' <=> row \in bronze)
      BY <2>2, OtherBatches
    <3>2. RowsOf(b, o)' = RowsOf(b, o)
      BY <3>1 DEF RowsOf
    <3>3. batches[b].outcomes[o] = RowsOf(b, o)
      BY <3>1 DEF RecordMatchesBronze, RowsOf
    <3> QED
      BY <3>1, <3>2, <3>3
  <2>3. CASE stage \in Running /\ b = BatchId /\ ~(Pending' /\ b = Again!BatchId')
    <3>1. ~AppendBronze /\ ~MergeRecord
      <4>1. SUFFICES ASSUME AppendBronze \/ MergeRecord PROVE FALSE
        OBVIOUS
      <4>2. /\ UNCHANGED <<offsets, commits, epochFile>> /\ stage' # "down"
            /\ stage # "down"
        BY <4>1 DEF AppendBronze, MergeRecord, checkpoint
      <4>3. Pending'
        BY <2>3, <4>2 DEF Pending, Unfinished, TypeInv, LogInv
      <4>4. Again!BatchId' = BatchId
        BY <4>2 DEF Again!BatchId, Again!Batch, NewContext, BatchId, Batch, BatchesInv,
           ProcessInv
      <4> QED
        BY <2>3, <4>3, <4>4
    <3>2. UNCHANGED <<bronze, batches>>
      BY <3>1 DEF Next, Environment, Produce, Replay, Deploy, WipeCheckpoint, Job,
         StartUp, EnsureEpoch, StartQuery, Trigger, Resume, ProcessBatch, BeginBatch,
         PlanBatch, MergeSilver, MergeDlq, CommitBatch, Crash, lake, vars
    <3> QED
      BY <3>2 DEF RecordMatchesBronze, RowsOf
  <2> QED
    BY <2>1, <2>2, <2>3
<1> QED
  BY <1>1, <1>2, PendingRecord, TypeInvariant, CoverInvariant, BatchesInvariant,
     RepeatInvariant, PTL
  DEF SteadySpec, Spec

\* A batch record is only ever rewritten by another attempt of the batch, with
\* the same records, outcomes and watermark (ensure_epoch 42-51).
THEOREM RecordsRepeat == SteadySpec => RecordsAreRepeatable
<1> DEFINE Kept == \A b \in DOMAIN batches :
                     /\ b \in DOMAIN batches'
                     /\ batches'[b].rows = batches[b].rows
                     /\ batches'[b].outcomes = batches[b].outcomes
                     /\ batches'[b].watermark = batches[b].watermark
<1>1. TypeInv /\ CoverInv /\ BatchesInv /\ RepeatInv /\ [Next]_vars => [Kept]_vars
  <2> SUFFICES ASSUME TypeInv, CoverInv, BatchesInv, RepeatInv, [Next]_vars,
                      NEW b \in DOMAIN batches
               PROVE  /\ b \in DOMAIN batches'
                      /\ batches'[b].rows = batches[b].rows
                      /\ batches'[b].outcomes = batches[b].outcomes
                      /\ batches'[b].watermark = batches[b].watermark
    OBVIOUS
  <2>1. CASE stage \in Running => b # BatchId
    BY <2>1, OtherBatches
  <2>2. CASE UNCHANGED batches
    BY <2>2
  <2>3. CASE stage = "record" /\ batches' = MergedBatches /\ b = BatchId
    <3>1. Writing /\ stage \in Running /\ stage # "down"
      BY <2>3 DEF Writing, Running
    <3>2. Pending /\ BatchId = Again!BatchId
      BY <3>1, AgainRows DEF Pending, Unfinished, TypeInv, LogInv, BatchesInv, ProcessInv,
         BatchId
    <3>3. planned = Labels /\ newMark = Again!WatermarkAfter
      BY <3>1, <3>2 DEF RepeatInv, SamePlanInv
    <3>4. /\ batches[b].rows = Rows /\ batches[b].watermark = newMark
          /\ batches[b].outcomes = [o \in Outcome |-> Planned(o)]
      BY <2>3, <3>2, <3>3 DEF RepeatInv, DoneInv, Planned
    <3>5. /\ b \in DOMAIN batches' /\ batches'[b].rows = Rows
          /\ batches'[b].watermark = newMark
          /\ batches'[b].outcomes = [o \in Outcome |-> Planned(o)]
      BY <2>3 DEF MergedBatches
    <3> QED
      BY <3>4, <3>5
  <2>4. CASE MergeRecord
    BY <2>1, <2>2, <2>3, <2>4 DEF MergeRecord
  <2> QED
    BY <2>2, <2>4 DEF Next, Environment, Produce, Replay, Deploy, WipeCheckpoint, Job,
       StartUp, EnsureEpoch, StartQuery, Trigger, Resume, ProcessBatch, BeginBatch,
       PlanBatch, MergeSilver, AppendBronze, MergeDlq, CommitBatch, Crash, lake, vars
<1> QED
  BY <1>1, TypeInvariant, CoverInvariant, BatchesInvariant, RepeatInvariant, PTL
  DEF SteadySpec, Spec, RecordsAreRepeatable

-----------------------------------------------------------------------------
(* What the tables show comes from Kafka, and with one contract set all of *)
(* it that the set accepts gets there.                                     *)

\* Events of the records that some contract set accepts.
Acceptable == {EventAt(x) : x \in {y \in Produced : /\ At(y).body.kind = "change"
                                                    /\ \E v \in Loadable : v \in At(y).body.accepted}}

SourceInv ==
    /\ \A row \in bronze : row.event \in Acceptable
    /\ \A k \in Key : silver[k] = NoRow \/ /\ silver[k].event \in Acceptable
                                           /\ KeyOf[silver[k].event] = k
    /\ Versions = 1 => \A d \in DOMAIN dlq : 1 \notin At(d).body.accepted

LEMMA ProducedIsMessage ==
    ASSUME TypeInv, NEW x \in Produced
    PROVE  At(x) \in Message
<1>1. x[1] \in Partition /\ x[2] \in 1..Len(kafka[x[1]])
  <2>1. x \in Partition \X (1..MaxOffset) /\ x[2] <= Len(kafka[x[1]])
    BY DEF Produced, Coordinates
  <2> QED
    BY <2>1 DEF TypeInv, TypeOK
<1> QED
  BY <1>1 DEF At, TypeInv, TypeOK

LEMMA OneVersion == Versions = 1 => Loadable = {1}
<1>1. Versions = 1 => 1..Versions = {1}
  OBVIOUS
<1> QED
  BY <1>1, BoundAssumption

LEMMA AcceptableGrows ==
    ASSUME TypeInv, [Next]_vars
    PROVE  Acceptable \subseteq Acceptable'
<1>1. CASE UNCHANGED kafka
  BY <1>1 DEF Acceptable, EventAt, At, Produced
<1>2. CASE LogAppend
  BY <1>2, LogKept DEF Acceptable, EventAt
<1> QED
  BY <1>1, <1>2, LogStep

LEMMA UniqueIsAcceptable ==
    ASSUME TypeInv, ProcessInv, stage \in Running
    PROVE  Unique \subseteq Acceptable
<1>1. ctx.registry \in Loadable
  BY DEF ProcessInv, Running
<1>2. ASSUME NEW x \in Valid
      PROVE  /\ x \in Produced /\ At(x).body.kind = "change"
             /\ ctx.registry \in At(x).body.accepted
  <2>1. x \in Rows /\ Status(x, ctx.registry) = "valid"
    BY DEF Valid
  <2>2. x \in Coordinates /\ x[2] \in 1..Len(kafka[x[1]])
    BY <2>1, RowIsMessage
  <2>3. At(x).body.kind = "change"
    BY ValidIsChange
  <2> QED
    BY <2>1, <2>2, <2>3 DEF Status, Produced
<1> QED
  BY <1>1, <1>2 DEF Unique, Acceptable

LEMMA SourceStep ==
    ASSUME TypeInv, CoverInv, DeliveryInv, ProcessInv, SourceInv, [Next]_vars
    PROVE  SourceInv'
<1>1. \A e \in Acceptable : e \in Acceptable'
  BY AcceptableGrows
<1>2. \A row \in bronze' : row.event \in Acceptable'
  <2>1. CASE UNCHANGED bronze
    BY <1>1, <2>1 DEF SourceInv
  <2>2. CASE stage = "bronze" /\ bronze' = bronze \cup BronzeRows
    <3>1. \A row \in BronzeRows : row.event \in DOMAIN planned
      BY DEF BronzeRows, Fresh
    <3>2. DOMAIN planned \subseteq Acceptable
      BY <2>2, UniqueIsAcceptable DEF DeliveryInv, PlannedInv, Running
    <3> QED
      BY <1>1, <2>2, <3>1, <3>2 DEF SourceInv
  <2> QED
    BY <2>1, <2>2, TablesStep
<1>3. ASSUME NEW k \in Key
      PROVE  silver'[k] = NoRow \/ /\ silver'[k].event \in Acceptable'
                                   /\ KeyOf[silver'[k].event] = k
  <2>1. CASE silver'[k] = silver[k]
    BY <1>1, <2>1 DEF SourceInv
  <2>2. CASE stage = "silver" /\ silver' = MergedSilver(table)
    <3>1. \/ silver'[k] = silver[k]
          \/ silver'[k].event \in Updates(table, k)
      BY <2>2, MergedSilverType DEF Running
    <3>2. DOMAIN planned \subseteq Acceptable
      BY <2>2, UniqueIsAcceptable DEF DeliveryInv, PlannedInv, Running
    <3>3. \A e \in Updates(table, k) : e \in DOMAIN planned /\ KeyOf[e] = k
      BY DEF Updates, Planned
    <3> QED
      BY <1>1, <2>1, <3>1, <3>2, <3>3
  <2> QED
    BY <2>1, <2>2, TablesStep
<1>4. ASSUME Versions = 1, NEW d \in DOMAIN dlq' PROVE 1 \notin At(d)'.body.accepted
  <2>1. d \in DOMAIN dlq => d \in Produced /\ 1 \notin At(d).body.accepted
    BY <1>4, DlqInProduced DEF SourceInv
  <2>2. CASE UNCHANGED <<kafka, dlq>>
    BY <2>1, <2>2 DEF At
  <2>3. CASE LogAppend
    <3>1. UNCHANGED dlq
      BY <2>3 DEF LogAppend, lake
    <3> QED
      BY <2>1, <2>3, <3>1, LogKept
  <2>4. ASSUME stage \in Running, UNCHANGED kafka, NEW src \in DlqSources,
               dlq' = MergedDlq(src)
        PROVE  1 \notin At(d)'.body.accepted
    <3>1. At(d)' = At(d)
      BY <2>4 DEF At
    <3>2. CASE d \in DOMAIN dlq
      BY <2>1, <3>1, <3>2
    <3>3. CASE d \notin DOMAIN dlq
      <4>1. d \in Rejected
        BY <2>4, <3>3, MergedDlqRows
      <4>2. ctx.registry = 1
        BY <1>4, <2>4, OneVersion DEF ProcessInv, Running
      <4>3. At(d).body.kind = "change"
        BY <2>4, <4>1, InputIsChange DEF DlqInput
      <4> QED
        BY <3>1, <4>1, <4>2, <4>3 DEF Rejected, Status
    <3> QED
      BY <3>2, <3>3
  <2> QED
    BY <2>2, <2>3, <2>4, LogStep, DlqStep DEF LogAppend, lake
<1> QED
  BY <1>2, <1>3, <1>4 DEF SourceInv

\* Bronze and silver hold only changes that some contract set accepts, and with
\* one set the DLQ holds none that it accepts (decode.py 96-198).
THEOREM SourceInvariant == Spec => []SourceInv
<1>1. Init => SourceInv
  BY DEF Init, SourceInv
<1>2. TypeInv /\ CoverInv /\ DlqInv /\ BatchesInv /\ SourceInv /\ [Next]_vars => SourceInv'
  BY SourceStep DEF DlqInv, BatchesInv
<1> QED
  BY <1>1, <1>2, TypeInvariant, CoverInvariant, DlqInvariant, BatchesInvariant, PTL
  DEF Spec

\* Once the job has caught up, bronze is the set of accepted changes and every
\* silver row shows the newest of its key (ADR-0003), whatever was delivered
\* twice, out of order or run again.
THEOREM SettledMatches == Spec => []SettledMatchesSource
<1>1. TypeInv /\ CoverInv /\ DlqInv /\ SourceInv => SettledMatchesSource
  <2> SUFFICES ASSUME TypeInv, CoverInv, DlqInv, SourceInv, Settled, Versions = 1
               PROVE  LET accepted == {EventAt(x) : x \in ValidIn(1)}
                      IN  /\ {row.event : row \in bronze} = accepted
                          /\ \A k \in Key :
                              LET mine == {e \in accepted : KeyOf[e] = k}
                              IN  IF mine = {} THEN silver[k] = NoRow
                                  ELSE /\ silver[k].event \in mine
                                       /\ \A e \in mine : Lsn[e] <= Lsn[silver[k].event]
    BY DEF SettledMatchesSource
  <2> DEFINE accepted == {EventAt(x) : x \in ValidIn(1)}
  <2>1. Loadable = {1}
    BY OneVersion
  <2>2. ValidIn(1) = {y \in Produced : /\ At(y).body.kind = "change"
                                       /\ 1 \in At(y).body.accepted}
    <3>1. \A y \in Produced : Status(y, 1) = "valid" <=> /\ At(y).body.kind = "change"
                                                         /\ 1 \in At(y).body.accepted
      <4>1. \A y \in Produced : At(y).body.kind \in {"change", "tombstone", "gap"}
        <5>1. \A y \in Produced : At(y).body \in Body
          BY ProducedIsMessage DEF Message
        <5>2. \A b \in Body : b.kind \in {"change", "tombstone", "gap"}
          BY BodyAssumption
        <5> QED
          BY <5>1, <5>2
      <4>2. ASSUME NEW y \in Produced
            PROVE  Status(y, 1) = "valid" <=> /\ At(y).body.kind = "change"
                                              /\ 1 \in At(y).body.accepted
        <5>1. CASE At(y).body.kind = "change"
          BY <5>1 DEF Status
        <5>2. CASE At(y).body.kind # "change"
          BY <4>1, <5>2 DEF Status
        <5> QED
          BY <5>1, <5>2
      <4> QED
        BY <4>2
    <3> QED
      BY <3>1 DEF ValidIn
  <2>3. accepted = Acceptable
    BY <2>1, <2>2 DEF Acceptable
  <2>4. ASSUME NEW x \in ValidIn(1) PROVE InBronze(EventAt(x))
    <3>1. x \in Produced /\ At(x).body.kind = "change" /\ 1 \in At(x).body.accepted
      BY <2>2
    <3>2. Committed(x)
      <4>1. x \in Coordinates /\ x[1] \in Partition /\ x[2] \in 1..MaxOffset
            /\ x[2] <= Len(kafka[x[1]])
        BY <3>1 DEF Produced, Coordinates
      <4>2. Start(x[1]) = Len(kafka[x[1]]) /\ Len(offsets) = commits
        BY <4>1 DEF Settled
      <4>3. Start(x[1]) # 0
        BY <4>1, <4>2
      <4>4. offsets # <<>> /\ offsets[Len(offsets)][x[1]] = Len(kafka[x[1]])
        BY <4>2, <4>3 DEF Start
      <4>5. commits > 0
        BY <4>2, <4>4 DEF TypeInv, TypeOK
      <4> QED
        BY <4>1, <4>2, <4>4, <4>5 DEF Committed
    <3>3. Stored(x)
      BY <3>1, <3>2 DEF DlqInv, DeliveryInv, NothingLost, Produced
    <3>4. DlqId(x) \notin DOMAIN dlq
      <4>1. At(DlqId(x)).body = At(x).body
        BY <3>1 DEF DlqInv, OriginInv, DlqId
      <4> QED
        BY <3>1, <4>1 DEF SourceInv
    <3> QED
      BY <3>1, <3>3, <3>4 DEF Stored, InBronze
  <2>5. {row.event : row \in bronze} = accepted
    <3>1. \A e \in accepted : \E row \in bronze : row.event = e
      BY <2>4 DEF InBronze
    <3>2. \A row \in bronze : row.event \in accepted
      BY <2>3 DEF SourceInv
    <3> HIDE DEF accepted
    <3> QED
      BY <3>1, <3>2
  <2>6. ASSUME NEW e \in accepted
        PROVE  /\ e \in Event /\ Lsn[e] \in Nat
               /\ Lsn[e] <= LsnShown(silver[KeyOf[e]].event)
               /\ silver[KeyOf[e]].event # NoEvent /\ KeyOf[e] \in Key
    <3>1. PICK row \in bronze : row.event = e
      BY <2>5
    <3>2. e \in Event /\ Lsn[e] \in Nat /\ KeyOf[e] \in Key
      BY <3>1, EventAssumption DEF TypeInv, TypeOK, BronzeRow
    <3>3. Lsn[e] <= LsnShown(silver[KeyOf[e]].event)
      BY <3>1 DEF CoverInv, SilverCoversBronze
    <3>4. silver[KeyOf[e]].event # NoEvent
      BY <3>2, <3>3 DEF LsnShown, NoLsn
    <3> QED
      BY <3>2, <3>3, <3>4
  <2>7. ASSUME NEW k \in Key
        PROVE  IF {e \in accepted : KeyOf[e] = k} = {} THEN silver[k] = NoRow
               ELSE /\ silver[k].event \in {e \in accepted : KeyOf[e] = k}
                    /\ \A e \in accepted : KeyOf[e] = k => Lsn[e] <= Lsn[silver[k].event]
    <3>1. \/ silver[k] = NoRow
          \/ silver[k].event \in accepted /\ KeyOf[silver[k].event] = k
      BY <2>3 DEF SourceInv
    <3>2. ASSUME NEW e \in accepted, KeyOf[e] = k
          PROVE  /\ silver[k].event \in accepted /\ KeyOf[silver[k].event] = k
                 /\ Lsn[e] <= Lsn[silver[k].event]
      <4>1. silver[k].event # NoEvent /\ Lsn[e] <= LsnShown(silver[k].event)
        BY <2>6, <3>2
      <4>2. silver[k] # NoRow
        BY <4>1 DEF NoRow
      <4> QED
        BY <3>1, <4>1, <4>2 DEF LsnShown
    <3> HIDE DEF accepted
    <3> QED
      BY <3>1, <3>2
  <2> QED
    BY <2>5, <2>7
<1> QED
  BY <1>1, TypeInvariant, CoverInvariant, DlqInvariant, SourceInvariant, PTL

-----------------------------------------------------------------------------
(* The watermark covers what earlier batches of the lineage have appended: *)
(* the record of a batch comes after its rows, a later record is never     *)
(* lower, and a batch without a record had no records to append.           *)

MarkInv ==
    /\ \A b, c \in DOMAIN batches :
          b[1] = c[1] /\ b[2] <= c[2] => batches[b].watermark <= batches[c].watermark
    /\ stage = "commit" => Rows = {} \/ BatchId \in DOMAIN batches
    /\ metadata => \A row \in bronze : row.epoch = epochFile =>
          \/ Unfinished /\ row.batch = Batch
          \/ /\ <<row.epoch, row.batch>> \in DOMAIN batches
             /\ row.ts - Lateness <= batches[<<row.epoch, row.batch>>].watermark

LEMMA MarkRecorded ==
    ASSUME TypeInv, stage \in Running, NEW n \in 0..(Batch - 1),
           <<ctx.epoch, n>> \in DOMAIN batches,
           \A b, c \in DOMAIN batches :
              b[1] = c[1] /\ b[2] <= c[2] => batches[b].watermark <= batches[c].watermark
    PROVE  batches[<<ctx.epoch, n>>].watermark <= RecordedWatermark
<1> DEFINE earlier == {m \in 0..(Batch - 1) : <<ctx.epoch, m>> \in DOMAIN batches}
<1>1. Batch \in Nat
  BY DEF TypeInv, TypeOK, LogInv, Batch
<1>2. n \in earlier /\ earlier \in SUBSET Int /\ \A m \in earlier : m <= Batch - 1
  BY <1>1
<1>3. Batch - 1 \in Int
  BY <1>1
<1>4. Max(earlier) \in earlier /\ n <= Max(earlier)
  <2> HIDE DEF earlier
  <2> QED
    BY <1>2, <1>3, MaxIsGreatest
<1>5. <<ctx.epoch, Max(earlier)>> \in DOMAIN batches
  BY <1>4
<1>6. RecordedWatermark = batches[<<ctx.epoch, Max(earlier)>>].watermark
  BY <1>2 DEF RecordedWatermark
<1> HIDE DEF earlier
<1> QED
  BY <1>4, <1>5, <1>6

\* The batch has appended nothing that is later than the watermark it leaves.
LEMMA OwnBelowMark ==
    ASSUME StableTimestamps, TypeInv, UniqueInv, ProcessInv, CacheInv, RepeatInv,
           stage = "commit", NEW row \in bronze, row.epoch = epochFile, row.batch = Batch
    PROVE  /\ Rows # {}
           /\ BatchId \in DOMAIN batches =>
                 row.ts - Lateness <= batches[BatchId].watermark
<1>1. stage \in Running /\ stage \in Loaded /\ stage # "down"
  BY DEF Running, Loaded
<1>2. Pending
  BY <1>1 DEF Pending, Unfinished, TypeInv, LogInv
<1>3. ctx.registry = NewContext.registry /\ row.event \in Added
  BY <1>1, <1>2, AgainRows DEF RepeatInv, SamePlanInv, OwnRowsInv
<1>4. /\ Valid = Again!Valid /\ WatermarkAfter = Again!WatermarkAfter
      /\ BatchId = Again!BatchId /\ Unique = Again!Unique
  BY <1>1, <1>3, SamePlan
<1>5. PICK x \in Valid : EventAt(x) = row.event
  BY <1>3, <1>4, LabelsDomain DEF Added, Unique
<1>6. x \in Rows
  BY <1>5 DEF Valid
<1>7. TsAt(x) = row.ts
  <2>1. PICK b \in Body : b.event = row.event /\ b.ts = row.ts
    BY DEF UniqueInv, StampInv
  <2>2. At(x).body \in Body
    BY <1>1, <1>5, ValidIsChange
  <2> QED
    BY <1>5, <2>1, <2>2 DEF StableTimestamps, EventAt, TsAt
<1>8. row.ts - Lateness <= WatermarkAfter
  BY <1>1, <1>5, <1>7, WatermarkAfterType
<1>9. BatchId \in DOMAIN batches => batches[BatchId].watermark = WatermarkAfter
  BY <1>2, <1>4 DEF RepeatInv, DoneInv
<1> QED
  BY <1>6, <1>8, <1>9

LEMMA MarkStep ==
    ASSUME StableTimestamps, TypeInv, TypeInv', CoverInv, LineageInv, BatchesInv, UniqueInv,
           RepeatInv, MarkInv, [Next]_vars
    PROVE  MarkInv'
<1>1. CASE MergeRecord /\ batches' = MergedBatches
  <2>1. /\ stage = "record" /\ stage' \in {"record", "commit"}
        /\ UNCHANGED <<kafka, offsets, commits, epochFile, metadata, bronze>>
        /\ ctx'.epoch = ctx.epoch
    BY <1>1 DEF MergeRecord, external, checkpoint, TypeInv, TypeOK
  <2>2. stage \in Running /\ stage \in Loaded /\ stage # "down" /\ Writing
    BY <2>1 DEF Running, Loaded, Writing
  <2>3. Pending /\ Unfinished
    BY <2>2 DEF Pending, Unfinished, TypeInv, LogInv
  <2>4. newMark = WatermarkAfter
    BY <2>2, <2>3, SamePlan DEF RepeatInv, SamePlanInv, BatchesInv
  <2>5. RecordedWatermark <= newMark /\ newMark \in Nat
    <3>1. WatermarkBefore = RecordedWatermark
      BY <2>2, CacheIsFresh DEF BatchesInv
    <3> QED
      BY <2>2, <2>4, <3>1, WatermarkAfterType
  <2>6. /\ DOMAIN batches' = DOMAIN batches \cup {BatchId}
        /\ \A b \in DOMAIN batches : b # BatchId => batches'[b] = batches[b]
        /\ batches'[BatchId].watermark = newMark
        /\ BatchId' = BatchId
    BY <1>1, <2>1 DEF MergedBatches, BatchId, Batch
  <2>7. \A b \in DOMAIN batches : b[1] = ctx.epoch => b[2] \in 0..Batch
    <3>1. metadata /\ ctx.epoch = epochFile
      BY <2>2 DEF BatchesInv, ProcessInv, LineageInv, Running
    <3>2. ASSUME NEW b \in DOMAIN batches, b[1] = ctx.epoch PROVE b[2] \in 0..Batch
      <4>1. b \in BatchIds /\ b[2] \in Nat
        BY <3>2 DEF BatchIds, TypeInv, TypeOK
      <4>2. b[2] < Len(offsets) /\ Len(offsets) \in Nat
        <5>1. Len(offsets) \in Nat
          BY DEF TypeInv, TypeOK
        <5> QED
          BY <3>1, <3>2, <4>1, <5>1 DEF BatchesInv, EpochInv
      <4> QED
        BY <4>1, <4>2 DEF Batch
    <3> QED
      BY <3>2
  <2>8. Batch \in Nat /\ BatchId[1] = ctx.epoch /\ BatchId[2] = Batch
    BY <2>2 DEF BatchId, TypeInv, TypeOK, LogInv, Batch
  <2>9. \A b \in DOMAIN batches : b = <<b[1], b[2]>>
    <3>1. DOMAIN batches \subseteq Nat \X Nat
      BY DEF TypeInv, TypeOK
    <3> QED
      BY <3>1
  <2>10. \A b \in DOMAIN batches : b # BatchId /\ b[1] = ctx.epoch =>
            b[2] < Batch /\ batches[b].watermark <= newMark
    <3>1. ASSUME NEW b \in DOMAIN batches, b # BatchId, b[1] = ctx.epoch
          PROVE  b[2] < Batch /\ batches[b].watermark <= newMark
      <4>1. b = <<ctx.epoch, b[2]>> /\ b[2] \in 0..(Batch - 1)
        BY <2>7, <2>8, <2>9, <3>1 DEF BatchId
      <4>2. batches[b].watermark <= RecordedWatermark
        BY <2>2, <3>1, <4>1, MarkRecorded DEF MarkInv
      <4>3. RecordedWatermark \in Int /\ batches[b].watermark \in Int
        <5>1. WatermarkBefore = RecordedWatermark
          BY <2>2, CacheIsFresh DEF BatchesInv
        <5>2. RecordedWatermark \in Int
          BY <2>2, <5>1, WatermarkBeforeType
        <5>3. batches[b] \in BatchRow
          BY DEF TypeInv, TypeOK
        <5>4. batches[b].watermark \in Int
          BY <5>3 DEF BatchRow
        <5> QED
          BY <5>2, <5>4
      <4> QED
        BY <2>5, <2>8, <4>1, <4>2, <4>3
    <3> QED
      BY <3>1
  <2>11. \A b, c \in DOMAIN batches' :
            b[1] = c[1] /\ b[2] <= c[2] => batches'[b].watermark <= batches'[c].watermark
    <3>1. ASSUME NEW b \in DOMAIN batches', NEW c \in DOMAIN batches', b[1] = c[1], b[2] <= c[2]
          PROVE  batches'[b].watermark <= batches'[c].watermark
      <4>1. CASE b = BatchId /\ c = BatchId
        BY <2>5, <2>6, <4>1
      <4>2. CASE b # BatchId /\ c = BatchId
        BY <2>6, <2>8, <2>10, <3>1, <4>2
      <4>3. CASE b = BatchId /\ c # BatchId
        <5>1. c[2] < Batch /\ c[2] \in Int
          BY <2>6, <2>7, <2>8, <2>10, <3>1, <4>3
        <5> QED
          BY <2>8, <3>1, <4>3, <5>1
      <4>4. CASE b # BatchId /\ c # BatchId
        BY <2>6, <3>1, <4>4 DEF MarkInv
      <4> QED
        BY <4>1, <4>2, <4>3, <4>4
    <3> QED
      BY <3>1
  <2>12. Unfinished' = Unfinished /\ Batch' = Batch
    BY <2>1 DEF Unfinished, Batch
  <2>13. ASSUME metadata', NEW row \in bronze', row.epoch = epochFile'
         PROVE  \/ Unfinished' /\ row.batch = Batch'
                \/ /\ <<row.epoch, row.batch>> \in DOMAIN batches'
                   /\ row.ts - Lateness <= batches'[<<row.epoch, row.batch>>].watermark
    <3>1. CASE row.batch = Batch
      BY <2>3, <2>12, <3>1
    <3>2. CASE row.batch # Batch
      <4>1. <<row.epoch, row.batch>> # BatchId
        BY <3>2 DEF BatchId
      <4> QED
        BY <2>1, <2>6, <2>13, <3>2, <4>1 DEF MarkInv
    <3> QED
      BY <3>1, <3>2
  <2> QED
    BY <2>6, <2>11, <2>13 DEF MarkInv
<1>2. ASSUME UNCHANGED batches
      PROVE  \A b, c \in DOMAIN batches' :
                b[1] = c[1] /\ b[2] <= c[2] => batches'[b].watermark <= batches'[c].watermark
  BY <1>2 DEF MarkInv
<1>3. CASE CommitBatch
  <2>1. /\ stage = "commit" /\ stage' = "idle" /\ Len(offsets') = commits'
        /\ UNCHANGED <<batches, bronze, epochFile, metadata, offsets>>
        /\ stage \in Running /\ stage # "down"
    BY <1>3 DEF CommitBatch, lake, Running
  <2>2. BatchId = <<epochFile, Batch>>
    BY <2>1 DEF BatchId, BatchesInv, ProcessInv
  <2>3. ASSUME metadata', NEW row \in bronze', row.epoch = epochFile'
        PROVE  /\ <<row.epoch, row.batch>> \in DOMAIN batches'
               /\ row.ts - Lateness <= batches'[<<row.epoch, row.batch>>].watermark
    <3>1. CASE row.batch = Batch
      <4>1. Rows # {} /\ BatchId \in DOMAIN batches
        BY <2>1, <2>3, <3>1, OwnBelowMark DEF BatchesInv, MarkInv
      <4>2. row.ts - Lateness <= batches[BatchId].watermark
        BY <2>1, <2>3, <3>1, <4>1, OwnBelowMark DEF BatchesInv
      <4> QED
        BY <2>1, <2>2, <2>3, <3>1, <4>1, <4>2
    <3>2. CASE row.batch # Batch
      BY <2>1, <2>3, <3>2 DEF MarkInv
    <3> QED
      BY <3>1, <3>2
  <2> QED
    BY <1>2, <2>1, <2>3 DEF MarkInv
<1>4. CASE AppendBronze
  <2>1. /\ stage = "bronze" /\ stage' # "commit"
        /\ UNCHANGED <<batches, epochFile, metadata, offsets, commits>>
        /\ bronze' = bronze \/ bronze' = bronze \cup BronzeRows
    BY <1>4 DEF AppendBronze, AppendFresh, checkpoint
  <2>2. Unfinished /\ Unfinished' /\ Batch' = Batch
    BY <2>1 DEF Unfinished, TypeInv, LogInv, Running, Batch
  <2>3. \A row \in BronzeRows : row.batch = Batch
    BY DEF BronzeRows
  <2> QED
    BY <1>2, <2>1, <2>2, <2>3 DEF MarkInv
<1>5. CASE Trigger
  <2>1. /\ stage' = "begin" /\ UNCHANGED <<batches, epochFile, metadata, bronze>>
        /\ ~Unfinished
    BY <1>5 DEF Trigger, lake, Unfinished, TypeInv, TypeOK
  <2> QED
    BY <1>2, <2>1 DEF MarkInv
<1>6. CASE EnsureEpoch
  <2>1. /\ stage' = "booted" /\ UNCHANGED <<lake, metadata, offsets, commits>>
        /\ metadata => epochFile' = epochFile
    BY <1>6 DEF EnsureEpoch, EpochKept, BatchesInv, ProcessInv
  <2>2. Unfinished' = Unfinished /\ Batch' = Batch
    BY <2>1 DEF Unfinished, Batch
  <2> QED
    BY <1>2, <2>1, <2>2 DEF MarkInv, lake
<1>7. CASE StartQuery
  <2>1. /\ stage = "booted" /\ stage' = "idle"
        /\ UNCHANGED <<lake, epochFile, offsets, commits>>
    BY <1>7 DEF StartQuery
  <2>2. Unfinished' = Unfinished /\ Batch' = Batch
    BY <2>1 DEF Unfinished, Batch
  <2>3. CASE metadata
    BY <1>2, <2>1, <2>2, <2>3 DEF MarkInv, lake
  <2>4. CASE ~metadata
    <3>1. Len(offsets) = 0
      BY <2>4 DEF LineageInv
    <3>2. \A row \in bronze : row.epoch # epochFile
      <4>1. ASSUME NEW row \in bronze, row.epoch = epochFile PROVE FALSE
        <5>1. <<row.epoch, row.batch>> \in BatchIds
          BY DEF BatchIds
        <5>2. row.batch < 0 /\ row.batch \in Nat
          BY <2>1, <3>1, <4>1, <5>1, BatchIdsType DEF BatchesInv, EpochInv
        <5> QED
          BY <5>2
      <4> QED
        BY <4>1
    <3> QED
      BY <1>2, <2>1, <3>2 DEF MarkInv, lake
  <2> QED
    BY <2>3, <2>4
<1>8. CASE WipeCheckpoint
  <2>1. metadata' = FALSE /\ stage' = "down" /\ UNCHANGED lake
    BY <1>8 DEF WipeCheckpoint, process
  <2> QED
    BY <1>2, <2>1 DEF MarkInv, lake
<1>9. CASE BeginBatch
  <2>1. /\ UNCHANGED <<kafka, lake, metadata, epochFile, offsets, commits>>
        /\ stage' = "commit" => Rows = {}
    BY <1>9 DEF BeginBatch, external, checkpoint
  <2>2. Unfinished' = Unfinished /\ Batch' = Batch /\ Rows' = Rows
    BY <2>1 DEF Unfinished, Batch, Rows, At, To, From
  <2> QED
    BY <1>2, <2>1, <2>2 DEF MarkInv, lake
<1>10. CASE /\ UNCHANGED <<batches, bronze, epochFile, metadata, offsets, commits>>
            /\ stage' = "commit" => UNCHANGED <<stage, ctx>>
  <2>1. Unfinished' = Unfinished /\ Batch' = Batch
    BY <1>10 DEF Unfinished, Batch
  <2>2. stage' = "commit" => Rows' = {} \/ BatchId' \in DOMAIN batches'
    <3>1. ASSUME stage' = "commit" PROVE Rows' = Rows /\ BatchId' = BatchId /\ stage = "commit"
      <4>1. stage = "commit" /\ BatchId' = BatchId
        BY <1>10, <2>1, <3>1 DEF BatchId
      <4>2. Rows' = Rows
        <5>1. CASE UNCHANGED kafka
          BY <1>10, <5>1 DEF Rows, At, To, From
        <5>2. CASE LogAppend
          BY <4>1, <5>2, BatchKept DEF Running
        <5> QED
          BY <5>1, <5>2, LogStep
      <4> QED
        BY <4>1, <4>2
    <3> QED
      BY <1>10, <3>1 DEF MarkInv
  <2> QED
    BY <1>2, <1>10, <2>1, <2>2 DEF MarkInv
<1>11. CASE MergeRecord /\ batches' # MergedBatches
  <2>1. /\ UNCHANGED <<batches, bronze, epochFile, metadata, offsets, commits>>
        /\ stage' = "record"
    BY <1>11 DEF MergeRecord, checkpoint
  <2> QED
    BY <1>10, <2>1
<1>12. CASE ~(CommitBatch \/ AppendBronze \/ Trigger \/ EnsureEpoch \/ StartQuery
              \/ WipeCheckpoint \/ BeginBatch \/ MergeRecord)
  <2>1. /\ UNCHANGED <<batches, bronze, epochFile, metadata, offsets, commits>>
        /\ stage' = "commit" => UNCHANGED <<stage, ctx>>
    BY <1>12 DEF Next, Environment, Produce, Replay, Deploy, Job, StartUp, Resume,
       ProcessBatch, PlanBatch, MergeSilver, MergeDlq, Crash, vars, checkpoint, lake,
       process
  <2> QED
    BY <1>10, <2>1
<1> QED
  BY <1>1, <1>3, <1>4, <1>5, <1>6, <1>7, <1>8, <1>9, <1>11, <1>12

\* Recorded watermarks never decrease within an epoch, and none is below the
\* bronze rows of its batch (process_batch 482, 535-583).
THEOREM MarkInvariant ==
    ASSUME StableTimestamps
    PROVE  SteadySpec => []MarkInv
<1>1. Init => MarkInv
  BY DEF Init, MarkInv
<1>2. TypeInv /\ TypeInv' /\ CoverInv /\ DlqInv /\ BatchesInv /\ UniqueInv /\ RepeatInv
        /\ MarkInv /\ [Next]_vars => MarkInv'
  BY MarkStep DEF DlqInv
<1>3. Spec => []UniqueInv
  BY UniqueInvariant
<1> QED
  BY <1>1, <1>2, <1>3, TypeInvariant, CoverInvariant, DlqInvariant, BatchesInvariant,
     RepeatInvariant, PTL DEF SteadySpec, Spec

-----------------------------------------------------------------------------
(* Within the first lineage every row is of its epoch.                     *)

SignedInv ==
    /\ \A row \in bronze : row.epoch # NoEpoch
    /\ \A k \in Key : silver[k] = NoRow \/ silver[k].epoch # NoEpoch

\* Every row of silver and bronze names the epoch that wrote it (287-345).
THEOREM SignedInvariant == Spec => []SignedInv
<1>1. Init => SignedInv
  BY DEF Init, SignedInv
<1>2. ASSUME TypeInv, CoverInv, ProcessInv, SignedInv, [Next]_vars PROVE SignedInv'
  <2>1. CASE UNCHANGED <<silver, bronze>>
    BY <1>2, <2>1 DEF SignedInv
  <2>2. CASE stage = "silver" /\ UNCHANGED bronze /\ silver' = MergedSilver(table)
    <3>1. ctx.epoch # NoEpoch
      BY <1>2, <2>2 DEF ProcessInv
    <3>2. ASSUME NEW k \in Key PROVE silver'[k] = silver[k] \/ silver'[k].epoch = ctx.epoch
      BY <2>2 DEF MergedSilver
    <3> QED
      BY <1>2, <2>2, <3>1, <3>2 DEF SignedInv
  <2>3. CASE stage = "bronze" /\ UNCHANGED silver /\ bronze' = bronze \cup BronzeRows
    <3>1. ctx.epoch # NoEpoch
      BY <1>2, <2>3 DEF ProcessInv
    <3>2. \A row \in BronzeRows : row.epoch = ctx.epoch
      BY DEF BronzeRows
    <3> QED
      BY <1>2, <2>3, <3>1, <3>2 DEF SignedInv
  <2> QED
    BY <1>2, <2>1, <2>2, <2>3, TablesStep
<1> QED
  BY <1>1, <1>2, TypeInvariant, CoverInvariant, BatchesInvariant, PTL DEF Spec, BatchesInv

\* An event that an earlier batch has appended, and only such an event, has a
\* row of another batch, and that is of a smaller number.
LEMMA FirstLineage ==
    ASSUME TypeInv, LineageInv, BatchesInv, SignedInv, OneLineage, stage \in Running
    PROVE  /\ ctx.epoch = epochFile /\ metadata /\ Batch \in Nat
           /\ \A row \in bronze : /\ row.epoch = ctx.epoch /\ row.batch \in 0..Batch
                                  /\ Own(row) <=> row.batch = Batch
           /\ \A k \in Key : silver[k] # NoRow =>
                                  (Own(silver[k]) <=> silver[k].batch = Batch)
<1>1. ctx.epoch = epochFile /\ epochFile # NoEpoch /\ metadata
  BY DEF BatchesInv, ProcessInv, LineageInv, Running
<1>2. Batch \in Nat /\ Len(offsets) = Batch + 1
  BY DEF TypeInv, TypeOK, LogInv, Batch
<1>3. epochFile = 1
  BY <1>1 DEF BatchesInv, EpochInv, OneLineage, NoEpoch, TypeInv, TypeOK
<1>4. \A b \in BatchIds : b[1] \in Nat /\ b[2] \in Nat /\ b[1] <= 1
  BY BatchIdsType DEF BatchesInv, EpochInv, OneLineage
<1>5. ASSUME NEW row \in bronze
      PROVE  row.epoch = ctx.epoch /\ row.batch \in 0..Batch
  <2>1. <<row.epoch, row.batch>> \in BatchIds
    BY DEF BatchIds
  <2>2. row.epoch = 1
    BY <1>4, <2>1 DEF SignedInv, NoEpoch
  <2>3. row.batch < Batch + 1 /\ row.batch \in Nat
    BY <1>1, <1>2, <1>3, <1>4, <2>1, <2>2 DEF BatchesInv, EpochInv
  <2> QED
    BY <1>1, <1>2, <1>3, <2>2, <2>3
<1>6. ASSUME NEW k \in Key, silver[k] # NoRow PROVE silver[k].epoch = ctx.epoch
  <2>1. <<silver[k].epoch, silver[k].batch>> \in BatchIds
    BY DEF BatchIds
  <2> QED
    BY <1>1, <1>3, <1>4, <1>6, <2>1 DEF SignedInv, NoEpoch
<1> QED
  BY <1>1, <1>2, <1>5, <1>6 DEF Own

-----------------------------------------------------------------------------
(* The reference model, fed with the batch and the tables of the sink.     *)

\* An event of the batch as the reference sees it, by its first occurrence.
Entry(x)  == [event |-> EventAt(x), key |-> KeyOf[EventAt(x)], lsn |-> Lsn[EventAt(x)],
              ts |-> TsAt(x), at |-> x]
Firsts(S) == {Entry(First(e)) : e \in S}

\* What the invariants say of a batch of the first lineage that a process runs.
Comparable ==
    /\ TypeInv /\ LineageInv /\ BatchesInv /\ UniqueInv /\ SignedInv
    /\ SourceInv /\ MarkInv
    /\ StableTimestamps /\ OneLineage /\ stage \in Running

LEMMA EntryOfFirst ==
    ASSUME TypeInv, stage \in Running, NEW e \in Unique
    PROVE  /\ First(e) \in Valid /\ First(e) \in Coordinates /\ e \in Event
           /\ KeyOf[e] \in Key /\ Lsn[e] \in Nat /\ TsAt(First(e)) \in 0..MaxLong
           /\ Entry(First(e)).event = e /\ Entry(First(e)).key = KeyOf[e]
           /\ Entry(First(e)).lsn = Lsn[e] /\ Entry(First(e)).ts = TsAt(First(e))
           /\ Entry(First(e)).at = First(e)
<1>1. First(e) \in Valid /\ EventAt(First(e)) = e
  BY FirstIsValid
<1>2. First(e) \in Coordinates /\ e \in Event /\ TsAt(First(e)) \in 0..MaxLong
  BY <1>1, ValidIsChange
<1> QED
  BY <1>1, <1>2, EventAssumption DEF Entry

\* Two events of the batch have one entry only if they are one.
LEMMA EntriesDiffer ==
    ASSUME TypeInv, stage \in Running, NEW e \in Unique, NEW S \in SUBSET Unique
    PROVE  /\ Entry(First(e)) \in Firsts(S) <=> e \in S
           /\ e \in S => (CHOOSE x \in Firsts(S) : x.event = e) = Entry(First(e))
           /\ {x.event : x \in Firsts(S)} = S
<1>1. \A f \in S : f \in Unique /\ Entry(First(f)).event = f
  BY EntryOfFirst
<1>2. Entry(First(e)).event = e
  BY EntryOfFirst
<1>3. \A x \in Firsts(S) : x.event \in S /\ x = Entry(First(x.event))
  BY <1>1 DEF Firsts
<1>4. \A f \in S : Entry(First(f)) \in Firsts(S)
  BY DEF Firsts
<1> HIDE DEF Firsts
<1>5. {x.event : x \in Firsts(S)} = S
  BY <1>1, <1>3, <1>4
<1> QED
  BY <1>2, <1>3, <1>4, <1>5

\* Rule 1.
LEMMA KeptAreFirsts ==
    ASSUME TypeInv, stage \in Running
    PROVE  Reference!Kept(BatchEvents) = Firsts(Unique)
<1>1. BatchEvents = {Entry(x) : x \in Valid}
  BY DEF BatchEvents, Entry
<1>2. \A x, y : Reference!Before(x, y) <=> Earlier(x, y)
  BY DEF Reference!Before, Earlier
<1>3. \A x : Entry(x).event = EventAt(x) /\ Entry(x).at = x
  BY DEF Entry
<1>4. Valid \subseteq Coordinates
  BY ValidIsChange
<1>5. ASSUME NEW x \in Valid, \A y \in Valid : EventAt(y) = EventAt(x) => ~Earlier(y, x)
      PROVE  EventAt(x) \in Unique /\ x = First(EventAt(x))
  <2>1. EventAt(x) \in Unique
    BY DEF Unique
  <2> PICK z : z = First(EventAt(x))
    OBVIOUS
  <2>2. z \in Valid /\ EventAt(z) = EventAt(x) /\ ~Earlier(x, z)
    BY <2>1, FirstIsValid
  <2> QED
    BY <1>4, <1>5, <2>1, <2>2, OneFirst
<1>6. Reference!Kept(BatchEvents)
        = {Entry(x) : x \in {x \in Valid : \A y \in Valid : EventAt(y) = EventAt(x)
                                             => ~Earlier(y, x)}}
  BY <1>1, <1>2, <1>3 DEF Reference!Kept
<1>7. \A e \in Unique : /\ First(e) \in Valid
                        /\ \A y \in Valid : EventAt(y) = EventAt(First(e)) => ~Earlier(y, First(e))
  BY FirstIsValid
<1> QED
  BY <1>5, <1>6, <1>7 DEF Firsts

\* A row of bronze with an event of the batch has the event's timestamp.
LEMMA RowOfEvent ==
    ASSUME TypeInv, UniqueInv, StableTimestamps, stage \in Running,
           NEW row \in bronze, NEW x \in Valid, EventAt(x) = row.event
    PROVE  row.ts = TsAt(x) /\ InWindow(row)
<1>1. PICK b \in Body : b.event = row.event /\ b.ts = row.ts
  BY DEF UniqueInv, StampInv
<1>2. At(x).body \in Body
  BY ValidIsChange
<1>3. row.ts = TsAt(x)
  BY <1>1, <1>2 DEF StableTimestamps, EventAt, TsAt
<1>4. TsAt(x) \in Int
  BY ValidIsChange
<1> QED
  BY <1>3, <1>4 DEF InWindow

\* Rule 2: the look-up within the timestamps of the batch finds what a search
\* of all of bronze would.
LEMMA PriorIsPrior ==
    ASSUME Comparable, NEW e \in Unique
    PROVE  IsPriorDup(e) <=> e \in DOMAIN BronzeBatches /\ BronzeBatches[e] < Batch
<1> USE DEF Comparable
<1>1. PICK x \in Valid : EventAt(x) = e
  BY DEF Unique
<1>2. \A row \in bronze : row.event = e => InWindow(row)
  BY <1>1, RowOfEvent
<1>3. \A row \in bronze : /\ row.batch \in 0..Batch /\ Batch \in Nat
                          /\ Own(row) <=> row.batch = Batch
  BY FirstLineage
<1>4. \A row \in bronze : ~Own(row) <=> row.batch < Batch
  BY <1>3
<1>5. DOMAIN BronzeBatches = {row.event : row \in bronze}
  BY DEF BronzeBatches
<1>6. ASSUME NEW row \in bronze, row.event = e PROVE BronzeBatches[e] = row.batch
  <2>1. \A r \in bronze : r.event = e => r = row
    BY <1>6 DEF UniqueInv, OneBronzeRowPerEvent
  <2>2. (CHOOSE r \in bronze : r.event = e) = row
    BY <1>6, <2>1
  <2> QED
    BY <1>5, <1>6, <2>2 DEF BronzeBatches
<1> QED
  BY <1>2, <1>4, <1>5, <1>6 DEF IsPriorDup, BronzeLookup

LEMMA CandidatesAreCandidates ==
    ASSUME Comparable
    PROVE  /\ Reference!Prior(Batch, BatchEvents, BronzeBatches) = Firsts(Unique \ Candidates)
           /\ Reference!Candidates(Batch, BatchEvents, BronzeBatches) = Firsts(Candidates)
<1>1. Reference!Kept(BatchEvents) = Firsts(Unique)
  BY KeptAreFirsts DEF Comparable
<1>2. \A e \in Unique : Entry(First(e)).event = e
  BY EntryOfFirst DEF Comparable
<1>3. \A e \in Unique : e \in Candidates <=> ~(e \in DOMAIN BronzeBatches /\ BronzeBatches[e] < Batch)
  BY PriorIsPrior DEF Candidates
<1>4. Reference!Prior(Batch, BatchEvents, BronzeBatches)
        = {x \in Firsts(Unique) : x.event \in DOMAIN BronzeBatches /\ BronzeBatches[x.event] < Batch}
  BY <1>1 DEF Reference!Prior
<1>5. Candidates \subseteq Unique
  BY DEF Candidates
<1>6. Reference!Prior(Batch, BatchEvents, BronzeBatches) = Firsts(Unique \ Candidates)
  BY <1>2, <1>3, <1>4, <1>5 DEF Firsts
<1>7. Firsts(Unique) \ Firsts(Unique \ Candidates) = Firsts(Candidates)
  BY <1>2, <1>5 DEF Firsts
<1> QED
  BY <1>1, <1>6, <1>7 DEF Reference!Candidates

\* Rule 4.
LEMMA BaselineIsBaseline ==
    ASSUME Comparable, NEW k \in Key
    PROVE  Reference!BaselineLsn(Batch, k, SilverTable(silver)) = Baseline(k)
<1> USE DEF Comparable
<1>1. Acceptable \subseteq Event
  <2>1. \A x \in Produced : EventAt(x) \in Event
    BY ProducedIsMessage, BodyAssumption DEF Message, EventAt
  <2> QED
    BY <2>1 DEF Acceptable
<1>2. CASE silver[k] = NoRow
  <2>1. silver[k].event = NoEvent /\ silver[k].epoch = NoEpoch
    BY <1>2 DEF NoRow
  <2>2. ~Own(silver[k])
    BY <2>1 DEF Own, BatchesInv, ProcessInv, Running
  <2>3. k \notin DOMAIN SilverTable(silver)
    BY <2>1 DEF SilverTable
  <2> QED
    BY <2>1, <2>2, <2>3 DEF Reference!BaselineLsn, Reference!None, Baseline, LsnShown, NoLsn
<1>3. CASE silver[k] # NoRow
  <2>1. silver[k].event \in Event /\ silver[k].event # NoEvent
    BY <1>1, <1>3, EventAssumption DEF SourceInv
  <2>2. Own(silver[k]) <=> silver[k].batch = Batch
    BY <1>3, FirstLineage
  <2>3. k \in DOMAIN SilverTable(silver)
        /\ SilverTable(silver)[k].batch = silver[k].batch
        /\ SilverTable(silver)[k].prev = silver[k].prev
        /\ SilverTable(silver)[k].lsn = Lsn[silver[k].event]
    BY <2>1 DEF SilverTable
  <2> QED
    BY <2>1, <2>2, <2>3 DEF Reference!BaselineLsn, Baseline, LsnShown
<1> QED
  BY <1>2, <1>3

\* Rule 3.
LEMMA LatestIsLatest ==
    ASSUME TypeInv, stage \in Running, NEW e \in Candidates
    PROVE  Reference!IsBatchLatest(Entry(First(e)), Firsts(Candidates)) <=> IsLatest(e)
<1>1. \A f \in Candidates : /\ f \in Event /\ Lsn[f] \in Nat /\ First(f) \in Coordinates
                            /\ Entry(First(f)).key = KeyOf[f] /\ Entry(First(f)).lsn = Lsn[f]
                            /\ Entry(First(f)).at = First(f)
  BY EntryOfFirst DEF Candidates
<1>2. First(e)[1] \in Nat /\ First(e)[2] \in Nat
  BY <1>1, CoordinatesAreNumbers
<1>3. ASSUME NEW f \in Candidates, KeyOf[f] = KeyOf[e]
      PROVE  Reference!Beats(Entry(First(f)), Entry(First(e))) <=> ~(Lsn[f] <= Lsn[e])
  <2>1. CASE Lsn[f] = Lsn[e]
    <3>1. f = e
      BY <1>1, <1>3, <2>1, LsnAssumption
    <3> QED
      BY <1>1, <1>2, <3>1 DEF Reference!Beats, Reference!Before
  <2>2. CASE Lsn[f] # Lsn[e]
    BY <1>1, <2>2 DEF Reference!Beats
  <2> QED
    BY <2>1, <2>2
<1>4. Reference!IsBatchLatest(Entry(First(e)), Firsts(Candidates))
        <=> \A f \in Candidates : KeyOf[f] = KeyOf[e] =>
               ~Reference!Beats(Entry(First(f)), Entry(First(e)))
  BY <1>1 DEF Reference!IsBatchLatest, Firsts
<1> QED
  BY <1>3, <1>4 DEF IsLatest

\* Rule 5.
LEMMA OutcomeIsOutcome ==
    ASSUME Comparable, NEW e \in Candidates
    PROVE  Reference!OutcomeIn(Batch, Entry(First(e)), Firsts(Candidates), SilverTable(silver))
             = OutcomeOf(e)
<1>1. e \in Unique
  BY DEF Candidates
<1>2. /\ Entry(First(e)).key = KeyOf[e] /\ Entry(First(e)).lsn = Lsn[e] /\ KeyOf[e] \in Key
  BY <1>1, EntryOfFirst DEF Comparable
<1>3. Reference!BaselineLsn(Batch, KeyOf[e], SilverTable(silver)) = Baseline(KeyOf[e])
  BY <1>2, BaselineIsBaseline
<1>4. Reference!IsBatchLatest(Entry(First(e)), Firsts(Candidates)) <=> IsLatest(e)
  BY LatestIsLatest DEF Comparable
<1> QED
  BY <1>2, <1>3, <1>4 DEF Reference!OutcomeIn, OutcomeOf

\* The reference leaves prior duplicates out of the watermark, which counts
\* for nothing: earlier batches have recorded them.
LEMMA MarkIsMark ==
    ASSUME Comparable
    PROVE  Reference!Max({WatermarkBefore} \cup {x.ts - Lateness : x \in Firsts(Candidates)})
             = WatermarkAfter
<1> USE DEF Comparable
<1> DEFINE all   == {WatermarkBefore} \cup {TsAt(x) - Lateness : x \in Valid}
           fresh == {WatermarkBefore} \cup {x.ts - Lateness : x \in Firsts(Candidates)}
<1>1. /\ WatermarkBefore \in Nat /\ Lateness \in Nat /\ WatermarkAfter \in Nat
      /\ \A x \in Valid : TsAt(x) \in Nat /\ EventAt(x) \in Unique
  BY WatermarkBeforeType, WatermarkAfterType, ValidIsChange, BoundAssumption DEF Unique
<1>2. \A e \in Unique : First(e) \in Valid /\ Entry(First(e)).ts = TsAt(First(e))
  BY EntryOfFirst
<1>3. \A e \in Candidates : e \in Unique
  BY DEF Candidates
<1>4. \A m \in all : m \in Int
  BY <1>1
<1>5. \A m \in fresh : m \in all
  BY <1>2, <1>3 DEF Firsts
<1>6. ASSUME NEW x \in Valid
      PROVE  \E m \in fresh : TsAt(x) - Lateness <= m
  <2> PICK e : e = EventAt(x)
    OBVIOUS
  <2>1. CASE e \in Candidates
    <3>1. First(e) \in Valid /\ EventAt(First(e)) = e
      BY <1>1, FirstIsValid
    <3>2. At(x).body \in Body /\ At(First(e)).body \in Body
      BY <3>1, ValidIsChange
    <3>3. TsAt(First(e)) = TsAt(x)
      BY <3>1, <3>2 DEF StableTimestamps, TsAt, EventAt
    <3>4. TsAt(x) - Lateness \in fresh
      BY <1>2, <1>3, <2>1, <3>3 DEF Firsts
    <3> HIDE DEF fresh
    <3> QED
      BY <1>1, <3>4
  <2>2. CASE e \notin Candidates
    <3>1. PICK row \in bronze : row.event = e /\ ~Own(row)
      BY <1>1, <2>2 DEF Candidates, IsPriorDup, BronzeLookup
    <3>2. row.ts = TsAt(x)
      BY <3>1, RowOfEvent
    <3>3. /\ row.epoch = ctx.epoch /\ ctx.epoch = epochFile /\ metadata
          /\ row.batch \in 0..(Batch - 1)
      <4>1. /\ row.epoch = ctx.epoch /\ ctx.epoch = epochFile /\ metadata
            /\ row.batch \in 0..Batch /\ row.batch # Batch /\ Batch \in Nat
        BY <3>1, FirstLineage
      <4> QED
        BY <4>1
    <3>4. /\ <<ctx.epoch, row.batch>> \in DOMAIN batches
          /\ row.ts - Lateness <= batches[<<ctx.epoch, row.batch>>].watermark
      <4>1. Batch \in Nat
        BY FirstLineage
      <4> QED
        BY <3>3, <4>1 DEF MarkInv
    <3>5. batches[<<ctx.epoch, row.batch>>].watermark <= RecordedWatermark
      BY <3>3, <3>4, MarkRecorded DEF MarkInv
    <3>6. WatermarkBefore = RecordedWatermark
      BY CacheIsFresh DEF BatchesInv
    <3>7. batches[<<ctx.epoch, row.batch>>].watermark \in Nat
      <4>1. batches[<<ctx.epoch, row.batch>>] \in BatchRow
        BY <3>4 DEF TypeInv, TypeOK
      <4> QED
        BY <4>1 DEF BatchRow
    <3>8. TsAt(x) - Lateness <= WatermarkBefore
      BY <1>1, <3>2, <3>4, <3>5, <3>6, <3>7
    <3> QED
      BY <3>8
  <2> QED
    BY <2>1, <2>2
<1>7. \A m \in all : \E n \in fresh : m <= n
  <2>1. WatermarkBefore \in fresh /\ WatermarkBefore <= WatermarkBefore
    BY <1>1
  <2> HIDE DEF fresh
  <2> QED
    BY <1>6, <2>1
<1>8. WatermarkAfter = Max(all)
  BY DEF WatermarkAfter
<1>9. \A n \in all : n <= WatermarkAfter
  BY <1>1, WatermarkAfterType
<1>10. all # {} /\ fresh # {}
  OBVIOUS
<1>11. \A S : Reference!Max(S) = Max(S)
  BY DEF Reference!Max, Max
<1> HIDE DEF all, fresh
<1>12. Max(all) \in all
  BY <1>1, <1>4, <1>9, <1>10, MaxIsGreatest
<1>13. Max(fresh) \in fresh /\ \A n \in fresh : n <= Max(fresh)
  BY <1>1, <1>4, <1>5, <1>9, <1>10, MaxIsGreatest
<1>14. PICK n \in fresh : Max(all) <= n
  BY <1>7, <1>12
<1>15. Max(all) \in Int /\ Max(fresh) \in Int /\ n \in Int
  BY <1>4, <1>5, <1>12, <1>13, <1>14
<1>16. Max(all) <= Max(fresh) /\ Max(fresh) <= Max(all)
  BY <1>5, <1>8, <1>9, <1>13, <1>14, <1>15
<1>17. Max(fresh) = WatermarkAfter
  BY <1>8, <1>15, <1>16
<1>18. Reference!Max(fresh) = WatermarkAfter
  BY <1>11, <1>17
<1> QED
  BY <1>18 DEF fresh

\* The plan of the reference, in the terms of the sink.
LEMMA ReferencePlanIs ==
    ASSUME Comparable
    PROVE  /\ ReferencePlan.outcomes = [e \in Candidates |-> OutcomeOf(e)]
           /\ ReferencePlan.late = {e \in Candidates : TsAt(First(e)) < WatermarkBefore}
           /\ ReferencePlan.prior_duplicates = Unique \ Candidates
           /\ ReferencePlan.bronze_appends = Candidates \ {row.event : row \in bronze}
           /\ ReferencePlan.to_apply = Firsts({e \in Candidates : OutcomeOf(e) = "applied"})
           /\ ReferencePlan.watermark_after = WatermarkAfter
<1>1. Candidates \in SUBSET Unique /\ Unique \ Candidates \in SUBSET Unique
  BY DEF Candidates
<1>2. /\ Reference!Prior(Batch, BatchEvents, BronzeBatches) = Firsts(Unique \ Candidates)
      /\ Reference!Candidates(Batch, BatchEvents, BronzeBatches) = Firsts(Candidates)
  BY CandidatesAreCandidates
<1>3. /\ {x.event : x \in Firsts(Candidates)} = Candidates
      /\ {x.event : x \in Firsts(Unique \ Candidates)} = Unique \ Candidates
      /\ \A e \in Candidates :
            (CHOOSE x \in Firsts(Candidates) : x.event = e) = Entry(First(e))
  <2>1. CASE Unique = {}
    <3>1. Candidates = {} /\ Unique \ Candidates = {}
      BY <1>1, <2>1
    <3> QED
      BY <3>1 DEF Firsts
  <2>2. CASE Unique # {}
    BY <1>1, <2>2, EntriesDiffer DEF Comparable
  <2> QED
    BY <2>1, <2>2
<1>4. \A e \in Candidates : /\ Entry(First(e)).ts = TsAt(First(e)) /\ Entry(First(e)).event = e
  BY <1>1, EntryOfFirst DEF Comparable
<1>5. \A e \in Candidates :
         Reference!OutcomeIn(Batch, Entry(First(e)), Firsts(Candidates), SilverTable(silver))
           = OutcomeOf(e)
  BY OutcomeIsOutcome
<1>6. ReferencePlan.outcomes = [e \in Candidates |-> OutcomeOf(e)]
  <2> DEFINE entry(e) == CHOOSE x \in Firsts(Candidates) : x.event = e
  <2>1. ReferencePlan.outcomes
          = [e \in {x.event : x \in Firsts(Candidates)} |->
               Reference!OutcomeIn(Batch, entry(e), Firsts(Candidates), SilverTable(silver))]
    BY <1>2 DEF ReferencePlan, Reference!plan_batch
  <2>2. \A e \in Candidates : entry(e) = Entry(First(e))
    BY <1>3
  <2> HIDE DEF entry
  <2> QED
    BY <1>3, <1>5, <2>1, <2>2
<1>7. ReferencePlan.late = {e \in Candidates : TsAt(First(e)) < WatermarkBefore}
  <2>1. ReferencePlan.late = {x.event : x \in {y \in Firsts(Candidates) : y.ts < WatermarkBefore}}
    BY <1>2 DEF ReferencePlan, Reference!plan_batch
  <2> QED
    BY <1>4, <2>1 DEF Firsts
<1>8. ReferencePlan.prior_duplicates = Unique \ Candidates
  BY <1>2, <1>3 DEF ReferencePlan, Reference!plan_batch
<1>9. ReferencePlan.bronze_appends = Candidates \ {row.event : row \in bronze}
  BY <1>2, <1>3 DEF ReferencePlan, Reference!plan_batch, BronzeBatches
<1>10. ReferencePlan.to_apply = Firsts({e \in Candidates : OutcomeOf(e) = "applied"})
  <2>1. ReferencePlan.to_apply
          = {x \in Firsts(Candidates) :
               Reference!OutcomeIn(Batch, x, Firsts(Candidates), SilverTable(silver)) = "applied"}
    BY <1>2 DEF ReferencePlan, Reference!plan_batch
  <2> QED
    BY <1>5, <2>1 DEF Firsts
<1>11. ReferencePlan.watermark_after = WatermarkAfter
  BY <1>2, MarkIsMark DEF ReferencePlan, Reference!plan_batch
<1> QED
  BY <1>6, <1>7, <1>8, <1>9, <1>10, <1>11

\* The plan in progress, in the terms of the sink.
LEMMA PlannedIs ==
    ASSUME Comparable, RepeatInv, Writing
    PROVE  /\ DOMAIN planned = Unique /\ Candidates \subseteq Unique
           /\ \A e \in Unique : /\ planned[e].outcome = OutcomeOf(e)
                                /\ planned[e].late <=> TsAt(First(e)) < WatermarkBefore
           /\ Planned("duplicate") = Unique \ Candidates
           /\ Planned("applied") = {e \in Candidates : OutcomeOf(e) = "applied"}
           /\ newMark = WatermarkAfter
<1> USE DEF Comparable
<1>1. stage \in Loaded /\ stage # "down"
  BY DEF Writing, Loaded, Running
<1>2. Pending
  BY <1>1 DEF Pending, Unfinished, TypeInv, LogInv
<1>3. /\ planned = Labels /\ newMark = Again!WatermarkAfter
      /\ ctx.registry = NewContext.registry
  BY <1>1, <1>2 DEF RepeatInv, SamePlanInv
<1>4. planned = Plan /\ newMark = WatermarkAfter
  BY <1>3, SamePlan DEF BatchesInv
<1>5. DOMAIN Plan = Unique
  BY PlanType
<1>6. \A e \in Unique : /\ Plan[e].outcome = OutcomeOf(e)
                        /\ Plan[e].late <=> TsAt(First(e)) < WatermarkBefore
  BY DEF Plan
<1>7. Candidates \subseteq Unique
  BY DEF Candidates
<1>8. \A e : OutcomeOf(e) = "duplicate" <=> e \notin Candidates
  BY DEF OutcomeOf
<1>9. \A e : OutcomeOf(e) = "applied" => e \in Candidates
  BY DEF OutcomeOf
<1> QED
  BY <1>4, <1>5, <1>6, <1>7, <1>8, <1>9 DEF Planned

\* The invariants of a batch hold under SteadySpec whenever a process runs one.
LEMMA Comparison ==
    ASSUME StableTimestamps
    PROVE  SteadySpec => [](OneLineage /\ stage \in Running => Comparable /\ CoverInv /\ RepeatInv)
<1>1. TypeInv /\ CoverInv /\ DlqInv /\ BatchesInv /\ UniqueInv /\ SignedInv /\ SourceInv
        /\ MarkInv /\ RepeatInv
        => (OneLineage /\ stage \in Running => Comparable /\ CoverInv /\ RepeatInv)
  BY DEF Comparable, DlqInv
<1>2. Spec => []UniqueInv
  BY UniqueInvariant
<1>3. SteadySpec => []MarkInv
  BY MarkInvariant
<1> QED
  BY <1>1, <1>2, <1>3, TypeInvariant, CoverInvariant, DlqInvariant, BatchesInvariant,
     SignedInvariant, SourceInvariant, RepeatInvariant, PTL DEF SteadySpec

\* "The Spark sink implements the same rules" (semantics.py 3-4): on the first
\* attempt of a batch and on any later one, whatever was written of it, the
\* sink executes the plan that plan_batch makes of the same events and tables.
THEOREM PlanMatches ==
    ASSUME StableTimestamps
    PROVE  SteadySpec => []PlanMatchesReference
<1>1. ASSUME Comparable, RepeatInv, Writing
      PROVE  /\ [e \in DOMAIN planned \ Planned("duplicate") |-> planned[e].outcome]
                    = ReferencePlan.outcomes
             /\ Planned("duplicate") = ReferencePlan.prior_duplicates
             /\ {e \in DOMAIN planned \ Planned("duplicate") : planned[e].late}
                    = ReferencePlan.late
             /\ newMark = ReferencePlan.watermark_after
  <2>1. DOMAIN planned \ Planned("duplicate") = Candidates
    BY <1>1, PlannedIs
  <2>2. \A e \in Candidates : /\ planned[e].outcome = OutcomeOf(e)
                              /\ planned[e].late <=> TsAt(First(e)) < WatermarkBefore
    BY <1>1, PlannedIs
  <2>3. [e \in DOMAIN planned \ Planned("duplicate") |-> planned[e].outcome]
          = ReferencePlan.outcomes
    BY <1>1, <2>1, <2>2, ReferencePlanIs
  <2>4. {e \in DOMAIN planned \ Planned("duplicate") : planned[e].late} = ReferencePlan.late
    BY <1>1, <2>1, <2>2, ReferencePlanIs
  <2>5. /\ Planned("duplicate") = ReferencePlan.prior_duplicates
        /\ newMark = ReferencePlan.watermark_after
    BY <1>1, PlannedIs, ReferencePlanIs
  <2> QED
    BY <2>3, <2>4, <2>5
<1>2. Writing => stage \in Running
  BY DEF Writing, Running
<1>3. (OneLineage /\ stage \in Running => Comparable /\ CoverInv /\ RepeatInv)
        => PlanMatchesReference
  BY <1>1, <1>2 DEF PlanMatchesReference
<1>4. SteadySpec => [](OneLineage /\ stage \in Running => Comparable /\ CoverInv /\ RepeatInv)
  BY Comparison
<1> QED
  BY <1>3, <1>4, PTL

\* append_bronze adds the events of bronze_appends, although it searches bronze
\* between the timestamps of the batch only.
THEOREM AppendsMatch ==
    ASSUME StableTimestamps
    PROVE  SteadySpec => []AppendsMatchReference
<1>1. ASSUME Comparable, RepeatInv, stage = "bronze"
      PROVE  Fresh = ReferencePlan.bronze_appends
  <2>1. Writing
    BY <1>1 DEF Writing
  <2>2. DOMAIN planned \ Planned("duplicate") = Candidates /\ Candidates \subseteq Unique
    BY <1>1, <2>1, PlannedIs
  <2>3. Fresh = {e \in Candidates : \A row \in BronzeLookup : row.event # e}
    BY <2>2 DEF Fresh
  <2>4. ASSUME NEW e \in Candidates, NEW row \in bronze, row.event = e
        PROVE  row \in BronzeLookup
    <3>1. PICK x \in Valid : EventAt(x) = e
      BY <2>2, <2>4 DEF Unique
    <3> QED
      BY <1>1, <2>4, <3>1, RowOfEvent DEF Comparable, BronzeLookup
  <2>5. Fresh = Candidates \ {row.event : row \in bronze}
    BY <2>3, <2>4 DEF BronzeLookup
  <2> QED
    BY <1>1, <2>5, ReferencePlanIs
<1>2. (OneLineage /\ stage \in Running => Comparable /\ CoverInv /\ RepeatInv)
        => AppendsMatchReference
  BY <1>1 DEF AppendsMatchReference, Running
<1>3. SteadySpec => [](OneLineage /\ stage \in Running => Comparable /\ CoverInv /\ RepeatInv)
  BY Comparison
<1> QED
  BY <1>2, <1>3, PTL

\* The last table of the loop: whatever the others were to show they show.
LEMMA LastMerge ==
    ASSUME Comparable, CoverInv, RepeatInv, stage = "silver", table = Tables
    PROVE  SilverTable(MergedSilver(table))
             = Reference!apply_plan(ReferencePlan, Batch, SilverTable(silver))
<1> DEFINE old == SilverTable(silver)
           A   == Planned("applied")
           shown(k) == LsnShown(silver[k].event)
           newer(k) == {x \in Firsts(A) : /\ x.key = k
                                          /\ k \in DOMAIN old => x.lsn > old[k].lsn}
           lsnOf(k) == IF k \in DOMAIN old THEN old[k].lsn ELSE Reference!None
           row(k)   == [event |-> (CHOOSE x \in newer(k) : TRUE).event,
                        lsn   |-> (CHOOSE x \in newer(k) : TRUE).lsn,
                        prev  |-> lsnOf(k), batch |-> Batch]
           U(k)     == Updates(table, k)
           new      == MergedSilver(table)
<1>1. Writing /\ stage \in Running /\ TypeInv
  BY DEF Writing, Running, Comparable
<1>2. ReferencePlan.to_apply = Firsts(A)
  BY <1>1, ReferencePlanIs, PlannedIs
<1>3. Reference!apply_plan(ReferencePlan, Batch, old)
        = [k \in DOMAIN old \cup {x.key : x \in Firsts(A)} |->
             IF newer(k) = {} THEN old[k] ELSE row(k)]
  BY <1>2 DEF Reference!apply_plan
<1>4. A \in SUBSET Unique
  BY <1>1, PlannedIs
<1>5. \A e \in A : /\ e \in Event /\ KeyOf[e] \in Key /\ Lsn[e] \in Nat
                   /\ Entry(First(e)).key = KeyOf[e] /\ Entry(First(e)).lsn = Lsn[e]
                   /\ Entry(First(e)).event = e
  BY <1>1, <1>4, EntryOfFirst
<1>6. ASSUME NEW k \in Key
      PROVE  /\ k \in DOMAIN old <=> silver[k].event # NoEvent
             /\ k \in DOMAIN old => old[k].lsn = shown(k) /\ shown(k) \in Nat
             /\ k \notin DOMAIN old => shown(k) = NoLsn
             /\ lsnOf(k) = shown(k) /\ shown(k) \in Int
             /\ silver[k].event \in Event \cup {NoEvent}
  <2>1. silver[k].event \in Event \cup {NoEvent}
    BY <1>1, SilverEvents
  <2>2. silver[k].event \in Event => Lsn[silver[k].event] \in Nat
    BY EventAssumption
  <2> QED
    BY <2>1, <2>2 DEF SilverTable, LsnShown, Reference!None, NoLsn
<1>7. DOMAIN old \subseteq Key
  BY DEF SilverTable
<1>8. \A e \in A : TableOf[KeyOf[e]] # table => Shows(e)
  <2>1. ASSUME NEW e \in A, TableOf[KeyOf[e]] # table PROVE Shows(e)
    <3>1. TableOf[KeyOf[e]] \in 1..Tables /\ Tables \in Nat
      BY <1>5, <2>1, TableAssumption
    <3>2. TableOf[KeyOf[e]] < table
      BY <2>1, <3>1
    <3> QED
      BY <2>1, <3>2 DEF CoverInv, PlanInv
  <2> QED
    BY <2>1
<1>9. ASSUME NEW k \in Key PROVE newer(k) = Firsts(U(k))
  <2>1. \A e \in A : KeyOf[e] = k => (Lsn[e] > shown(k) => TableOf[k] = table)
    BY <1>5, <1>6, <1>8 DEF Shows
  <2>2. \A e \in A : e \in U(k) <=> KeyOf[e] = k /\ Lsn[e] > shown(k)
    BY <2>1 DEF Updates
  <2>3. \A e \in A : e \in U(k) <=> KeyOf[e] = k /\ (k \in DOMAIN old => Lsn[e] > old[k].lsn)
    <3>1. CASE k \in DOMAIN old
      BY <1>6, <2>2, <3>1
    <3>2. CASE k \notin DOMAIN old
      <4>1. \A e \in A : Lsn[e] > shown(k)
        BY <1>5, <1>6, <3>2 DEF NoLsn
      <4> QED
        BY <2>2, <3>2, <4>1
    <3> QED
      BY <3>1, <3>2
  <2>4. U(k) \subseteq A
    BY DEF Updates
  <2> HIDE DEF A, U, old
  <2> QED
    BY <1>5, <2>3, <2>4 DEF Firsts
<1>10. ASSUME NEW k \in Key, U(k) # {}
       PROVE  \E u \in A : /\ U(k) = {u} /\ newer(k) = {Entry(First(u))} /\ KeyOf[u] = k
                           /\ new[k] = [event |-> u, prev |-> shown(k),
                                        epoch |-> ctx.epoch, batch |-> Batch]
  <2>1. PICK u \in U(k) : TRUE
    BY <1>10
  <2>2. \A e \in U(k) : e \in A /\ KeyOf[e] = k
    BY DEF Updates
  <2>3. \A e \in U(k) : e = u
    BY <1>5, <2>1, <2>2, LsnAssumption DEF CoverInv, PlanInv
  <2>4. U(k) = {u}
    BY <2>1, <2>3
  <2>5. newer(k) = {Entry(First(u))}
    BY <1>9, <2>4 DEF Firsts
  <2>6. new[k] = [event |-> CHOOSE e \in U(k) : TRUE, prev |-> shown(k),
                  epoch |-> ctx.epoch, batch |-> Batch]
    BY <1>10 DEF MergedSilver
  <2>7. (CHOOSE e \in U(k) : TRUE) = u
    BY <2>4
  <2> QED
    BY <2>1, <2>2, <2>4, <2>5, <2>6, <2>7
<1>11. ASSUME NEW k \in Key, U(k) = {} PROVE newer(k) = {} /\ new[k] = silver[k]
  BY <1>9, <1>11 DEF Firsts, MergedSilver
<1>12. ASSUME NEW e \in A, U(KeyOf[e]) = {} PROVE KeyOf[e] \in DOMAIN old
  <2>1. ~(TableOf[KeyOf[e]] = table /\ Lsn[e] > shown(KeyOf[e]))
    BY <1>12 DEF Updates
  <2>2. Lsn[e] <= shown(KeyOf[e])
    BY <1>5, <1>6, <1>8, <2>1 DEF Shows
  <2> QED
    BY <1>5, <1>6, <2>2 DEF NoLsn
<1>13. DOMAIN SilverTable(new) = {k \in Key : new[k].event # NoEvent}
  BY DEF SilverTable
<1>14. {x.key : x \in Firsts(A)} = {KeyOf[e] : e \in A}
  BY <1>5 DEF Firsts
<1>15. ASSUME NEW k \in Key
       PROVE  k \in DOMAIN SilverTable(new) <=> k \in DOMAIN old \cup {KeyOf[e] : e \in A}
  <2>1. CASE U(k) = {}
    BY <1>6, <1>11, <1>12, <1>13, <2>1
  <2>2. CASE U(k) # {}
    <3>0. \E u \in A : /\ KeyOf[u] = k
                       /\ new[k] = [event |-> u, prev |-> shown(k),
                                    epoch |-> ctx.epoch, batch |-> Batch]
      <4> HIDE DEF A, U, new, newer, shown
      <4> QED
        BY <1>10, <2>2
    <3>1. PICK u \in A : KeyOf[u] = k /\ new[k].event = u
      BY <3>0
    <3> QED
      BY <1>5, <1>13, <3>1, EventAssumption
  <2> QED
    BY <2>1, <2>2
<1>16. DOMAIN SilverTable(new) = DOMAIN old \cup {x.key : x \in Firsts(A)}
  BY <1>5, <1>7, <1>13, <1>14, <1>15
<1>17. ASSUME NEW k \in DOMAIN SilverTable(new)
       PROVE  SilverTable(new)[k] = IF newer(k) = {} THEN old[k] ELSE row(k)
  <2>1. k \in Key
    BY <1>13
  <2>2. SilverTable(new)[k] = [event |-> new[k].event, lsn |-> Lsn[new[k].event],
                               prev |-> new[k].prev, batch |-> new[k].batch]
    BY <1>13 DEF SilverTable
  <2>3. CASE U(k) = {}
    <3>1. newer(k) = {} /\ new[k] = silver[k]
      BY <1>11, <2>1, <2>3
    <3>2. k \in DOMAIN old
      BY <1>6, <1>13, <2>1, <3>1
    <3>3. old[k] = [event |-> silver[k].event, lsn |-> Lsn[silver[k].event],
                    prev |-> silver[k].prev, batch |-> silver[k].batch]
      BY <3>2 DEF SilverTable
    <3> QED
      BY <2>2, <3>1, <3>3
  <2>4. CASE U(k) # {}
    <3>1. PICK u \in A : /\ newer(k) = {Entry(First(u))}
                         /\ new[k] = [event |-> u, prev |-> shown(k),
                                      epoch |-> ctx.epoch, batch |-> Batch]
      BY <1>10, <2>1, <2>4
    <3>2. (CHOOSE x \in newer(k) : TRUE) = Entry(First(u))
      BY <3>1
    <3>3. row(k) = [event |-> u, lsn |-> Lsn[u], prev |-> shown(k), batch |-> Batch]
      BY <1>5, <1>6, <2>1, <3>2
    <3>4. SilverTable(new)[k] = row(k)
      BY <2>2, <3>1, <3>3
    <3>5. newer(k) # {}
      BY <3>1
    <3> HIDE DEF newer, row
    <3> QED
      BY <3>4, <3>5
  <2> QED
    BY <2>3, <2>4
<1>18. SilverTable(new) = [k \in DOMAIN SilverTable(new) |-> SilverTable(new)[k]]
  BY DEF SilverTable
<1> HIDE DEF new, newer, row, old, A
<1>19. SilverTable(new) = [k \in DOMAIN old \cup {x.key : x \in Firsts(A)} |->
                              IF newer(k) = {} THEN old[k] ELSE row(k)]
  BY <1>16, <1>17, <1>18
<1> QED
  BY <1>3, <1>19 DEF new, old

\* The guarded MERGEs, one after the other, leave silver as apply_plan does.
THEOREM MergeMatches ==
    ASSUME StableTimestamps
    PROVE  SteadySpec => MergeMatchesReference
<1> DEFINE Merged == OneLineage /\ stage = "silver" /\ stage' = "bronze" =>
              SilverTable(silver') = Reference!apply_plan(ReferencePlan, Batch, SilverTable(silver))
<1>1. (OneLineage /\ stage \in Running => Comparable /\ CoverInv /\ RepeatInv) /\ [Next]_vars
        => [Merged]_vars
  <2> SUFFICES ASSUME Comparable, CoverInv, RepeatInv, stage = "silver", stage' = "bronze",
                      [Next]_vars
               PROVE  SilverTable(silver')
                        = Reference!apply_plan(ReferencePlan, Batch, SilverTable(silver))
    BY DEF Running
  <2>1. MergeSilver
    BY DEF Next, Environment, Produce, Replay, Deploy, WipeCheckpoint, Job, StartUp,
       EnsureEpoch, StartQuery, Trigger, Resume, ProcessBatch, BeginBatch, PlanBatch,
       AppendBronze, MergeDlq, MergeRecord, CommitBatch, Crash, vars, process
  <2>2. table = Tables
    <3>1. ~(table < Tables)
      BY <2>1 DEF MergeSilver
    <3>2. table \in 1..Tables
      BY DEF Comparable, TypeInv, TypeOK
    <3> QED
      BY <3>1, <3>2, TableAssumption
  <2>3. silver' = MergedSilver(table)
    <3>1. tries' = 1
      BY <2>1 DEF MergeSilver
    <3>2. CASE \A e \in Planned("applied") : TableOf[KeyOf[e]] # table
      <4>1. UNCHANGED silver
        BY <2>1, <3>2 DEF MergeSilver
      <4>2. \A k \in Key : Updates(table, k) = {}
        BY <3>2 DEF Updates
      <4>3. silver = [k \in Key |-> silver[k]]
        BY DEF Comparable, TypeInv, TypeOK
      <4>4. MergedSilver(table) = [k \in Key |-> silver[k]]
        BY <4>2 DEF MergedSilver
      <4> QED
        BY <4>1, <4>3, <4>4
    <3>3. CASE \E e \in Planned("applied") : TableOf[KeyOf[e]] = table
      <4>1. ~Retried
        BY <3>1 DEF Retried, Comparable, TypeInv, TypeOK
      <4> QED
        BY <2>1, <3>3, <4>1 DEF MergeSilver
    <3> QED
      BY <3>2, <3>3
  <2> QED
    BY <2>2, <2>3, LastMerge
<1>2. SteadySpec => [](OneLineage /\ stage \in Running => Comparable /\ CoverInv /\ RepeatInv)
  BY Comparison
<1> QED
  BY <1>1, <1>2, PTL DEF SteadySpec, Spec, MergeMatchesReference

-----------------------------------------------------------------------------
(* Without a crash, a replay that is in bronze has resolved the DLQ row it *)
(* answers.  A later replay of the row comes later in its partition, and   *)
(* would reopen it if the contracts in use had become stricter.            *)

\* What one contract set accepts, the later ones do: check_backward_compatible,
\* but for fields that only they define (UsedVersionsAccept of ContractProofs).
StaysAccepted ==
    \A b \in Body, v, w \in Loadable : v \in b.accepted /\ v <= w => w \in b.accepted

\* The replays of a row are in one partition, as those of a record with a key.
KeyedReplays ==
    \A x, y \in Produced :
        IsReplay(x) /\ At(x).replay_of = At(y).replay_of => x[1] = y[1]

KeyedSpec == Spec /\ []KeyedReplays

\* The replay that was counted last is of a committed batch, or of this one,
\* which has then written the status.
LastCounted(d) ==
    \/ dlq[d].last = NoPosition
    \/ \E y \in Produced :
          /\ At(y).replay_of = d /\ dlq[d].last = ReplayPosition(y)
          /\ \/ Committed(y)
             \/ /\ stage \in {"dlq", "record", "commit"} /\ y \in Rows
                /\ dlq[d].status = StatusAfter(y)

ReplayedNow(d) == \E x \in Valid : At(x).replay_of = d

Resolved(d) ==
    /\ d \in DOMAIN dlq /\ ctx.registry \in At(d).body.accepted
    /\ \/ dlq[d].status = "replayed"
       \/ stage \in {"bronze", "dlq"} /\ ReplayedNow(d)

\* The end offsets of a batch are not below those of the one before.
Advancing == offsets # <<>> => \A p \in Partition : From(p) <= To(p)

PlannedReplays ==
    stage \in {"silver", "bronze"} =>
        \A e \in DOMAIN planned :
            planned[e].replay_of # NoPosition => ReplayedNow(planned[e].replay_of)

ResolveInv ==
    crashes = 0 =>
        /\ stage = "down" => epochs = 0 /\ bronze = {}
        /\ epochs <= 1
        /\ stage # "down" => ctx.registry <= contracts
        /\ Advancing /\ PlannedReplays
        /\ \A d \in DOMAIN dlq : LastCounted(d)
        /\ \A row \in bronze : row.replay_of # NoPosition => Resolved(row.replay_of)

\* A valid replay answers a row of the DLQ with the same record.
LEMMA ValidReplay ==
    ASSUME TypeInv, ReplayInv, OriginInv, stage \in Running,
           NEW d, d # NoPosition, NEW x \in Valid, At(x).replay_of = d
    PROVE  /\ d \in DOMAIN dlq /\ x \in Produced /\ IsReplay(x) /\ DlqId(x) = d
           /\ At(x).body = At(d).body
           /\ ctx.registry \in At(d).body.accepted
<1>1. x \in Rows /\ Status(x, ctx.registry) = "valid"
  BY DEF Valid
<1>2. x \in Produced
  BY <1>1, RowIsMessage DEF Produced
<1>3. IsReplay(x) /\ DlqId(x) = d
  BY DEF IsReplay, DlqId
<1>4. At(x).body \in Body
  BY <1>1, RowIsMessage DEF Message
<1>5. At(x).body.kind = "change" /\ ctx.registry \in At(x).body.accepted
  BY <1>1, <1>4, BodyAssumption DEF Status
<1> QED
  BY <1>2, <1>3, <1>5 DEF ReplayInv, OriginInv

\* If nothing is committed or written to the tables, only what the batch holds
\* may change, and where it is looked at it does not.
LEMMA LastKept ==
    ASSUME TypeInv, [Next]_vars, NEW d \in DOMAIN dlq, LastCounted(d),
           Produced \subseteq Produced', \A x \in Produced : At(x)' = At(x),
           dlq'[d] = dlq[d],
           \A x \in Produced : Committed(x) => Committed(x)',
           stage \in {"dlq", "record", "commit"} =>
              \/ /\ stage' \in {"dlq", "record", "commit"}
                 /\ Rows' = Rows /\ Rejected' = Rejected
              \/ \A x \in Rows : Committed(x)'
    PROVE  LastCounted(d)'
<1>1. CASE dlq[d].last = NoPosition
  BY <1>1 DEF LastCounted
<1>2. ASSUME NEW y \in Produced, At(y).replay_of = d, dlq[d].last = ReplayPosition(y)
      PROVE  /\ y \in Produced' /\ At(y)'.replay_of = d
             /\ dlq'[d].last = ReplayPosition(y)'
  BY <1>2 DEF ReplayPosition
<1>3. ASSUME NEW y \in Produced, At(y).replay_of = d, dlq[d].last = ReplayPosition(y),
             Committed(y)
      PROVE  LastCounted(d)'
  BY <1>2, <1>3 DEF LastCounted
<1>4. ASSUME NEW y \in Produced, At(y).replay_of = d, dlq[d].last = ReplayPosition(y),
             stage \in {"dlq", "record", "commit"}, y \in Rows,
             dlq[d].status = StatusAfter(y)
      PROVE  LastCounted(d)'
  <2>1. CASE Committed(y)'
    BY <1>2, <1>4, <2>1 DEF LastCounted
  <2>2. CASE /\ stage' \in {"dlq", "record", "commit"}
             /\ Rows' = Rows /\ Rejected' = Rejected
    <3>1. StatusAfter(y)' = StatusAfter(y)
      BY <2>2 DEF StatusAfter
    <3> QED
      BY <1>2, <1>4, <2>2, <3>1 DEF LastCounted
  <2> QED
    BY <1>4, <2>1, <2>2
<1> QED
  BY <1>1, <1>3, <1>4 DEF LastCounted

LEMMA AdvancingStep ==
    ASSUME TypeInv, Advancing, [Next]_vars
    PROVE  Advancing'
<1>1. CASE UNCHANGED offsets
  BY <1>1 DEF Advancing, From, To
<1>2. CASE WipeCheckpoint
  BY <1>2 DEF WipeCheckpoint, Advancing
<1>3. CASE Trigger
  <2>1. PICK to \in [Partition -> 0..MaxOffset] :
          /\ \A p \in Partition : Start(p) <= to[p]
          /\ offsets' = Append(offsets, to)
    BY <1>3 DEF Trigger
  <2>2. offsets \in Seq([Partition -> 0..MaxOffset])
    BY DEF TypeInv, TypeOK
  <2>3. /\ Len(offsets') = Len(offsets) + 1 /\ Len(offsets) \in Nat
        /\ offsets'[Len(offsets) + 1] = to
        /\ \A i \in 1..Len(offsets) : offsets'[i] = offsets[i]
    BY <2>1, <2>2, AppendProperties
  <2>4. offsets = <<>> <=> Len(offsets) = 0
    BY <2>2, EmptySeq
  <2>5. ASSUME NEW p \in Partition PROVE From(p)' = Start(p) /\ To(p)' = to[p]
    BY <2>3, <2>4 DEF From, To, Start
  <2> QED
    BY <2>1, <2>5 DEF Advancing
<1> QED
  BY <1>1, <1>2, <1>3 DEF Next, Environment, Produce, Replay, Deploy, Job, StartUp,
     EnsureEpoch, StartQuery, Resume, ProcessBatch, BeginBatch, PlanBatch,
     MergeSilver, AppendBronze, MergeDlq, MergeRecord, CommitBatch, Crash, checkpoint, vars

\* Commits stay, up to the end of the lineage.
LEMMA CommittedAfter ==
    ASSUME TypeInv, Advancing, [Next]_vars, ~WipeCheckpoint, NEW x \in Coordinates,
           Committed(x)
    PROVE  Committed(x)'
<1>1. CASE UNCHANGED <<offsets, commits>>
  BY <1>1 DEF Committed
<1>2. CASE Trigger
  <2>1. PICK to \in [Partition -> 0..MaxOffset] : offsets' = Append(offsets, to)
    BY <1>2 DEF Trigger
  <2>2. /\ UNCHANGED commits /\ commits \in Nat /\ commits = Len(offsets)
        /\ offsets \in Seq([Partition -> 0..MaxOffset])
    BY <1>2 DEF Trigger, TypeInv, TypeOK
  <2>3. commits > 0 => offsets'[commits] = offsets[commits]
    BY <2>1, <2>2, AppendProperties
  <2> QED
    BY <2>2, <2>3 DEF Committed
<1>3. CASE CommitBatch
  <2>1. /\ commits' = Len(offsets) /\ Len(offsets) = commits + 1
        /\ UNCHANGED offsets /\ commits \in Nat /\ offsets # <<>>
    BY <1>3 DEF CommitBatch, TypeInv, TypeOK, LogInv, Running
  <2>2. commits > 0 /\ x[1] \in Partition /\ x[2] <= offsets[commits][x[1]]
    BY DEF Committed, Coordinates
  <2>3. From(x[1]) = offsets[commits][x[1]] /\ To(x[1]) = offsets[commits'][x[1]]
    BY <2>1, <2>2 DEF From, To
  <2>4. From(x[1]) <= To(x[1]) /\ From(x[1]) \in 0..MaxOffset /\ To(x[1]) \in 0..MaxOffset
    BY <2>1, <2>2, EndsType DEF Advancing
  <2>5. x[2] \in Int
    BY BoundAssumption DEF Coordinates
  <2>6. x[2] <= offsets[commits'][x[1]]
    BY <2>2, <2>3, <2>4, <2>5, BoundAssumption
  <2> QED
    BY <2>1, <2>2, <2>6 DEF Committed
<1> QED
  BY <1>1, <1>2, <1>3 DEF Next, Environment, Produce, Replay, Deploy, Job, StartUp,
     EnsureEpoch, StartQuery, Resume, ProcessBatch, BeginBatch, PlanBatch,
     MergeSilver, AppendBronze, MergeDlq, MergeRecord, Crash, checkpoint, vars

\* The source of a row whose replay is in the batch is a replay, since the batch
\* of the row's own record is an earlier one.
LEMMA SourceIsReplay ==
    ASSUME TypeInv, ReplayInv, OriginInv, Ordered, stage \in Running,
           NEW src \in DlqSources, NEW d, d # NoPosition,
           NEW x \in Valid, At(x).replay_of = d
    PROVE  /\ d \in DOMAIN src /\ src[d] \in Rows /\ src[d] \in Produced
           /\ IsReplay(src[d]) /\ At(src[d]).replay_of = d /\ At(src[d]).body = At(d).body
<1> DEFINE y == src[d]
<1>1. x \in Rows /\ x \in Produced /\ IsReplay(x) /\ DlqId(x) = d /\ d \in DOMAIN dlq
  BY ValidReplay DEF Valid
<1>2. x \in DlqInput
  BY <1>1 DEF DlqInput
<1>3. d \in DOMAIN src /\ y \in DlqInput /\ DlqId(y) = d
  BY <1>1, <1>2 DEF DlqSources, DlqIds
<1>4. y \in Rows /\ y \in Produced
  BY <1>3, DlqInputType, RowIsMessage DEF Produced
<1>5. IsReplay(y)
  <2> SUFFICES ASSUME ~IsReplay(y) PROVE FALSE
    OBVIOUS
  <2>1. y = d
    BY <1>3 DEF DlqId
  <2>2. From(d[1]) < d[2]
    BY <1>4, <2>1 DEF Rows
  <2>3. offsets # <<>> /\ x[2] <= To(x[1])
    BY <1>1 DEF TypeInv, TypeOK, LogInv, Rows
  <2>4. d[2] <= From(d[1])
    BY <1>1, <2>3 DEF Ordered
  <2>5. From(d[1]) \in Int /\ d[2] \in Int
    BY <1>1, <2>3, EndsType, DlqInProduced, BoundAssumption DEF Produced, Coordinates
  <2> QED
    BY <2>2, <2>4, <2>5
<1>6. At(y).replay_of = d
  BY <1>3, <1>5 DEF DlqId
<1>7. At(y).body = At(d).body
  BY <1>3, <1>4, <1>5 DEF OriginInv
<1> QED
  BY <1>3, <1>4, <1>5, <1>6, <1>7

\* A replay of a row whose record is accepted is not rejected.
LEMMA AcceptedReplay ==
    ASSUME OriginInv, NEW d \in DOMAIN dlq, ctx.registry \in At(d).body.accepted,
           NEW y, At(y).body = At(d).body
    PROVE  y \notin Rejected /\ StatusAfter(y) = "replayed"
<1>1. At(y).body.kind = "change"
  BY DEF OriginInv
<1>2. Status(y, ctx.registry) = "valid"
  BY <1>1 DEF Status
<1> QED
  BY <1>2 DEF Rejected, StatusAfter

\* A source in the batch is after what was counted before the batch.
LEMMA LaterReplay ==
    ASSUME TypeInv, KeyedReplays, stage \in Running, NEW d, d # NoPosition,
           NEW y \in Rows, y \in Produced, At(y).replay_of = d,
           NEW z \in Produced, At(z).replay_of = d, Committed(z)
    PROVE  After(ReplayPosition(y), ReplayPosition(z))
<1>1. y[1] = z[1]
  BY DEF KeyedReplays, IsReplay
<1>2. commits > 0 /\ z[2] <= offsets[commits][z[1]] /\ Len(offsets) = commits + 1
      /\ commits \in Nat
  BY DEF Committed, TypeInv, TypeOK, LogInv
<1>3. From(z[1]) = offsets[commits][z[1]]
  BY <1>2 DEF From
<1>4. From(y[1]) < y[2]
  BY DEF Rows
<1>5. offsets # <<>> /\ y[1] \in Partition /\ y[2] \in Int /\ z[2] \in Int
  BY BatchIsPlanned, BoundAssumption DEF Produced, Coordinates
<1>6. From(y[1]) \in Int
  BY <1>5, EndsType, BoundAssumption
<1>7. z[2] < y[2]
  BY <1>1, <1>2, <1>3, <1>4, <1>5, <1>6
<1> QED
  BY <1>1, <1>7 DEF After, ReplayPosition

LEMMA AfterNoPosition ==
    ASSUME TypeInv, NEW x \in Produced
    PROVE  After(ReplayPosition(x), NoPosition)
<1>1. x[1] \in Partition /\ x[2] \in 1..MaxOffset /\ MaxOffset \in Nat
  BY BoundAssumption DEF Produced, Coordinates
<1>2. Number[x[1]] \in Nat
  BY <1>1, LogAssumption
<1> QED
  BY <1>1, <1>2 DEF After, ReplayPosition, NoPosition

\* Once the merge is done, a row whose replay is in the batch is resolved, and
\* none is reopened.
LEMMA MergeResolves ==
    ASSUME TypeInv, ReplayInv, OriginInv, Ordered, KeyedReplays, stage = "dlq",
           NEW src \in DlqSources, NEW d \in DOMAIN dlq, LastCounted(d), Resolved(d)
    PROVE  d \in DOMAIN MergedDlq(src) /\ MergedDlq(src)[d].status = "replayed"
<1>1. stage \in Running /\ ctx.registry \in At(d).body.accepted /\ d # NoPosition
  <2>1. d \in Coordinates
    BY DEF TypeInv, TypeOK
  <2>2. d[1] # 0
    BY <2>1, LogAssumption DEF Coordinates
  <2> QED
    BY <2>2 DEF Resolved, Running, NoPosition
<1>2. d \in DOMAIN MergedDlq(src)
  BY <1>1, MergedDlqType
<1>3. CASE Answers(d, src)
  <2> DEFINE y == src[d]
  <2>1. /\ y \in DlqInput /\ DlqId(y) = d /\ IsReplay(y)
        /\ MergedDlq(src)[d].status = StatusAfter(y)
    BY <1>1, <1>2, <1>3, MergedDlqRows DEF Answers
  <2>2. y \in Produced
    BY <1>1, <2>1, DlqInputType, RowIsMessage DEF Produced
  <2>3. At(y).body = At(d).body
    BY <2>1, <2>2 DEF OriginInv
  <2> HIDE DEF y
  <2> QED
    BY <1>1, <1>2, <2>1, <2>3, AcceptedReplay
<1>4. CASE ~Answers(d, src)
  <2>1. MergedDlq(src)[d] = dlq[d]
    BY <1>1, <1>2, <1>4, MergedDlqRows
  <2>2. CASE dlq[d].status = "replayed"
    BY <1>2, <2>1, <2>2
  <2>3. CASE ReplayedNow(d)
    <3>1. PICK x \in Valid : At(x).replay_of = d
      BY <2>3 DEF ReplayedNow
    <3> PICK y : y = src[d]
      OBVIOUS
    <3>2. /\ d \in DOMAIN src /\ y \in Rows /\ y \in Produced
          /\ IsReplay(y) /\ At(y).replay_of = d /\ At(y).body = At(d).body
      BY <1>1, <3>1, SourceIsReplay
    <3>3. ~After(ReplayPosition(y), dlq[d].last)
      BY <1>4, <3>2 DEF Answers
    <3>4. dlq[d].last # NoPosition
      BY <3>2, <3>3, AfterNoPosition
    <3>5. PICK z \in Produced :
            /\ At(z).replay_of = d /\ dlq[d].last = ReplayPosition(z)
            /\ Committed(z) \/ dlq[d].status = StatusAfter(z)
      BY <3>4 DEF LastCounted
    <3>6. ~Committed(z)
      BY <1>1, <3>2, <3>3, <3>5, LaterReplay
    <3>7. At(z).body = At(d).body
      BY <1>1, <3>5 DEF OriginInv, DlqId, IsReplay
    <3> QED
      BY <1>1, <1>2, <2>1, <3>5, <3>6, <3>7, AcceptedReplay
  <2> QED
    BY <2>2, <2>3 DEF Resolved
<1> QED
  BY <1>3, <1>4

-----------------------------------------------------------------------------
(* The steps, without a crash                                              *)

\* Nothing else changes what a batch holds.
LEMMA SameRows ==
    ASSUME TypeInv, [Next]_vars, stage \in Running, stage' \in Running, ~BeginBatch
    PROVE  Rows' = Rows /\ Valid' = Valid /\ Rejected' = Rejected
<1>1. CASE LogAppend
  BY <1>1, BatchKept
<1>2. CASE UNCHANGED kafka
  <2>1. UNCHANGED offsets /\ ctx'.registry = ctx.registry
    BY <1>2 DEF Next, Environment, Produce, Replay, Deploy, WipeCheckpoint, Job, StartUp,
       EnsureEpoch, StartQuery, Trigger, Resume, ProcessBatch, PlanBatch,
       MergeSilver, AppendBronze, MergeDlq, MergeRecord, CommitBatch, Crash,
       checkpoint, lake, process, vars, Running, TypeInv, TypeOK
  <2> QED
    BY <1>2, <2>1, SameBatch
<1> QED
  BY <1>1, <1>2, LogStep

LEMMA MessagesStay ==
    ASSUME TypeInv, [Next]_vars
    PROVE  Produced \subseteq Produced' /\ \A x \in Produced : At(x)' = At(x)
BY LogStep, LogKept DEF Produced, At

LEMMA NoCrash ==
    ASSUME TypeInv, [Next]_vars, crashes' = 0
    PROVE  ~Crash /\ crashes = 0
<1>1. crashes \in Nat
  BY BoundAssumption DEF TypeInv, TypeOK
<1>2. ~Crash
  <2>1. Crash => crashes' = IF crashes <= MaxCrashes THEN crashes + 1 ELSE crashes
    BY DEF Crash
  <2>2. MaxCrashes \in Nat
    BY BoundAssumption
  <2> QED
    BY <1>1, <2>1, <2>2
<1>3. crashes' = crashes
  BY <1>2 DEF Next, Environment, Produce, Replay, Deploy, WipeCheckpoint, Job, StartUp,
     EnsureEpoch, StartQuery, Trigger, Resume, ProcessBatch, BeginBatch, PlanBatch,
     MergeSilver, AppendBronze, MergeDlq, MergeRecord, CommitBatch, vars
<1> QED
  BY <1>2, <1>3

\* Without a crash there is one lineage, and the registry follows the contracts.
LEMMA FirstRun ==
    ASSUME TypeInv, CoverInv, LineageInv, crashes' = 0, [Next]_vars,
           stage = "down" => epochs = 0 /\ bronze = {},
           epochs <= 1, stage # "down" => ctx.registry <= contracts
    PROVE  /\ ~Crash /\ ~WipeCheckpoint /\ crashes = 0
           /\ stage' = "down" => epochs' = 0 /\ bronze' = {}
           /\ epochs' <= 1
           /\ stage' # "down" => ctx'.registry <= contracts'
<1>1. ~Crash /\ crashes = 0
  BY NoCrash
<1>2. ~WipeCheckpoint
  BY DEF WipeCheckpoint, LineageInv
<1>3. CASE EnsureEpoch
  <2>1. ctx'.registry = contracts /\ contracts' = contracts /\ contracts \in Int
    BY <1>3, BoundAssumption DEF EnsureEpoch, NoContext, external, TypeInv, TypeOK
  <2>2. epochs' <= 1 /\ stage' # "down"
    BY <1>3 DEF EnsureEpoch
  <2> QED
    BY <1>1, <1>2, <2>1, <2>2
<1>4. CASE ~EnsureEpoch
  <2>1. UNCHANGED epochs
    BY <1>1, <1>2, <1>4 DEF Next, Environment, Produce, Replay, Deploy, Job, StartUp,
       StartQuery, Trigger, Resume, ProcessBatch, BeginBatch, PlanBatch,
       MergeSilver, AppendBronze, MergeDlq, MergeRecord, CommitBatch, vars
  <2>6. stage' = stage \/ (stage # "down" /\ stage' # "down")
    BY <1>1, <1>2, <1>4 DEF Next, Environment, Produce, Replay, Deploy, Job, StartUp,
       StartQuery, Trigger, Resume, ProcessBatch, BeginBatch, PlanBatch,
       MergeSilver, AppendBronze, MergeDlq, MergeRecord, CommitBatch,
       process, vars
  <2>2. stage = "down" => bronze' = bronze
    BY TablesStep
  <2>3. contracts \in Int /\ contracts' \in Int /\ contracts <= contracts'
    <3>1. contracts \in Int
      BY BoundAssumption DEF TypeInv, TypeOK
    <3>2. contracts' = contracts \/ contracts' = contracts + 1
      BY <1>1, <1>2, <1>4 DEF Next, Environment, Produce, Replay, Deploy, Job, StartUp,
         StartQuery, Trigger, Resume, ProcessBatch, BeginBatch, PlanBatch,
         MergeSilver, AppendBronze, MergeDlq, MergeRecord, CommitBatch, external, vars
    <3> QED
      BY <3>1, <3>2
  <2>4. ctx'.registry = ctx.registry \/ ctx'.registry = contracts
    BY <1>1, <1>4 DEF Next, Environment, Produce, Replay, Deploy, WipeCheckpoint, Job, StartUp,
       StartQuery, Trigger, Resume, ProcessBatch, BeginBatch, PlanBatch,
       MergeSilver, AppendBronze, MergeDlq, MergeRecord, CommitBatch,
       process, vars, TypeInv, TypeOK
  <2>5. ctx.registry \in Int
    BY BoundAssumption DEF TypeInv, TypeOK
  <2> QED
    BY <1>1, <1>2, <2>1, <2>2, <2>3, <2>4, <2>5, <2>6
<1> QED
  BY <1>1, <1>2, <1>3, <1>4

LEMMA PlannedReplaysStep ==
    ASSUME TypeInv, PlannedReplays, [Next]_vars
    PROVE  PlannedReplays'
<1> SUFFICES ASSUME stage' \in {"silver", "bronze"}, NEW e \in DOMAIN planned',
                    planned'[e].replay_of # NoPosition
             PROVE  \E x \in Valid' : At(x)'.replay_of = planned'[e].replay_of
  BY DEF PlannedReplays, ReplayedNow
<1>5. PlanBatch \/ (stage \in {"silver", "bronze"} /\ UNCHANGED planned)
  BY DEF Next, Environment, Produce, Replay, Deploy, WipeCheckpoint, Job, StartUp,
     EnsureEpoch, StartQuery, Trigger, Resume, ProcessBatch, BeginBatch, PlanBatch,
     MergeSilver, AppendBronze, MergeDlq, MergeRecord, CommitBatch, Crash,
     process, batch, vars
<1>1. stage \in Running /\ stage' \in Running /\ ~BeginBatch
  BY <1>5 DEF PlanBatch, BeginBatch, Running
<1>2. Valid' = Valid
  BY <1>1, SameRows
<1>3. \A x \in Valid : At(x)' = At(x)
  BY <1>1, MessagesStay, RowIsMessage DEF Valid, Produced
<1>4. \E x \in Valid : At(x).replay_of = planned'[e].replay_of
  <2>1. CASE PlanBatch
    <3>1. e \in Unique /\ planned'[e].replay_of = At(First(e)).replay_of
      BY <2>1 DEF PlanBatch, Plan
    <3> QED
      BY <1>1, <3>1, FirstIsValid
  <2>2. CASE stage \in {"silver", "bronze"} /\ UNCHANGED planned
    BY <2>2 DEF PlannedReplays, ReplayedNow
  <2> QED
    BY <1>5, <2>1, <2>2
<1> QED
  BY <1>2, <1>3, <1>4

LEMMA LastCountedStep ==
    ASSUME TypeInv, CoverInv, Advancing, [Next]_vars, ~Crash, ~WipeCheckpoint,
           \A d \in DOMAIN dlq : LastCounted(d)
    PROVE  (\A d \in DOMAIN dlq : LastCounted(d))'
<1>1. Produced \subseteq Produced' /\ \A x \in Produced : At(x)' = At(x)
  BY MessagesStay
<1>2. \A x \in Produced : Committed(x) => Committed(x)'
  BY CommittedAfter DEF Produced
<1>3. stage \in {"dlq", "record", "commit"} =>
        \/ /\ stage' \in {"dlq", "record", "commit"}
           /\ Rows' = Rows /\ Rejected' = Rejected
        \/ \A x \in Rows : Committed(x)'
  <2> SUFFICES ASSUME stage \in {"dlq", "record", "commit"}
               PROVE  \/ /\ stage' \in {"dlq", "record", "commit"}
                         /\ Rows' = Rows /\ Rejected' = Rejected
                      \/ \A x \in Rows : Committed(x)'
    OBVIOUS
  <2>1. stage \in Running
    BY DEF Running
  <2>2. CASE CommitBatch
    <3>1. /\ commits' = Len(offsets) /\ UNCHANGED offsets /\ Len(offsets) = commits + 1
          /\ commits \in Nat
      BY <2>1, <2>2 DEF CommitBatch, TypeInv, TypeOK, LogInv
    <3> QED
      BY <3>1 DEF Committed, Rows, To
  <2>3. CASE ~CommitBatch
    <3>1. stage' \in {"dlq", "record", "commit"} /\ ~BeginBatch
      BY <2>3 DEF Next, Environment, Produce, Replay, Deploy, WipeCheckpoint, Job, StartUp,
         EnsureEpoch, StartQuery, Trigger, Resume, ProcessBatch, BeginBatch, PlanBatch,
         MergeSilver, AppendBronze, MergeDlq, MergeRecord, process, vars
    <3>2. stage' \in Running
      BY <3>1 DEF Running
    <3> QED
      BY <2>1, <3>1, <3>2, SameRows
  <2> QED
    BY <2>2, <2>3
<1>4. ASSUME NEW d \in DOMAIN dlq, dlq'[d] = dlq[d] PROVE LastCounted(d)'
  BY <1>1, <1>2, <1>3, <1>4, LastKept
<1>5. CASE UNCHANGED dlq
  BY <1>4, <1>5
<1>6. ASSUME stage = "dlq", stage \in Running, UNCHANGED <<kafka, offsets, ctx>>,
             NEW src \in DlqSources, dlq' = MergedDlq(src), NEW d \in DOMAIN dlq'
      PROVE  LastCounted(d)'
  <2>1. CASE d \in DOMAIN dlq /\ dlq'[d] = dlq[d]
    BY <1>4, <2>1
  <2>2. CASE dlq'[d].last = NoPosition
    BY <2>2 DEF LastCounted
  <2>3. CASE d \in DOMAIN dlq /\ Answers(d, src)
    <3> PICK y : y = src[d]
      OBVIOUS
    <3>1. /\ y \in DlqInput /\ DlqId(y) = d /\ IsReplay(y)
          /\ dlq'[d].status = StatusAfter(y) /\ dlq'[d].last = ReplayPosition(y)
      BY <1>6, <2>3, MergedDlqRows DEF Answers
    <3>2. y \in Rows /\ y \in Produced /\ At(y).replay_of = d
      BY <1>6, <3>1, DlqInputType, RowIsMessage DEF Produced, DlqId
    <3>3. stage' \in {"dlq", "record"} /\ ~BeginBatch /\ stage' \in Running
      BY <1>6 DEF Next, Environment, Produce, Replay, Deploy, WipeCheckpoint, Job, StartUp,
         EnsureEpoch, StartQuery, Trigger, Resume, ProcessBatch, BeginBatch, PlanBatch,
         MergeSilver, AppendBronze, MergeDlq, MergeRecord, CommitBatch, process, vars, Running
    <3>4. Rows' = Rows /\ Rejected' = Rejected
      BY <1>6, <3>3, SameRows
    <3>5. StatusAfter(y)' = StatusAfter(y) /\ ReplayPosition(y)' = ReplayPosition(y)
      BY <3>4 DEF StatusAfter, ReplayPosition
    <3> QED
      BY <1>1, <3>1, <3>2, <3>3, <3>4, <3>5 DEF LastCounted
  <2> QED
    BY <1>6, <2>1, <2>2, <2>3, MergedDlqRows
<1> QED
  BY <1>5, <1>6, DlqStep

\* What a step does to the status of a row that a replay in bronze answers.
LEMMA ResolvedKept ==
    ASSUME StaysAccepted, TypeInv, CoverInv, ProcessInv, DeliveryInv, OriginInv, LineageInv,
           epochs <= 1, KeyedReplays, [Next]_vars, ~Crash, ~EnsureEpoch, ~WipeCheckpoint,
           stage # "down" => ctx.registry <= contracts, stage # "down",
           NEW d, Resolved(d), LastCounted(d)
    PROVE  Resolved(d)'
<1>1. /\ d \in DOMAIN dlq' /\ d \in DOMAIN dlq /\ d \in Produced /\ At(d)' = At(d)
      /\ d # NoPosition
  BY MessagesStay, TablesGrow, DlqInProduced, CoordinatesAreNumbers DEF Resolved, Produced
<1>2. ctx'.registry \in At(d)'.body.accepted
  <2>1. At(d).body \in Body
    BY <1>1, ProducedIsMessage DEF Message
  <2>2. CASE ctx'.registry = ctx.registry
    BY <1>1, <2>2 DEF Resolved
  <2>3. CASE ctx'.registry = contracts /\ contracts \in Loadable
    BY <1>1, <2>1, <2>3 DEF Resolved, StaysAccepted, ProcessInv
  <2>4. ctx'.registry = ctx.registry \/ (ctx'.registry = contracts /\ contracts \in Loadable)
    <3>1. CASE BeginBatch
      BY <3>1 DEF BeginBatch, TypeInv, TypeOK
    <3>2. CASE ~BeginBatch
      BY <3>2 DEF Next, Environment, Produce, Replay, Deploy, Job, StartUp,
         StartQuery, Trigger, Resume, ProcessBatch, PlanBatch,
         MergeSilver, AppendBronze, MergeDlq, MergeRecord, CommitBatch,
         process, vars, TypeInv, TypeOK
    <3> QED
      BY <3>1, <3>2
  <2> QED
    BY <2>2, <2>3, <2>4
<1>3. ASSUME stage \in {"bronze", "dlq"}, stage' \in {"bronze", "dlq"}, ReplayedNow(d)
      PROVE  ReplayedNow(d)'
  <2>1. stage \in Running /\ stage' \in Running /\ ~BeginBatch
    BY <1>3 DEF Running, BeginBatch
  <2>2. Valid' = Valid
    BY <2>1, SameRows
  <2>3. \A x \in Valid : At(x)' = At(x)
    BY <2>1, MessagesStay, RowIsMessage DEF Valid, Produced
  <2> QED
    BY <1>3, <2>2, <2>3 DEF ReplayedNow
<1>5. ASSUME stage = "dlq", NEW src \in DlqSources, dlq' = MergedDlq(src)
      PROVE  Resolved(d)'
  <2>1. Ordered
    BY <1>5 DEF LineageInv
  <2>2. dlq'[d].status = "replayed"
    BY <1>1, <1>5, <2>1, MergeResolves DEF DeliveryInv
  <2> QED
    BY <1>1, <1>2, <2>2 DEF Resolved
<1>4. CASE UNCHANGED dlq
  <2>1. CASE dlq[d].status = "replayed"
    BY <1>1, <1>2, <1>4, <2>1 DEF Resolved
  <2>2. CASE stage \in {"bronze", "dlq"} /\ ReplayedNow(d)
    <3>1. PICK x \in Valid : At(x).replay_of = d
      BY <2>2 DEF ReplayedNow
    <3>2. DlqInput # {}
      BY <1>1, <3>1 DEF DlqInput, IsReplay
    <3>3. \/ stage' \in {"bronze", "dlq"}
          \/ stage = "dlq" /\ \E src \in DlqSources : dlq' = MergedDlq(src)
      BY <2>2, <3>2 DEF Next, Environment, Produce, Replay, Deploy, Job, StartUp,
         StartQuery, Trigger, Resume, ProcessBatch, BeginBatch, PlanBatch,
         MergeSilver, AppendBronze, MergeDlq, MergeRecord, CommitBatch,
         process, vars
    <3> QED
      BY <1>1, <1>2, <1>3, <1>5, <2>2, <3>3 DEF Resolved
  <2> QED
    BY <2>1, <2>2 DEF Resolved
<1> QED
  BY <1>4, <1>5, DlqStep

LEMMA ResolvedStep ==
    ASSUME StaysAccepted, TypeInv, CoverInv, ProcessInv, DeliveryInv, OriginInv, LineageInv,
           KeyedReplays, ResolveInv, crashes = 0, [Next]_vars, ~Crash, ~WipeCheckpoint,
           NEW row \in bronze', row.replay_of # NoPosition
    PROVE  Resolved(row.replay_of)'
<1> PICK d : d = row.replay_of
  OBVIOUS
<1>1. CASE row \in bronze
  <2>1. Resolved(d) /\ stage # "down" /\ ~EnsureEpoch
    BY <1>1 DEF ResolveInv, EnsureEpoch
  <2>2. LastCounted(d)
    BY <2>1 DEF ResolveInv, Resolved
  <2> QED
    BY <2>1, <2>2, ResolvedKept DEF ResolveInv
<1>2. CASE row \notin bronze
  <2>1. stage = "bronze" /\ row \in BronzeRows
    BY <1>2, TablesStep
  <2>2. stage \in Running /\ stage' \in Running /\ ~BeginBatch
    BY <2>1 DEF Next, Environment, Produce, Replay, Deploy, Job, StartUp, EnsureEpoch,
       StartQuery, Trigger, Resume, ProcessBatch, BeginBatch, PlanBatch,
       MergeSilver, AppendBronze, MergeDlq, MergeRecord, CommitBatch,
       process, vars, Running
  <2>3. /\ UNCHANGED <<kafka, ctx, dlq>> /\ stage' \in {"bronze", "dlq"}
    BY <1>2, <2>1 DEF Next, Environment, Produce, Replay, Deploy, Job, StartUp, EnsureEpoch,
       StartQuery, Trigger, Resume, ProcessBatch, BeginBatch, PlanBatch,
       MergeSilver, AppendBronze, MergeDlq, MergeRecord, CommitBatch,
       process, vars, external, lake
  <2>4. PICK e \in Fresh : row.replay_of = planned[e].replay_of
    BY <2>1 DEF BronzeRows
  <2>5. ReplayedNow(d)
    BY <2>1, <2>4 DEF Fresh, ResolveInv, PlannedReplays
  <2>6. PICK x \in Valid : At(x).replay_of = d
    BY <2>5 DEF ReplayedNow
  <2>7. d \in DOMAIN dlq /\ ctx.registry \in At(d).body.accepted
    BY <2>2, <2>6, ValidReplay DEF DeliveryInv
  <2>8. x \in Valid' /\ At(x)'.replay_of = d
    BY <2>2, <2>3, <2>6, SameRows DEF At
  <2> QED
    BY <2>3, <2>7, <2>8 DEF Resolved, ReplayedNow, At
<1> QED
  BY <1>1, <1>2

LEMMA ResolveStep ==
    ASSUME StaysAccepted, TypeInv, CoverInv, ProcessInv, DlqInv,
           KeyedReplays, ResolveInv, [Next]_vars
    PROVE  ResolveInv'
<1> SUFFICES ASSUME crashes' = 0
             PROVE  /\ stage' = "down" => epochs' = 0 /\ bronze' = {}
                    /\ epochs' <= 1
                    /\ stage' # "down" => ctx'.registry <= contracts'
                    /\ Advancing' /\ PlannedReplays'
                    /\ (\A d \in DOMAIN dlq : LastCounted(d))'
                    /\ \A row \in bronze' : row.replay_of # NoPosition =>
                          Resolved(row.replay_of)'
  BY DEF ResolveInv
<1>2. crashes = 0 /\ ~Crash
  BY NoCrash
<1>3. /\ ~WipeCheckpoint
      /\ stage' = "down" => epochs' = 0 /\ bronze' = {}
      /\ epochs' <= 1
      /\ stage' # "down" => ctx'.registry <= contracts'
  BY <1>2, FirstRun DEF ResolveInv, DlqInv
<1>4. Advancing' /\ PlannedReplays'
  BY <1>2, AdvancingStep, PlannedReplaysStep DEF ResolveInv
<1>5. (\A d \in DOMAIN dlq : LastCounted(d))'
  BY <1>2, <1>3, LastCountedStep DEF ResolveInv
<1>6. \A row \in bronze' : row.replay_of # NoPosition => Resolved(row.replay_of)'
  BY <1>2, <1>3, ResolvedStep DEF DlqInv
<1> QED
  BY <1>3, <1>4, <1>5, <1>6

\* If the driver does not crash, the replays of a row share a partition and no
\* later contract set rejects what an earlier one accepted, then every replay in
\* bronze has resolved its row once its batch is committed: none is reopened
\* by a later replay, and none is counted late (_dlq_rows 337-393, DLQ_MERGE).
THEOREM UninterruptedResolves ==
    ASSUME StaysAccepted
    PROVE  KeyedSpec => []UninterruptedReplayResolves
<1>1. Init => ResolveInv
  BY DEF Init, ResolveInv, Advancing, PlannedReplays
<1>2. TypeInv /\ CoverInv /\ DlqInv /\ BatchesInv /\ KeyedReplays /\ ResolveInv
        /\ [Next]_vars => ResolveInv'
  BY ResolveStep DEF BatchesInv
<1>3. ResolveInv => UninterruptedReplayResolves
  BY DEF ResolveInv, UninterruptedReplayResolves, AcceptedReplayResolves, Resolved
<1> QED
  BY <1>1, <1>2, <1>3, TypeInvariant, CoverInvariant, DlqInvariant, BatchesInvariant, PTL
  DEF KeyedSpec, Spec

=============================================================================
