----------------------------- MODULE SinkProofs -----------------------------
(***************************************************************************)
(* Proofs about Sink for every set of keys, events, partitions and bodies, *)
(* every log, every number of retries, crashes and checkpoint lineages.    *)
(***************************************************************************)
EXTENDS Sink, Extrema, SequenceTheorems, FiniteSetTheorems

-----------------------------------------------------------------------------
(* Type correctness.  It needs to know, besides, that batches and DLQ rows *)
(* only name records that are in the log, and that a running batch is the  *)
(* one after the committed ones.                                           *)

Running == {"begin", "plan", "silver", "bronze", "dlq", "record", "commit"}

LogInv ==
    /\ \A i \in 1..Len(offsets), p \in Partition : offsets[i][p] <= Len(kafka[p])
    /\ \A d \in DOMAIN dlq : d[2] <= Len(kafka[d[1]])
    /\ stage \in Running => Len(offsets) = commits + 1

TypeInv == TypeOK /\ LogInv

LEMMA CoordinatesAreNumbers ==
    \A x \in Coordinates : x[1] \in Nat /\ x[2] \in Nat /\ x # NoPosition
<1> SUFFICES ASSUME NEW x \in Coordinates
             PROVE  x[1] \in Nat /\ x[2] \in Nat /\ x # NoPosition
  OBVIOUS
<1>1. x[1] \in Partition /\ x[2] \in 1..MaxOffset
  BY DEF Coordinates
<1>2. x[1] \in Nat
  BY <1>1, LogAssumption
<1>3. x[2] \in Nat /\ x[2] # 0
  BY <1>1, BoundAssumption
<1>4. NoPosition[2] = 0
  BY DEF NoPosition
<1> QED
  BY <1>2, <1>3, <1>4

\* The records of the planned batch are messages of the log.
LEMMA PlannedRow ==
    ASSUME TypeInv, offsets # <<>>, NEW x \in Rows
    PROVE  /\ x \in Coordinates
           /\ x[1] \in Partition /\ x[2] \in 1..Len(kafka[x[1]])
           /\ At(x) \in Message
<1>1. x \in Coordinates /\ x[2] <= To(x[1])
  BY DEF Rows
<1>2. x[1] \in Partition /\ x[2] \in 1..MaxOffset
  BY <1>1 DEF Coordinates
<1>3. Len(offsets) \in 1..Len(offsets)
  BY DEF TypeInv, TypeOK
<1>4. To(x[1]) <= Len(kafka[x[1]])
  BY <1>2, <1>3 DEF TypeInv, LogInv, To
<1>5. offsets[Len(offsets)] \in [Partition -> 0..MaxOffset]
  BY <1>3 DEF TypeInv, TypeOK
<1>6. To(x[1]) \in 0..MaxOffset
  BY <1>2, <1>5 DEF To
<1>7. kafka[x[1]] \in Seq(Message)
  BY <1>2 DEF TypeInv, TypeOK
<1>8. x[2] \in 1..Len(kafka[x[1]])
  BY <1>1, <1>2, <1>4, <1>6, <1>7, BoundAssumption
<1> QED
  BY <1>1, <1>2, <1>7, <1>8 DEF At

LEMMA BatchIsPlanned == ASSUME TypeInv, stage \in Running PROVE offsets # <<>>
  BY DEF TypeInv, TypeOK, LogInv

LEMMA RowIsMessage ==
    ASSUME TypeInv, stage \in Running, NEW x \in Rows
    PROVE  /\ x \in Coordinates
           /\ x[1] \in Partition /\ x[2] \in 1..Len(kafka[x[1]])
           /\ At(x) \in Message
  BY PlannedRow, BatchIsPlanned

\* A valid row carries a change event.
LEMMA ValidIsChange ==
    ASSUME TypeInv, stage \in Running, NEW x \in Valid
    PROVE  /\ x \in Rows /\ x \in Coordinates
           /\ EventAt(x) \in Event /\ TsAt(x) \in 0..MaxLong
           /\ At(x).body \in Body /\ At(x).body.kind = "change"
           /\ At(x).replay_of \in Coordinates \cup {NoPosition}
<1>1. x \in Rows /\ Status(x, ctx.registry) = "valid"
  BY DEF Valid
<1>2. x \in Coordinates /\ At(x) \in Message
  BY <1>1, RowIsMessage
<1>3. At(x).body \in Body /\ At(x).replay_of \in Coordinates \cup {NoPosition}
  BY <1>2 DEF Message
<1>4. /\ At(x).body.kind \in {"change", "tombstone", "gap"}
      /\ At(x).body.event \in Event /\ At(x).body.ts \in 0..MaxLong
  BY <1>3, BodyAssumption
<1>5. At(x).body.kind = "change"
  BY <1>1, <1>4 DEF Status
<1> QED
  BY <1>1, <1>2, <1>3, <1>4, <1>5 DEF EventAt, TsAt

\* Of the coordinates that carry an event one comes first.
LEMMA FirstExists ==
    ASSUME NEW S \in SUBSET Coordinates, NEW e, NEW x0 \in S, EventAt(x0) = e
    PROVE  \E x \in S : /\ EventAt(x) = e
                        /\ \A y \in S : EventAt(y) = e => ~Earlier(y, x)
<1> DEFINE Mine == {x \in S : EventAt(x) = e}
           Parts == {x[1] : x \in Mine}
<1>1. x0 \in Mine
  OBVIOUS
<1>2. \A x \in Mine : x[1] \in Nat /\ x[2] \in Nat
  BY CoordinatesAreNumbers
<1>3. Parts \in SUBSET Nat /\ Parts # {}
  BY <1>1, <1>2
<1>4. PICK p \in Parts : \A q \in Parts : p <= q
  BY <1>3, LeastNatural
<1> DEFINE Offs == {x[2] : x \in {y \in Mine : y[1] = p}}
<1>5. Offs \in SUBSET Nat /\ Offs # {}
  BY <1>2, <1>4
<1>6. PICK o \in Offs : \A n \in Offs : o <= n
  BY <1>5, LeastNatural
<1>7. PICK x \in Mine : x[1] = p /\ x[2] = o
  BY <1>6
<1>8. \A y \in Mine : ~Earlier(y, x)
  <2> SUFFICES ASSUME NEW y \in Mine PROVE ~Earlier(y, x)
    OBVIOUS
  <2>1. p <= y[1] /\ y[1] \in Nat /\ y[2] \in Nat /\ p \in Nat /\ o \in Nat
    BY <1>2, <1>3, <1>4, <1>5, <1>6
  <2>2. y[1] = p => o <= y[2]
    BY <1>6
  <2> QED
    BY <1>7, <2>1, <2>2 DEF Earlier
<1> QED
  BY <1>8

\* Every event of the batch has a first valid row.
LEMMA FirstIsValid ==
    ASSUME TypeInv, stage \in Running, NEW e \in Unique
    PROVE  /\ First(e) \in Valid /\ EventAt(First(e)) = e
           /\ \A y \in Valid : EventAt(y) = e => ~Earlier(y, First(e))
<1>1. PICK x0 \in Valid : EventAt(x0) = e
  BY DEF Unique
<1>2. Valid \in SUBSET Coordinates
  BY ValidIsChange
<1>3. \E x \in Valid : /\ EventAt(x) = e
                       /\ \A y \in Valid : EventAt(y) = e => ~Earlier(y, x)
  BY <1>1, <1>2, FirstExists
<1> QED
  BY <1>3 DEF First

\* The watermark found in the batch records, or cached, is a time.
LEMMA WatermarkBeforeType ==
    ASSUME TypeInv, stage \in Running
    PROVE  WatermarkBefore \in Nat
<1> DEFINE earlier == {n \in 0..(Batch - 1) : <<ctx.epoch, n>> \in DOMAIN batches}
<1>1. Batch \in Nat /\ ctx.watermark \in Nat
  BY DEF TypeInv, TypeOK, LogInv, Batch
<1>2. ASSUME earlier # {} PROVE Max(earlier) \in earlier
  <2>1. earlier \in SUBSET Int /\ \A n \in earlier : n <= Batch - 1
    BY <1>1
  <2>2. Batch - 1 \in Int
    BY <1>1
  <2> HIDE DEF earlier
  <2> QED
    BY <1>2, <2>1, <2>2, MaxIsGreatest
<1>3. \A b \in DOMAIN batches : batches[b].watermark \in Nat
  BY DEF TypeInv, TypeOK, BatchRow
<1>4. RecordedWatermark \in Nat
  <2>1. CASE earlier = {}
    BY <2>1 DEF RecordedWatermark
  <2>2. CASE earlier # {}
    <3>1. <<ctx.epoch, Max(earlier)>> \in DOMAIN batches
      BY <1>2, <2>2
    <3>2. RecordedWatermark = batches[<<ctx.epoch, Max(earlier)>>].watermark
      BY <2>2 DEF RecordedWatermark
    <3> QED
      BY <1>3, <3>1, <3>2
  <2> QED
    BY <2>1, <2>2
<1> QED
  BY <1>1, <1>4 DEF WatermarkBefore

\* The watermark after a batch is a time, and not below the one before it.
LEMMA WatermarkAfterType ==
    ASSUME TypeInv, stage \in Running
    PROVE  /\ WatermarkAfter \in Nat /\ WatermarkBefore <= WatermarkAfter
           /\ \A x \in Valid : TsAt(x) - Lateness <= WatermarkAfter
<1> DEFINE marks == {WatermarkBefore} \cup {TsAt(x) - Lateness : x \in Valid}
<1>1. WatermarkBefore \in Nat
  BY WatermarkBeforeType
<1>2. \A x \in Valid : TsAt(x) \in 0..MaxLong
  BY ValidIsChange
<1>3. MaxLong \in Nat /\ Lateness \in Nat
  BY EventAssumption, BoundAssumption
<1>4. \A m \in marks : m \in Int /\ m <= MaxLong + WatermarkBefore
  <2>1. \A x \in Valid : /\ TsAt(x) - Lateness \in Int
                         /\ TsAt(x) - Lateness <= MaxLong + WatermarkBefore
    BY <1>1, <1>2, <1>3
  <2> QED
    BY <1>1, <1>3, <2>1
<1>5. MaxLong + WatermarkBefore \in Int /\ marks # {} /\ WatermarkBefore \in marks
  BY <1>1, <1>3
<1> HIDE DEF marks
<1>6. Max(marks) \in marks /\ \A n \in marks : n <= Max(marks)
  BY <1>4, <1>5, MaxIsGreatest
<1>7. WatermarkAfter = Max(marks)
  BY DEF WatermarkAfter, marks
<1>8. WatermarkAfter \in Int /\ WatermarkBefore <= WatermarkAfter
  BY <1>4, <1>5, <1>6, <1>7
<1>9. \A x \in Valid : TsAt(x) - Lateness <= WatermarkAfter
  <2>1. \A x \in Valid : TsAt(x) - Lateness \in marks
    BY DEF marks
  <2> QED
    BY <1>6, <1>7, <2>1
<1> QED
  BY <1>1, <1>8, <1>9

\* The plan gives each event of the batch an outcome.
LEMMA PlanType ==
    ASSUME TypeInv, stage \in Running
    PROVE  /\ DOMAIN Plan = Unique /\ Unique \subseteq Event
           /\ \A e \in Unique : Plan[e] \in PlanRow
<1>1. Unique \subseteq Event
  BY ValidIsChange DEF Unique
<1>2. ASSUME NEW e \in Unique PROVE Plan[e] \in PlanRow
  <2>1. First(e) \in Valid
    BY FirstIsValid
  <2>2. TsAt(First(e)) \in Nat /\ At(First(e)).replay_of \in Coordinates \cup {NoPosition}
    BY <2>1, ValidIsChange
  <2>3. OutcomeOf(e) \in Outcome
    BY DEF OutcomeOf, Outcome
  <2>4. (TsAt(First(e)) < WatermarkBefore) \in BOOLEAN
    OBVIOUS
  <2> QED
    BY <2>2, <2>3, <2>4 DEF Plan, PlanRow
<1> QED
  BY <1>1, <1>2 DEF Plan

\* MERGE INTO silver yields rows; each is kept or moved to a later change.
LEMMA MergedSilverType ==
    ASSUME TypeInv, stage \in Running, NEW t
    PROVE  /\ MergedSilver(t) \in [Key -> SilverRow]
           /\ \A k \in Key : \/ MergedSilver(t)[k] = silver[k]
                             \/ LET row == MergedSilver(t)[k]
                                IN  /\ row.event \in Updates(t, k)
                                    /\ row.prev = LsnShown(silver[k].event)
<1> SUFFICES ASSUME NEW k \in Key
             PROVE  LET row == MergedSilver(t)[k] IN
                    \/ row = silver[k] /\ row \in SilverRow
                    \/ /\ row.event \in Updates(t, k) /\ row \in SilverRow
                       /\ row.prev = LsnShown(silver[k].event)
  BY DEF MergedSilver
<1>1. CASE Updates(t, k) = {}
  BY <1>1 DEF MergedSilver, TypeInv, TypeOK
<1>2. CASE Updates(t, k) # {}
  <2> DEFINE u == CHOOSE e \in Updates(t, k) : TRUE
  <2>1. u \in Updates(t, k) /\ u \in Event
    BY <1>2 DEF Updates, Planned, TypeInv, TypeOK
  <2>2. LsnShown(silver[k].event) \in Nat \cup {NoLsn}
    BY EventAssumption DEF LsnShown, TypeInv, TypeOK, SilverRow
  <2>3. ctx.epoch \in Nat /\ Batch \in Nat
    BY DEF TypeInv, TypeOK, LogInv, Batch
  <2>4. MergedSilver(t)[k] = [event |-> u, prev |-> LsnShown(silver[k].event),
                              epoch |-> ctx.epoch, batch |-> Batch]
    BY <1>2 DEF MergedSilver
  <2> HIDE DEF u
  <2> QED
    BY <2>1, <2>2, <2>3, <2>4 DEF SilverRow
<1> QED
  BY <1>1, <1>2

\* The appended rows are bronze rows.
LEMMA BronzeRowsType ==
    ASSUME TypeInv, stage \in Running
    PROVE  BronzeRows \subseteq BronzeRow
<1>1. ctx.epoch \in Nat /\ Batch \in Nat /\ snapshots + 1 \in Nat
  BY DEF TypeInv, TypeOK, LogInv, Batch
<1>2. \A e \in Fresh : e \in Event /\ planned[e] \in PlanRow
  BY DEF TypeInv, TypeOK, Fresh
<1> QED
  BY <1>1, <1>2 DEF BronzeRows, BronzeRow, PlanRow

\* Every row of the DLQ input has an identity, which is its own coordinates
\* unless it is a replay.
LEMMA DlqInputType ==
    ASSUME TypeInv, stage \in Running, NEW x \in DlqInput
    PROVE  /\ x \in Rows /\ DlqId(x) \in Coordinates
           /\ ReplayPosition(x) \in Nat \X Nat
           /\ ~IsReplay(x) => DlqId(x) = x
<1>1. x \in Rows
  BY DEF DlqInput, Rejected, Valid
<1>2. x \in Coordinates /\ x[1] \in Partition /\ At(x) \in Message
  BY <1>1, RowIsMessage
<1>3. At(x).replay_of \in Coordinates \cup {NoPosition}
  BY <1>2 DEF Message
<1>4. ReplayPosition(x) \in Nat \X Nat
  BY <1>2, LogAssumption, CoordinatesAreNumbers DEF ReplayPosition
<1> QED
  BY <1>1, <1>2, <1>3, <1>4 DEF DlqId, IsReplay

\* The DLQ merge keeps every row and inserts rejected records of the batch.
LEMMA MergedDlqType ==
    ASSUME TypeInv, stage \in Running, NEW src \in DlqSources
    PROVE  /\ DOMAIN dlq \subseteq DOMAIN MergedDlq(src)
           /\ DOMAIN MergedDlq(src) \subseteq Coordinates
           /\ \A d \in DOMAIN MergedDlq(src) : MergedDlq(src)[d] \in DlqRow
           /\ \A d \in DOMAIN MergedDlq(src) : d \in DOMAIN dlq \/ d \in Rows
<1> DEFINE inserted == {d \in DOMAIN src : ~IsReplay(src[d])}
<1>1. src \in [DlqIds -> DlqInput] /\ \A d \in DlqIds : DlqId(src[d]) = d
  BY DEF DlqSources
<1>2. \A d \in inserted : d \in Rows /\ d \in Coordinates
  BY <1>1, DlqInputType
<1>3. DOMAIN MergedDlq(src) = DOMAIN dlq \cup inserted
  BY DEF MergedDlq
<1>4. ASSUME NEW d \in DOMAIN MergedDlq(src) PROVE MergedDlq(src)[d] \in DlqRow
  <2>1. CASE d \notin DOMAIN dlq
    <3>1. MergedDlq(src)[d] = [status |-> "open", attempts |-> 0, last |-> NoPosition]
      BY <1>3, <2>1 DEF MergedDlq
    <3> QED
      BY <3>1 DEF DlqRow, NoPosition
  <2>2. CASE d \in DOMAIN dlq /\ Answers(d, src)
    <3>1. d \in DOMAIN src /\ src[d] \in DlqInput
      BY <1>1, <2>2 DEF Answers
    <3>2. ReplayPosition(src[d]) \in Nat \X Nat
      BY <3>1, DlqInputType
    <3>3. dlq[d].attempts + 1 \in Nat
      BY <2>2 DEF TypeInv, TypeOK, DlqRow
    <3>4. MergedDlq(src)[d] =
             [status   |-> StatusAfter(src[d]),
              attempts |-> dlq[d].attempts + 1,
              last     |-> ReplayPosition(src[d])]
      BY <1>3, <2>2 DEF MergedDlq
    <3>5. StatusAfter(src[d]) \in {"open", "replayed"}
      BY DEF StatusAfter
    <3> QED
      BY <3>2, <3>3, <3>4, <3>5 DEF DlqRow
  <2>3. CASE d \in DOMAIN dlq /\ ~Answers(d, src)
    BY <1>3, <2>3 DEF MergedDlq, TypeInv, TypeOK
  <2> QED
    BY <2>1, <2>2, <2>3
<1>5. DOMAIN dlq \subseteq Coordinates
  BY DEF TypeInv, TypeOK
<1> HIDE DEF inserted
<1> QED
  BY <1>2, <1>3, <1>4, <1>5

\* The batch record merge keeps every record and writes that of the batch.
LEMMA MergedBatchesType ==
    ASSUME TypeInv, stage \in Running
    PROVE  /\ DOMAIN MergedBatches \subseteq Nat \X Nat
           /\ \A b \in DOMAIN MergedBatches : MergedBatches[b] \in BatchRow
<1> DEFINE seen == IF BatchId \in DOMAIN batches THEN batches[BatchId].attempts ELSE 0
           row  == [attempts |-> seen + 1, watermark |-> newMark, rows |-> Rows,
                    rejected |-> Rejected, outcomes |-> [o \in Outcome |-> Planned(o)]]
<1>1. BatchId \in Nat \X Nat
  BY DEF TypeInv, TypeOK, LogInv, BatchId, Batch
<1>2. row \in BatchRow
  <2>1. seen + 1 \in Nat /\ newMark \in Nat
    BY DEF TypeInv, TypeOK, BatchRow
  <2>2. Rows \in SUBSET Coordinates /\ Rejected \in SUBSET Coordinates
    BY DEF Rows, Rejected
  <2>3. [o \in Outcome |-> Planned(o)] \in [Outcome -> SUBSET Event]
    BY DEF Planned, TypeInv, TypeOK
  <2> QED
    BY <2>1, <2>2, <2>3 DEF BatchRow
<1>3. MergedBatches = [b \in DOMAIN batches \cup {BatchId} |->
                         IF b = BatchId THEN row ELSE batches[b]]
  BY DEF MergedBatches
<1> HIDE DEF row
<1> QED
  BY <1>1, <1>2, <1>3 DEF TypeInv, TypeOK

-----------------------------------------------------------------------------
(* Each action preserves the type invariant                                *)

LEMMA InitType == Init => TypeInv
<1> SUFFICES ASSUME Init PROVE TypeInv
  OBVIOUS
<1>1. TypeOK
  <2>1. silver \in [Key -> SilverRow]
    BY DEF Init, NoRow, SilverRow, NoEpoch, NoLsn
  <2>2. kafka \in [Partition -> Seq(Message)] /\ \A p \in Partition : Len(kafka[p]) = 0
    BY DEF Init
  <2>3. ctx \in [registry : 0..Versions, epoch : Nat, watermark : Nat,
                 watermarkBatch : Int]
    BY BoundAssumption DEF Init, NoContext, NoEpoch, NoBatch
  <2>4. offsets \in Seq([Partition -> 0..MaxOffset]) /\ Len(offsets) = 0
    BY DEF Init
  <2>5. /\ bronze = {} /\ DOMAIN dlq = {} /\ DOMAIN batches = {} /\ DOMAIN planned = {}
    BY DEF Init, NoPlan
  <2>6. /\ contracts \in 1..Versions /\ epochFile \in Nat /\ metadata \in BOOLEAN
        /\ commits = 0 /\ snapshots \in Nat /\ stage \in Stage
        /\ newMark \in Nat /\ table \in 1..Tables /\ tries \in 1..MaxTries
        /\ epochs \in Nat /\ crashes \in 0..(MaxCrashes + 1)
    <3>1. contracts \in 1..Versions /\ crashes \in 0..(MaxCrashes + 1) /\ tries \in 1..MaxTries
      BY BoundAssumption DEF Init
    <3>2. table \in 1..Tables
      BY TableAssumption DEF Init
    <3>3. stage \in Stage
      BY DEF Init, Stage
    <3> QED
      BY <3>1, <3>2, <3>3 DEF Init, NoEpoch
  <2>7. \A p \in Partition : Len(kafka[p]) <= MaxOffset
    BY <2>2, BoundAssumption
  <2> QED
    BY <2>1, <2>2, <2>3, <2>4, <2>5, <2>6, <2>7 DEF TypeOK
<1>2. LogInv
  BY DEF Init, LogInv, Running
<1> QED
  BY <1>1, <1>2 DEF TypeInv

\* A message is appended to a partition that is not full.
LEMMA AppendToType ==
    ASSUME TypeInv, NEW p \in Partition, NEW m \in Message, AppendTo(p, m)
    PROVE  /\ kafka' \in [Partition -> Seq(Message)]
           /\ \A q \in Partition : /\ Len(kafka'[q]) <= MaxOffset
                                  /\ Len(kafka[q]) <= Len(kafka'[q])
           /\ \A q \in Partition : \A o \in 1..Len(kafka[q]) : kafka'[q][o] = kafka[q][o]
<1>1. kafka \in [Partition -> Seq(Message)] /\ MaxOffset \in Nat
  BY BoundAssumption DEF TypeInv, TypeOK
<1>2. /\ Append(kafka[p], m) \in Seq(Message)
      /\ Len(Append(kafka[p], m)) = Len(kafka[p]) + 1
      /\ \A o \in 1..Len(kafka[p]) : Append(kafka[p], m)[o] = kafka[p][o]
  BY <1>1, AppendProperties
<1>3. kafka' = [kafka EXCEPT ![p] = Append(kafka[p], m)] /\ Len(kafka[p]) < MaxOffset
  BY DEF AppendTo
<1>4. \A q \in Partition : Len(kafka[q]) \in Nat /\ Len(kafka[q]) <= MaxOffset
  BY <1>1 DEF TypeInv, TypeOK
<1>5. kafka' \in [Partition -> Seq(Message)]
  BY <1>1, <1>2, <1>3
<1>6. \A q \in Partition : kafka'[q] = IF q = p THEN Append(kafka[p], m) ELSE kafka[q]
  BY <1>1, <1>3
<1> QED
  BY <1>1, <1>2, <1>3, <1>4, <1>5, <1>6

\* Produce and Replay: only the log changes, and it only grows.
LEMMA LogGrowsType ==
    ASSUME TypeInv, NEW p \in Partition, NEW m \in Message, AppendTo(p, m),
           UNCHANGED <<contracts, checkpoint, lake, process, epochs, crashes>>
    PROVE  TypeInv'
<1>1. TypeOK'
  BY AppendToType
  DEF TypeInv, TypeOK, checkpoint, lake, process, batch
<1>2. LogInv'
  <2>1. \A q \in Partition : Len(kafka[q]) \in Nat /\ Len(kafka'[q]) \in Nat
    <3>1. /\ kafka \in [Partition -> Seq(Message)]
          /\ kafka' \in [Partition -> Seq(Message)]
      BY AppendToType DEF TypeInv, TypeOK
    <3> QED
      BY <3>1, LenProperties
  <2>2. \A i \in 1..Len(offsets), q \in Partition : offsets[i][q] \in Nat
    BY BoundAssumption DEF TypeInv, TypeOK
  <2>3. \A i \in 1..Len(offsets), q \in Partition : offsets[i][q] <= Len(kafka'[q])
    BY <2>1, <2>2, AppendToType DEF TypeInv, LogInv
  <2>4. \A d \in DOMAIN dlq : d[1] \in Partition /\ d[2] \in Nat
    BY CoordinatesAreNumbers DEF TypeInv, TypeOK, Coordinates
  <2>5. \A d \in DOMAIN dlq : d[2] <= Len(kafka'[d[1]])
    BY <2>1, <2>4, AppendToType DEF TypeInv, LogInv
  <2> QED
    BY <2>3, <2>5 DEF TypeInv, LogInv, checkpoint, lake, process
<1> QED
  BY <1>1, <1>2 DEF TypeInv

LEMMA ProduceType ==
    ASSUME TypeInv, NEW p \in Partition, NEW b \in Body, Produce(p, b)
    PROVE  TypeInv'
<1>1. [body |-> b, replay_of |-> NoPosition] \in Message
  BY DEF Message
<1> QED
  BY <1>1, LogGrowsType DEF Produce

LEMMA ReplayType ==
    ASSUME TypeInv, NEW p \in Partition, NEW d \in DOMAIN dlq, Replay(p, d)
    PROVE  TypeInv'
<1>1. d \in Coordinates /\ d[1] \in Partition /\ d[2] \in 1..Len(kafka[d[1]])
  <2>1. d \in Coordinates /\ d[2] <= Len(kafka[d[1]])
    BY DEF TypeInv, TypeOK, LogInv
  <2>2. d[1] \in Partition /\ d[2] \in 1..MaxOffset
    BY <2>1 DEF Coordinates
  <2>3. Len(kafka[d[1]]) \in Nat
    BY <2>2 DEF TypeInv, TypeOK
  <2> QED
    BY <2>1, <2>2, <2>3, BoundAssumption
<1>2. At(d) \in Message
  BY <1>1 DEF TypeInv, TypeOK, At
<1>3. [body |-> At(d).body, replay_of |-> d] \in Message
  BY <1>1, <1>2 DEF Message
<1> QED
  BY <1>3, LogGrowsType DEF Replay

LEMMA DeployType == ASSUME TypeInv, Deploy PROVE TypeInv'
<1>1. contracts' \in 1..Versions
  BY BoundAssumption DEF TypeInv, TypeOK, Deploy
<1> QED
  BY <1>1 DEF TypeInv, TypeOK, LogInv, Deploy, checkpoint, lake, process, batch

LEMMA WipeCheckpointType == ASSUME TypeInv, WipeCheckpoint PROVE TypeInv'
<1>1. /\ epochFile' \in Nat /\ metadata' \in BOOLEAN /\ commits' = 0
      /\ offsets' \in Seq([Partition -> 0..MaxOffset]) /\ Len(offsets') = 0
      /\ stage \notin Running
  <2>1. epochFile \in Nat /\ NoEpoch \in Nat
    BY DEF TypeInv, TypeOK, NoEpoch
  <2>2. /\ epochFile' \in {epochFile, NoEpoch} /\ metadata' = FALSE
        /\ commits' = 0 /\ offsets' = <<>> /\ stage = "down"
    BY DEF WipeCheckpoint
  <2>3. <<>> \in Seq([Partition -> 0..MaxOffset]) /\ Len(<<>>) = 0
    OBVIOUS
  <2>4. epochFile' \in Nat
    BY <2>1, <2>2
  <2> QED
    BY <2>2, <2>3, <2>4 DEF Running
<1> QED
  BY <1>1
  DEF TypeInv, TypeOK, LogInv, WipeCheckpoint, external, lake, process, batch

LEMMA EnsureEpochType == ASSUME TypeInv, EnsureEpoch PROVE TypeInv'
<1>1. /\ epochs' \in Nat /\ epochFile' \in Nat
  BY DEF TypeInv, TypeOK, EnsureEpoch
<1>2. ctx' \in [registry : 0..Versions, epoch : Nat, watermark : Nat,
               watermarkBatch : Int]
  <2>1. contracts \in 0..Versions
    BY BoundAssumption DEF TypeInv, TypeOK
  <2>2. ctx' = [NoContext EXCEPT !.registry = contracts, !.epoch = epochFile']
    BY DEF EnsureEpoch
  <2>3. ctx' = [registry |-> contracts, epoch |-> epochFile', watermark |-> 0,
                watermarkBatch |-> NoBatch]
    BY <2>2 DEF NoContext
  <2> QED
    BY <1>1, <2>1, <2>3 DEF NoBatch
<1>3. stage' \in Stage /\ stage' \notin Running
  BY DEF EnsureEpoch, Stage, Running
<1> QED
  BY <1>1, <1>2, <1>3 DEF TypeInv, TypeOK, LogInv, EnsureEpoch, external, lake, batch

LEMMA StartQueryType == ASSUME TypeInv, StartQuery PROVE TypeInv'
<1>1. stage' \in Stage /\ stage' \notin Running /\ metadata' \in BOOLEAN
  BY DEF StartQuery, Stage, Running
<1> QED
  BY <1>1 DEF TypeInv, TypeOK, LogInv, StartQuery, external, lake, batch

LEMMA TriggerType == ASSUME TypeInv, Trigger PROVE TypeInv'
<1>1. PICK to \in [Partition -> 0..MaxOffset] :
        /\ \A p \in Partition : to[p] <= Len(kafka[p])
        /\ offsets' = Append(offsets, to)
  BY DEF Trigger
<1>2. /\ offsets' \in Seq([Partition -> 0..MaxOffset])
      /\ Len(offsets') = Len(offsets) + 1
      /\ \A i \in 1..Len(offsets) : offsets'[i] = offsets[i]
      /\ offsets'[Len(offsets) + 1] = to
  BY <1>1, AppendProperties DEF TypeInv, TypeOK
<1>3. Len(offsets) = commits /\ commits' = commits /\ commits \in Nat
  BY DEF TypeInv, TypeOK, Trigger
<1>4. \A i \in 1..Len(offsets'), p \in Partition : offsets'[i][p] <= Len(kafka[p])
  <2> SUFFICES ASSUME NEW i \in 1..Len(offsets'), NEW p \in Partition
               PROVE  offsets'[i][p] <= Len(kafka[p])
    OBVIOUS
  <2>1. CASE i \in 1..Len(offsets)
    BY <1>2, <2>1 DEF TypeInv, LogInv
  <2>2. CASE i = Len(offsets) + 1
    BY <1>1, <1>2, <2>2
  <2> QED
    BY <1>2, <1>3, <2>1, <2>2
<1>5. stage' \in Stage
  BY DEF Trigger, Stage
<1> QED
  BY <1>2, <1>3, <1>4, <1>5
  DEF TypeInv, TypeOK, LogInv, Trigger, external, lake, batch

LEMMA ResumeType == ASSUME TypeInv, Resume PROVE TypeInv'
<1>1. stage' \in Stage /\ Len(offsets) = commits + 1
  BY DEF Resume, Stage
<1> QED
  BY <1>1 DEF TypeInv, TypeOK, LogInv, Resume, external, checkpoint, lake, batch

LEMMA CommitBatchType == ASSUME TypeInv, CommitBatch PROVE TypeInv'
<1>1. stage' \in Stage /\ stage' \notin Running /\ commits' = Len(offsets)
  BY DEF CommitBatch, Stage, Running
<1>2. DOMAIN planned' = {} /\ newMark' \in Nat
  BY DEF CommitBatch, NoPlan
<1>3. Len(offsets) \in Nat
  BY DEF TypeInv, TypeOK
<1> QED
  BY <1>1, <1>2, <1>3 DEF TypeInv, TypeOK, LogInv, CommitBatch, external, lake

LEMMA CrashType == ASSUME TypeInv, Crash PROVE TypeInv'
<1>1. stage' \in Stage /\ stage' \notin Running
  BY DEF Crash, Stage, Running
<1>2. ctx' \in [registry : 0..Versions, epoch : Nat, watermark : Nat,
               watermarkBatch : Int]
  BY BoundAssumption DEF Crash, NoContext, NoEpoch, NoBatch
<1>3. /\ DOMAIN planned' = {} /\ newMark' \in Nat
      /\ table' \in 1..Tables /\ tries' \in 1..MaxTries /\ crashes' \in 0..(MaxCrashes + 1)
  BY BoundAssumption, TableAssumption DEF Crash, NoPlan, TypeInv, TypeOK
<1> QED
  BY <1>1, <1>2, <1>3 DEF TypeInv, TypeOK, LogInv, Crash, external, checkpoint, lake

LEMMA BeginBatchType == ASSUME TypeInv, BeginBatch PROVE TypeInv'
<1>1. stage' \in Stage /\ stage \in Running
  BY DEF BeginBatch, Stage, Running
<1>2. ctx' \in [registry : 0..Versions, epoch : Nat, watermark : Nat,
               watermarkBatch : Int]
  <2>1. contracts \in 0..Versions
    BY BoundAssumption DEF TypeInv, TypeOK
  <2>2. ctx \in [registry : 0..Versions, epoch : Nat, watermark : Nat,
                watermarkBatch : Int]
    BY DEF TypeInv, TypeOK
  <2> QED
    BY <2>1, <2>2 DEF BeginBatch
<1> QED
  BY <1>1, <1>2
  DEF TypeInv, TypeOK, LogInv, BeginBatch, external, checkpoint, lake, batch

LEMMA PlanBatchType == ASSUME TypeInv, PlanBatch PROVE TypeInv'
<1>1. stage' \in Stage /\ stage \in Running
  BY DEF PlanBatch, Stage, Running
<1>2. DOMAIN planned' \subseteq Event /\ \A e \in DOMAIN planned' : planned'[e] \in PlanRow
  BY <1>1, PlanType DEF PlanBatch
<1>3. newMark' \in Nat
  BY <1>1, WatermarkAfterType DEF PlanBatch
<1>4. table' \in 1..Tables
  BY TableAssumption DEF PlanBatch
<1> QED
  BY <1>1, <1>2, <1>3, <1>4
  DEF TypeInv, TypeOK, LogInv, PlanBatch, external, checkpoint, lake

LEMMA RetryType ==
    ASSUME TypeInv, Done \/ Retried
    PROVE  tries' \in 1..MaxTries
BY BoundAssumption DEF TypeInv, TypeOK, Done, Retried

LEMMA MergeSilverType == ASSUME TypeInv, MergeSilver PROVE TypeInv'
<1>1. stage \in Running /\ stage' \in Stage
  BY DEF MergeSilver, Running, Stage
<1>2. silver' = silver \/ silver' = MergedSilver(table)
  BY DEF MergeSilver
<1>3. silver' \in [Key -> SilverRow]
  BY <1>1, <1>2, MergedSilverType DEF TypeInv, TypeOK
<1>4. tries' \in 1..MaxTries
  BY RetryType DEF MergeSilver
<1>5. table' \in 1..Tables
  BY TableAssumption DEF MergeSilver, TypeInv, TypeOK
<1> QED
  BY <1>1, <1>3, <1>4, <1>5
  DEF TypeInv, TypeOK, LogInv, MergeSilver, external, checkpoint

LEMMA AppendBronzeType == ASSUME TypeInv, AppendBronze PROVE TypeInv'
<1>1. stage \in Running /\ stage' \in Stage
  BY DEF AppendBronze, Running, Stage
<1>2. AppendFresh \/ UNCHANGED <<bronze, snapshots>>
  BY DEF AppendBronze
<1>3. bronze' \subseteq BronzeRow /\ snapshots' \in Nat
  <2>1. bronze \subseteq BronzeRow /\ snapshots \in Nat /\ BronzeRows \subseteq BronzeRow
    BY <1>1, BronzeRowsType DEF TypeInv, TypeOK
  <2>2. CASE AppendFresh
    BY <2>1, <2>2 DEF AppendFresh
  <2>3. CASE UNCHANGED <<bronze, snapshots>>
    BY <2>1, <2>3
  <2> QED
    BY <1>2, <2>2, <2>3
<1>4. tries' \in 1..MaxTries
  BY RetryType DEF AppendBronze
<1> QED
  BY <1>1, <1>3, <1>4
  DEF TypeInv, TypeOK, LogInv, AppendBronze, external, checkpoint

LEMMA MergeDlqType == ASSUME TypeInv, MergeDlq PROVE TypeInv'
<1>1. stage \in Running /\ stage' \in Stage
  BY DEF MergeDlq, Running, Stage
<1>2. dlq' = dlq \/ \E src \in DlqSources : dlq' = MergedDlq(src)
  BY DEF MergeDlq
<1>3. /\ DOMAIN dlq' \subseteq Coordinates
      /\ \A d \in DOMAIN dlq' : dlq'[d] \in DlqRow
      /\ \A d \in DOMAIN dlq' : d \in DOMAIN dlq \/ d \in Rows
  BY <1>1, <1>2, MergedDlqType DEF TypeInv, TypeOK
<1>4. \A d \in Rows : d[1] \in Partition /\ d[2] \in 1..Len(kafka[d[1]])
  BY <1>1, RowIsMessage
<1>5. \A d \in DOMAIN dlq' : d[2] <= Len(kafka[d[1]])
  <2> SUFFICES ASSUME NEW d \in DOMAIN dlq' PROVE d[2] <= Len(kafka[d[1]])
    OBVIOUS
  <2>1. CASE d \in DOMAIN dlq
    BY <2>1 DEF TypeInv, LogInv
  <2>2. CASE d \in Rows
    <3>1. Len(kafka[d[1]]) \in Nat
      BY <1>4, <2>2, LenProperties DEF TypeInv, TypeOK
    <3> QED
      BY <1>4, <2>2, <3>1
  <2> QED
    BY <1>3, <2>1, <2>2
<1>6. tries' \in 1..MaxTries
  BY RetryType DEF MergeDlq
<1> QED
  BY <1>1, <1>3, <1>5, <1>6
  DEF TypeInv, TypeOK, LogInv, MergeDlq, external, checkpoint

LEMMA MergeRecordType == ASSUME TypeInv, MergeRecord PROVE TypeInv'
<1>1. stage \in Running /\ stage' \in Stage
  BY DEF MergeRecord, Running, Stage
<1>2. batches' = batches \/ batches' = MergedBatches
  BY DEF MergeRecord
<1>3. /\ DOMAIN batches' \subseteq Nat \X Nat
      /\ \A b \in DOMAIN batches' : batches'[b] \in BatchRow
  BY <1>1, <1>2, MergedBatchesType DEF TypeInv, TypeOK
<1>4. ctx' \in [registry : 0..Versions, epoch : Nat, watermark : Nat,
               watermarkBatch : Int]
  <2>1. ctx \in [registry : 0..Versions, epoch : Nat, watermark : Nat,
                watermarkBatch : Int]
    BY DEF TypeInv, TypeOK
  <2>2. newMark \in Nat /\ Batch \in Int
    BY DEF TypeInv, TypeOK, Batch
  <2> QED
    BY <2>1, <2>2 DEF MergeRecord
<1>5. tries' \in 1..MaxTries
  BY RetryType DEF MergeRecord
<1> QED
  BY <1>1, <1>3, <1>4, <1>5
  DEF TypeInv, TypeOK, LogInv, MergeRecord, external, checkpoint

LEMMA TypeStep == TypeInv /\ [Next]_vars => TypeInv'
<1> SUFFICES ASSUME TypeInv, [Next]_vars PROVE TypeInv'
  OBVIOUS
<1>1. CASE Environment
  <2>1. ASSUME NEW p \in Partition \ Replays, NEW b \in Body, Produce(p, b)
        PROVE  TypeInv'
    BY <2>1, ProduceType
  <2>2. ASSUME NEW p \in Replays, NEW d \in DOMAIN dlq, Replay(p, d)
        PROVE  TypeInv'
    BY <2>2, ReplayType, LogAssumption
  <2> QED
    BY <1>1, <2>1, <2>2, DeployType, WipeCheckpointType DEF Environment
<1>2. CASE StartUp
  BY <1>2, EnsureEpochType, StartQueryType, TriggerType, ResumeType DEF StartUp
<1>3. CASE ProcessBatch
  BY <1>3, BeginBatchType, PlanBatchType, MergeSilverType, AppendBronzeType,
     MergeDlqType, MergeRecordType, CommitBatchType DEF ProcessBatch
<1>4. CASE Crash
  BY <1>4, CrashType
<1>5. CASE UNCHANGED vars
  BY <1>5 DEF TypeInv, TypeOK, LogInv, vars, external, checkpoint, lake, process, batch
<1> QED
  BY <1>1, <1>2, <1>3, <1>4, <1>5 DEF Next, Job

\* The variables of the job, its checkpoint and its tables always have the
\* types the code gives them, and nothing names a record not yet in Kafka.
THEOREM TypeInvariant == Spec => []TypeInv
<1>1. Init => TypeInv
  BY InitType
<1>2. TypeInv /\ [Next]_vars => TypeInv'
  BY TypeStep
<1> QED
  BY <1>1, <1>2, PTL DEF Spec

\* The variables of the job, its checkpoint and its tables have the types the
\* code gives them (tables.py, SinkContext).
THEOREM TypeCorrect == Spec => []TypeOK
<1>1. TypeInv => TypeOK
  BY DEF TypeInv
<1> QED
  BY <1>1, TypeInvariant, PTL

-----------------------------------------------------------------------------
(* What the order of the writes and the LSN guard of the MERGE guarantee:  *)
(* silver is never behind bronze, it never goes back, and the two tables   *)
(* implement the promise of module Lakehouse.                              *)

\* Silver shows the event, or a later change of the same row.
Shows(e) == Lsn[e] <= LsnShown(silver[KeyOf[e]].event)

\* The LSN a row remembers is not above the one it shows, so the baseline of a
\* batch that is run again is not above silver.
PrevBelow == \A k \in Key : silver[k].prev <= LsnShown(silver[k].event)

\* While silver and bronze are written, whatever the plan will append is shown
\* by silver already or will be by the end of the loop over the tables.
PlanInv ==
    stage \in {"silver", "bronze"} =>
        /\ \A e, f \in Planned("applied") : KeyOf[e] = KeyOf[f] => Lsn[e] = Lsn[f]
        /\ \A e \in Planned("superseded") :
              \E f \in Planned("applied") \cup Planned("stale") :
                 KeyOf[e] = KeyOf[f] /\ Lsn[e] <= Lsn[f]
        /\ \A e \in Planned("stale") : Shows(e)
        /\ \A e \in Planned("applied") :
              stage = "bronze" \/ TableOf[KeyOf[e]] < table => Shows(e)

CoverInv == PrevBelow /\ PlanInv /\ SilverCoversBronze

-----------------------------------------------------------------------------
(* The MERGE                                                               *)

LEMMA LsnShownType ==
    ASSUME NEW e \in Event \cup {NoEvent}
    PROVE  LsnShown(e) \in Int /\ NoLsn <= LsnShown(e)
BY EventAssumption DEF LsnShown, NoLsn

LEMMA SilverEvents ==
    ASSUME TypeInv, NEW k \in Key
    PROVE  /\ silver[k].event \in Event \cup {NoEvent}
           /\ LsnShown(silver[k].event) \in Int /\ silver[k].prev \in Int
<1>1. silver[k] \in SilverRow
  BY DEF TypeInv, TypeOK
<1> QED
  BY <1>1, LsnShownType DEF SilverRow, NoLsn

\* The MERGE only moves a row to a later change of its key, whose predecessor
\* it remembers.
LEMMA MergeMovesForward ==
    ASSUME TypeInv, stage \in Running, NEW t, NEW k \in Key
    PROVE  LET row == MergedSilver(t)[k] IN
           \/ row = silver[k]
           \/ /\ row.event \in Event /\ KeyOf[row.event] = k
              /\ LsnShown(silver[k].event) < LsnShown(row.event)
              /\ row.prev = LsnShown(silver[k].event)
<1> DEFINE row == MergedSilver(t)[k]
<1>1. \/ row = silver[k]
      \/ row.event \in Updates(t, k) /\ row.prev = LsnShown(silver[k].event)
  BY MergedSilverType
<1>2. ASSUME row.event \in Updates(t, k)
      PROVE  /\ row.event \in Event /\ KeyOf[row.event] = k
             /\ LsnShown(silver[k].event) < LsnShown(row.event)
  <2>1. /\ row.event \in Event /\ KeyOf[row.event] = k
        /\ Lsn[row.event] > LsnShown(silver[k].event)
    BY <1>2 DEF Updates, Planned, TypeInv, TypeOK
  <2>2. LsnShown(row.event) = Lsn[row.event] /\ Lsn[row.event] \in Int
    BY <2>1, EventAssumption DEF LsnShown
  <2> QED
    BY <2>1, <2>2, SilverEvents
<1> QED
  BY <1>1, <1>2

LEMMA MergeKeepsShown ==
    ASSUME TypeInv, stage \in Running, NEW t, NEW k \in Key
    PROVE  /\ LsnShown(silver[k].event) <= LsnShown(MergedSilver(t)[k].event)
           /\ LsnShown(MergedSilver(t)[k].event) \in Int
<1>1. LsnShown(silver[k].event) \in Int
  BY SilverEvents
<1>2. MergedSilver(t)[k].event \in Event \cup {NoEvent}
  BY SilverEvents, MergeMovesForward
<1> QED
  BY <1>1, <1>2, LsnShownType, MergeMovesForward

\* After the MERGE of its table, silver shows every applied event.
LEMMA MergeShowsApplied ==
    ASSUME TypeInv, PlanInv, stage = "silver",
           NEW e \in Planned("applied")
    PROVE  LET t == TableOf[KeyOf[e]]
           IN  Lsn[e] <= LsnShown(MergedSilver(t)[KeyOf[e]].event)
<1> DEFINE t == TableOf[KeyOf[e]]
           k == KeyOf[e]
<1>1. stage \in Running /\ e \in Event /\ k \in Key /\ Lsn[e] \in Int
  BY EventAssumption DEF Running, Planned, TypeInv, TypeOK
<1>2. CASE Updates(t, k) = {}
  <2>1. MergedSilver(t)[k] = silver[k]
    BY <1>1, <1>2 DEF MergedSilver
  <2>2. ~(Lsn[e] > LsnShown(silver[k].event))
    BY <1>2 DEF Updates
  <2> QED
    BY <1>1, <2>1, <2>2, SilverEvents
<1>3. CASE Updates(t, k) # {}
  <2> DEFINE u == MergedSilver(t)[k].event
  <2>1. u \in Updates(t, k)
    BY <1>1, <1>3 DEF MergedSilver
  <2>2. u \in Planned("applied") /\ KeyOf[u] = k /\ u \in Event
    BY <2>1 DEF Updates, Planned, TypeInv, TypeOK
  <2>3. Lsn[u] = Lsn[e] /\ LsnShown(u) = Lsn[u]
    BY <2>2, EventAssumption DEF PlanInv, LsnShown
  <2> QED
    BY <1>1, <2>3
<1> QED
  BY <1>2, <1>3

-----------------------------------------------------------------------------
(* The plan                                                                *)

\* Among the candidates of a row there is one with the greatest LSN.
LEMMA LatestExists ==
    ASSUME TypeInv, stage \in Running, NEW e \in Candidates
    PROVE  \E f \in Candidates : /\ KeyOf[f] = KeyOf[e] /\ Lsn[e] <= Lsn[f]
                                 /\ IsLatest(f)
<1> DEFINE Rivals == {f \in Candidates : KeyOf[f] = KeyOf[e]}
           lsns   == {Lsn[f] : f \in Rivals}
<1>1. Candidates \subseteq Event
  BY PlanType DEF Candidates
<1>2. MaxLong \in Int /\ \A f \in Event : Lsn[f] \in Int /\ Lsn[f] <= MaxLong
  BY EventAssumption
<1>3. lsns \in SUBSET Int /\ lsns # {} /\ \A n \in lsns : n <= MaxLong
  BY <1>1, <1>2
<1> HIDE DEF lsns
<1>4. Max(lsns) \in lsns /\ \A n \in lsns : n <= Max(lsns)
  BY <1>2, <1>3, MaxIsGreatest
<1> USE DEF lsns
<1>5. PICK f \in Rivals : Lsn[f] = Max(lsns)
  BY <1>4
<1>6. \A g \in Rivals : Lsn[g] <= Lsn[f]
  BY <1>4, <1>5
<1>7. IsLatest(f)
  BY <1>5, <1>6 DEF IsLatest
<1> QED
  BY <1>5, <1>6, <1>7

\* The baseline of a row is not above what silver shows.
LEMMA BaselineBelowShown ==
    ASSUME TypeInv, PrevBelow, NEW k \in Key
    PROVE  Baseline(k) \in Int /\ Baseline(k) <= LsnShown(silver[k].event)
BY SilverEvents DEF Baseline, PrevBelow

\* What planning establishes about silver before anything is written.
LEMMA PlanIsSound ==
    ASSUME TypeInv, PrevBelow, PlanBatch, stage' = "silver"
    PROVE  PlanInv'
<1> DEFINE Out(o) == {e \in Unique : OutcomeOf(e) = o}
<1>1. stage \in Running /\ planned' = Plan /\ UNCHANGED silver
  BY DEF PlanBatch, Running, lake
<1>2. Unique \subseteq Event /\ DOMAIN Plan = Unique
  BY <1>1, PlanType
<1>3. \A o : Planned(o)' = Out(o)
  <2>1. \A e \in Unique : Plan[e].outcome = OutcomeOf(e)
    BY DEF Plan
  <2> QED
    BY <1>1, <1>2, <2>1 DEF Planned
<1>4. \A e \in Unique : Lsn[e] \in Int /\ KeyOf[e] \in Key
  BY <1>2, EventAssumption
<1>5. ASSUME NEW e \in Out("applied") PROVE e \in Candidates /\ IsLatest(e)
  BY <1>5 DEF OutcomeOf
<1>6. ASSUME NEW e \in Out("applied"), NEW f \in Out("applied"), KeyOf[e] = KeyOf[f]
      PROVE  Lsn[e] = Lsn[f]
  <2>1. Lsn[e] <= Lsn[f] /\ Lsn[f] <= Lsn[e]
    BY <1>5, <1>6 DEF IsLatest
  <2> QED
    BY <1>4, <2>1
<1>7. ASSUME NEW e \in Out("superseded")
      PROVE  \E f \in Out("applied") \cup Out("stale") :
                KeyOf[e] = KeyOf[f] /\ Lsn[e] <= Lsn[f]
  <2>1. e \in Candidates
    BY <1>7 DEF OutcomeOf
  <2>2. PICK f \in Candidates : KeyOf[f] = KeyOf[e] /\ Lsn[e] <= Lsn[f] /\ IsLatest(f)
    BY <1>1, <2>1, LatestExists
  <2>3. f \in Unique /\ OutcomeOf(f) \in {"applied", "stale"}
    BY <2>2 DEF Candidates, OutcomeOf
  <2> QED
    BY <2>2, <2>3
<1>8. ASSUME NEW e \in Out("stale") PROVE Shows(e)
  <2>1. Lsn[e] <= Baseline(KeyOf[e])
    BY <1>8 DEF OutcomeOf
  <2>2. /\ Baseline(KeyOf[e]) \in Int
        /\ Baseline(KeyOf[e]) <= LsnShown(silver[KeyOf[e]].event)
        /\ LsnShown(silver[KeyOf[e]].event) \in Int
    BY <1>4, BaselineBelowShown, SilverEvents
  <2> QED
    BY <1>4, <2>1, <2>2 DEF Shows
<1>9. \A e : Shows(e)' <=> Shows(e)
  BY <1>1 DEF Shows
<1>10. \A e \in Out("applied") : ~(TableOf[KeyOf[e]] < table')
  <2>1. \A k \in Key : TableOf[k] \in 1..Tables
    BY TableAssumption
  <2>2. table' = 1
    BY DEF PlanBatch
  <2>3. \A e \in Out("applied") : TableOf[KeyOf[e]] \in 1..Tables
    BY <1>4, <2>1
  <2> QED
    BY <2>2, <2>3, TableAssumption
<1> HIDE DEF Out
<1> QED
  BY <1>3, <1>6, <1>7, <1>8, <1>9, <1>10 DEF PlanInv

-----------------------------------------------------------------------------
(* The steps                                                               *)

\* A step that writes neither table and plans nothing.
LEMMA QuietStep ==
    ASSUME CoverInv, UNCHANGED <<silver, bronze>>,
           \/ stage' \notin {"silver", "bronze"}
           \/ UNCHANGED <<stage, planned, table>>
    PROVE  CoverInv'
<1>1. PrevBelow'
  BY DEF CoverInv, PrevBelow
<1>2. SilverCoversBronze'
  BY DEF CoverInv, SilverCoversBronze
<1>3. PlanInv'
  <2>1. CASE stage' \notin {"silver", "bronze"}
    BY <2>1 DEF PlanInv
  <2>2. CASE UNCHANGED <<stage, planned, table>>
    BY <2>2 DEF CoverInv, PlanInv, Planned, Shows
  <2> QED
    BY <2>1, <2>2
<1> QED
  BY <1>1, <1>2, <1>3 DEF CoverInv

LEMMA PlanBatchCovers ==
    ASSUME TypeInv, CoverInv, PlanBatch
    PROVE  CoverInv'
<1>1. UNCHANGED <<silver, bronze>>
  BY DEF PlanBatch, lake
<1>2. CASE stage' = "silver"
  <2>1. PlanInv'
    BY <1>2, PlanIsSound DEF CoverInv
  <2>2. PrevBelow' /\ SilverCoversBronze'
    BY <1>1 DEF CoverInv, PrevBelow, SilverCoversBronze
  <2> QED
    BY <2>1, <2>2 DEF CoverInv
<1>3. CASE stage' # "silver"
  <2>1. stage' \notin {"silver", "bronze"}
    BY <1>3 DEF PlanBatch
  <2> QED
    BY <1>1, <2>1, QuietStep
<1> QED
  BY <1>2, <1>3

LEMMA MergeSilverCovers ==
    ASSUME TypeInv, CoverInv, MergeSilver
    PROVE  CoverInv'
<1>1. /\ stage = "silver" /\ stage \in Running /\ stage' \in {"silver", "bronze"}
      /\ UNCHANGED <<bronze, planned>>
  BY DEF MergeSilver, Running
<1>2. silver' = silver \/ silver' = MergedSilver(table)
  BY DEF MergeSilver
<1>3. \A k \in Key : /\ LsnShown(silver[k].event) \in Int
                     /\ LsnShown(silver'[k].event) \in Int
                     /\ LsnShown(silver[k].event) <= LsnShown(silver'[k].event)
  BY <1>1, <1>2, SilverEvents, MergeKeepsShown
<1>4. \A e \in Event : /\ KeyOf[e] \in Key /\ Lsn[e] \in Int
  BY EventAssumption
<1>5. \A e \in Event : Shows(e) => Shows(e)'
  BY <1>3, <1>4 DEF Shows
<1>6. PrevBelow'
  <2> SUFFICES ASSUME NEW k \in Key
               PROVE  silver'[k].prev <= LsnShown(silver'[k].event)
    BY DEF PrevBelow
  <2>1. CASE silver'[k] = silver[k]
    BY <2>1 DEF CoverInv, PrevBelow
  <2>2. CASE silver'[k] # silver[k]
    <3>1. silver'[k] = MergedSilver(table)[k]
      BY <1>2, <2>2
    <3>2. silver'[k].prev = LsnShown(silver[k].event)
      BY <1>1, <2>2, <3>1, MergeMovesForward
    <3> QED
      BY <1>3, <3>2
  <2> QED
    BY <2>1, <2>2
<1>7. SilverCoversBronze'
  <2>1. \A row \in bronze : row.event \in Event /\ Shows(row.event)
    BY DEF CoverInv, SilverCoversBronze, Shows, TypeInv, TypeOK, BronzeRow
  <2> QED
    BY <1>1, <1>5, <2>1 DEF SilverCoversBronze, Shows
<1>8. PlanInv'
  <2>1. \A o : Planned(o)' = Planned(o) /\ Planned(o) \subseteq Event
    BY <1>1 DEF Planned, TypeInv, TypeOK
  <2>2. ASSUME NEW e \in Planned("applied"), TableOf[KeyOf[e]] < table
        PROVE  Shows(e)'
    BY <1>1, <1>5, <2>1, <2>2 DEF CoverInv, PlanInv
  <2>3. ASSUME NEW e \in Planned("applied"), TableOf[KeyOf[e]] = table, tries' = 1
        PROVE  Shows(e)'
    <3>1. silver' = MergedSilver(table)
      BY <2>3 DEF MergeSilver, Retried, TypeInv, TypeOK
    <3>2. Lsn[e] <= LsnShown(MergedSilver(table)[KeyOf[e]].event)
      BY <1>1, <2>3, MergeShowsApplied DEF CoverInv
    <3> QED
      BY <3>1, <3>2 DEF Shows
  <2>4. ASSUME NEW e \in Planned("applied"),
               stage' = "bronze" \/ TableOf[KeyOf[e]] < table'
        PROVE  Shows(e)'
    <3>1. TableOf[KeyOf[e]] \in 1..Tables /\ table \in 1..Tables /\ Tables \in Nat
      BY <1>4, <2>1, TableAssumption DEF TypeInv, TypeOK
    <3>2. CASE tries' # 1
      <4>1. stage' = "silver" /\ table' = table
        BY <1>1, <3>2 DEF MergeSilver
      <4> QED
        BY <2>2, <2>4, <4>1
    <3>3. CASE tries' = 1
      <4>1. TableOf[KeyOf[e]] <= table
        BY <1>1, <2>4, <3>1, <3>3 DEF MergeSilver
      <4> QED
        BY <2>2, <2>3, <3>1, <3>3, <4>1
    <3> QED
      BY <3>2, <3>3
  <2> QED
    BY <1>1, <1>5, <2>1, <2>4 DEF CoverInv, PlanInv
<1> QED
  BY <1>6, <1>7, <1>8 DEF CoverInv

\* Silver shows every event that the append adds.
LEMMA FreshIsShown ==
    ASSUME TypeInv, CoverInv, stage = "bronze", NEW e \in Fresh
    PROVE  e \in Event /\ Shows(e)
<1>1. e \in DOMAIN planned /\ e \in Event /\ planned[e].outcome # "duplicate"
  BY DEF Fresh, Planned, TypeInv, TypeOK
<1>2. planned[e].outcome \in Outcome
  BY <1>1 DEF TypeInv, TypeOK, PlanRow
<1>3. \A f \in Planned("applied") \cup Planned("stale") : f \in Event /\ Shows(f)
  BY DEF CoverInv, PlanInv, Planned, TypeInv, TypeOK
<1>4. CASE e \in Planned("applied") \cup Planned("stale")
  BY <1>3, <1>4
<1>5. CASE e \in Planned("superseded")
  <2>1. PICK f \in Planned("applied") \cup Planned("stale") :
               KeyOf[e] = KeyOf[f] /\ Lsn[e] <= Lsn[f]
    BY <1>5 DEF CoverInv, PlanInv
  <2>2. Shows(f) /\ f \in Event
    BY <1>3, <2>1
  <2>3. /\ Lsn[e] \in Int /\ Lsn[f] \in Int /\ KeyOf[e] \in Key
        /\ LsnShown(silver[KeyOf[e]].event) \in Int
    BY <1>1, <2>2, EventAssumption, SilverEvents
  <2> QED
    BY <1>1, <2>1, <2>2, <2>3 DEF Shows
<1> QED
  BY <1>1, <1>2, <1>4, <1>5 DEF Outcome, Planned

LEMMA AppendBronzeCovers ==
    ASSUME TypeInv, CoverInv, AppendBronze
    PROVE  CoverInv'
<1>1. /\ stage = "bronze" /\ UNCHANGED <<silver, planned, table>>
      /\ bronze' = bronze \/ bronze' = bronze \cup BronzeRows
  BY DEF AppendBronze, AppendFresh
<1>2. SilverCoversBronze'
  <2>1. \A row \in BronzeRows : row.event \in Fresh
    BY DEF BronzeRows
  <2>2. \A row \in bronze' : Lsn[row.event] <= LsnShown(silver[KeyOf[row.event]].event)
    BY <1>1, <2>1, FreshIsShown DEF CoverInv, SilverCoversBronze, Shows
  <2> QED
    BY <1>1, <2>2 DEF SilverCoversBronze
<1>3. PlanInv'
  <2>1. stage' = "dlq" \/ stage' = stage
    BY DEF AppendBronze
  <2> QED
    BY <1>1, <2>1 DEF CoverInv, PlanInv, Planned, Shows
<1> QED
  BY <1>1, <1>2, <1>3 DEF CoverInv, PrevBelow

-----------------------------------------------------------------------------
(* Silver covers bronze, and never goes back                               *)

LEMMA CoverInit == Init => CoverInv
<1> SUFFICES ASSUME Init PROVE CoverInv
  OBVIOUS
<1>1. PrevBelow
  BY DEF Init, PrevBelow, NoRow, LsnShown, NoLsn
<1>2. PlanInv /\ SilverCoversBronze
  BY DEF Init, PlanInv, SilverCoversBronze
<1> QED
  BY <1>1, <1>2 DEF CoverInv

\* Whatever the world, the scheduler and the other writes do leaves the event
\* tables and, while they are written, the plan alone.
LEMMA OtherStep ==
    ASSUME [Next]_vars
    PROVE  \/ PlanBatch \/ MergeSilver \/ AppendBronze
           \/ /\ UNCHANGED <<silver, bronze>>
              /\ \/ stage' \notin {"silver", "bronze"}
                 \/ UNCHANGED <<stage, planned, table>>
<1> DEFINE Quiet == /\ UNCHANGED <<silver, bronze>>
                    /\ \/ stage' \notin {"silver", "bronze"}
                       \/ UNCHANGED <<stage, planned, table>>
<1>1. CASE Environment
  BY <1>1 DEF Environment, Produce, Replay, Deploy, WipeCheckpoint, lake, process, batch
<1>2. CASE StartUp
  BY <1>2 DEF StartUp, EnsureEpoch, StartQuery, Trigger, Resume, lake
<1>3. CASE BeginBatch \/ CommitBatch
  BY <1>3 DEF BeginBatch, CommitBatch, lake
<1>4. CASE MergeDlq \/ MergeRecord
  BY <1>4 DEF MergeDlq, MergeRecord
<1>5. CASE Crash
  BY <1>5 DEF Crash, lake
<1>6. CASE UNCHANGED vars
  BY <1>6 DEF vars, lake, process, batch
<1> QED
  BY <1>1, <1>2, <1>3, <1>4, <1>5, <1>6 DEF Next, Job, ProcessBatch

LEMMA CoverStep == TypeInv /\ CoverInv /\ [Next]_vars => CoverInv'
<1> SUFFICES ASSUME TypeInv, CoverInv, [Next]_vars PROVE CoverInv'
  OBVIOUS
<1>1. CASE PlanBatch
  BY <1>1, PlanBatchCovers
<1>2. CASE MergeSilver
  BY <1>2, MergeSilverCovers
<1>3. CASE AppendBronze
  BY <1>3, AppendBronzeCovers
<1> QED
  BY <1>1, <1>2, <1>3, OtherStep, QuietStep

\* The inductive invariant behind the write order of process_batch.
THEOREM CoverInvariant == Spec => []CoverInv
<1>1. Init => CoverInv
  BY CoverInit
<1>2. TypeInv /\ CoverInv /\ [Next]_vars => CoverInv'
  BY CoverStep
<1> QED
  BY <1>1, <1>2, TypeInvariant, PTL DEF Spec

\* A reader who finds an event in bronze finds it, or a later change of its
\* row, in silver: process_batch merges silver before it appends to bronze.
THEOREM SilverCovers == Spec => []SilverCoversBronze
<1>1. CoverInv => SilverCoversBronze
  BY DEF CoverInv
<1> QED
  BY <1>1, CoverInvariant, PTL

\* What a step does to the two event tables.
LEMMA TablesStep ==
    ASSUME TypeInv, CoverInv, [Next]_vars
    PROVE  \/ UNCHANGED <<silver, bronze>>
           \/ /\ stage = "silver" /\ UNCHANGED bronze
              /\ silver' = MergedSilver(table)
           \/ /\ stage = "bronze" /\ UNCHANGED silver
              /\ bronze' = bronze \cup BronzeRows
<1>1. CASE PlanBatch
  BY <1>1 DEF PlanBatch, lake
<1>2. CASE MergeSilver
  BY <1>2 DEF MergeSilver
<1>3. CASE AppendBronze
  BY <1>3 DEF AppendBronze, AppendFresh
<1> QED
  BY <1>1, <1>2, <1>3, OtherStep

LEMMA SilverAdvances ==
    ASSUME TypeInv, CoverInv, [Next]_vars, NEW k \in Key
    PROVE  LsnShown(silver[k].event) <= LsnShown(silver'[k].event)
<1>1. CASE UNCHANGED silver
  BY <1>1, SilverEvents
<1>2. CASE stage = "silver" /\ silver' = MergedSilver(table)
  BY <1>2, MergeKeepsShown DEF Running
<1> QED
  BY <1>1, <1>2, TablesStep

\* No retry, re-run, replay or late record moves a row of silver back to an
\* older change (the guard s._source_lsn > t._source_lsn of the MERGE).
THEOREM SilverForward == Spec => SilverNeverGoesBack
<1> DEFINE Forward == \A k \in Key :
                        LsnShown(silver[k].event) <= LsnShown(silver'[k].event)
<1>1. TypeInv /\ CoverInv /\ [Next]_vars => [Forward]_vars
  BY SilverAdvances
<1> QED
  BY <1>1, TypeInvariant, CoverInvariant, PTL DEF Spec, SilverNeverGoesBack

-----------------------------------------------------------------------------
(* The tables implement the promise of the lakehouse                       *)

\* A merge of silver advances rows; an append to bronze enters its events.
LEMMA PromiseStep ==
    ASSUME TypeInv, TypeInv', CoverInv, [Next]_vars
    PROVE  [Promise!Next]_<<[k \in Key |-> silver[k].event],
                            {row.event : row \in bronze}>>
<1> DEFINE current == [k \in Key |-> silver[k].event]
           ledger  == {row.event : row \in bronze}
<1>1. CASE UNCHANGED <<silver, bronze>>
  BY <1>1
<1>2. CASE stage = "silver" /\ UNCHANGED bronze /\ silver' = MergedSilver(table)
  <2>1. current' \in [Key -> Event \cup {NoEvent}]
    <3>1. \A k \in Key : silver'[k] \in SilverRow
      BY DEF TypeInv, TypeOK
    <3> QED
      BY <3>1 DEF SilverRow
  <2>2. \A e : Promise!LsnShown(e) = LsnShown(e)
    BY DEF Promise!LsnShown, LsnShown, Promise!NoLsn, NoLsn
  <2>3. ASSUME NEW k \in Key
        PROVE  \/ current'[k] = current[k]
               \/ /\ current'[k] \in Event
                  /\ KeyOf[current'[k]] = k
                  /\ Promise!LsnShown(current'[k]) > Promise!LsnShown(current[k])
    <3>1. \/ silver'[k] = silver[k]
          \/ /\ silver'[k].event \in Event /\ KeyOf[silver'[k].event] = k
             /\ LsnShown(silver[k].event) < LsnShown(silver'[k].event)
      BY <1>2, MergeMovesForward DEF Running
    <3> QED
      BY <2>2, <3>1
  <2>4. UNCHANGED ledger
    BY <1>2
  <2> QED
    BY <2>1, <2>3, <2>4 DEF Promise!Next, Promise!Advance
<1>3. CASE stage = "bronze" /\ UNCHANGED silver /\ bronze' = bronze \cup BronzeRows
  <2>1. \A e \in Fresh : e \in Event /\ Shows(e)
    BY <1>3, FreshIsShown
  <2>2. \A e \in Fresh : Lsn[e] <= Promise!LsnShown(current[KeyOf[e]])
    BY <2>1, EventAssumption DEF Shows, Promise!LsnShown, LsnShown, Promise!NoLsn, NoLsn
  <2>3. ledger' = ledger \cup Fresh
    <3>1. {row.event : row \in BronzeRows} = Fresh
      <4> DEFINE R(e) == [event |-> e, ts |-> planned[e].ts, late |-> planned[e].late,
                          outcome |-> planned[e].outcome,
                          replay_of |-> planned[e].replay_of, epoch |-> ctx.epoch,
                          batch |-> Batch, snapshot |-> snapshots + 1]
      <4>1. BronzeRows = {R(e) : e \in Fresh}
        BY DEF BronzeRows
      <4>2. \A e : R(e).event = e
        OBVIOUS
      <4> HIDE DEF R
      <4> QED
        BY <4>1, <4>2
    <3> QED
      BY <1>3, <3>1
  <2>4. UNCHANGED current
    BY <1>3
  <2>5. Fresh \in SUBSET Event
    BY <2>1
  <2> QED
    BY <2>2, <2>3, <2>4, <2>5 DEF Promise!Next, Promise!Enter
<1> QED
  BY <1>1, <1>2, <1>3, TablesStep

\* The sink implements the abstract lakehouse: a batch, whatever happens to
\* it, is a sequence of advances of silver and entries in bronze.
THEOREM SinkImplementsPromise == Spec => KeepsPromise
<1>1. Init => Promise!Init
  BY DEF Init, Promise!Init, NoRow
<1>2. TypeInv /\ TypeInv' /\ CoverInv /\ [Next]_vars =>
        [Promise!Next]_<<[k \in Key |-> silver[k].event],
                         {row.event : row \in bronze}>>
  BY PromiseStep
<1> QED
  BY <1>1, <1>2, TypeInvariant, CoverInvariant, PTL DEF Spec, KeepsPromise, Promise!Spec

-----------------------------------------------------------------------------
(* Delivery: below the committed offsets no record is missing from the     *)
(* lakehouse, and, while the timestamp of a change is always the same, no  *)
(* change is in bronze twice.  Together they are the effectively-once      *)
(* guarantee of ADR-0003.                                                  *)

InBronze(e) == \E row \in bronze : row.event = e

\* A replay answers a row of the DLQ.
ReplayInv == \A x \in Produced : IsReplay(x) => At(x).replay_of \in DOMAIN dlq

\* The plan covers the events of the batch, and calls duplicate only what is
\* in bronze.
PlannedInv ==
    stage \in {"silver", "bronze"} =>
        /\ DOMAIN planned = Unique
        /\ \A e \in Planned("duplicate") : InBronze(e)

\* What the writes that are behind the batch have stored.
WrittenInv ==
    /\ stage \in {"dlq", "record", "commit"} =>
          \A x \in Valid : InBronze(EventAt(x))
    /\ stage \in {"record", "commit"} =>
          \A x \in Rejected : DlqId(x) \in DOMAIN dlq

DeliveryInv == ReplayInv /\ PlannedInv /\ WrittenInv /\ NothingLost

-----------------------------------------------------------------------------
(* The log                                                                 *)

\* A replay carries the record it answers.
Answering(m) == m.replay_of # NoPosition =>
                   m.replay_of \in DOMAIN dlq /\ m.body = At(m.replay_of).body

LogAppend == /\ \E p \in Partition, m \in Message : AppendTo(p, m) /\ Answering(m)
             /\ UNCHANGED <<contracts, checkpoint, lake, process, epochs, crashes>>

LEMMA LogStep ==
    ASSUME TypeInv, [Next]_vars
    PROVE  UNCHANGED kafka \/ LogAppend
<1>1. ASSUME NEW p \in Partition \ Replays, NEW b \in Body, Produce(p, b)
      PROVE  LogAppend
  <2> DEFINE m == [body |-> b, replay_of |-> NoPosition]
  <2>1. m \in Message /\ m.replay_of = NoPosition
    BY DEF Message
  <2> HIDE DEF m
  <2>2. AppendTo(p, m) /\ p \in Partition
    BY <1>1 DEF Produce, m
  <2>3. UNCHANGED <<contracts, checkpoint, lake, process, epochs, crashes>>
    BY <1>1 DEF Produce
  <2> QED
    BY <2>1, <2>2, <2>3 DEF LogAppend, Answering
<1>2. ASSUME NEW p \in Replays, NEW d \in DOMAIN dlq, Replay(p, d)
      PROVE  LogAppend
  <2> DEFINE m == [body |-> At(d).body, replay_of |-> d]
  <2>1. /\ d \in Coordinates /\ d[1] \in Partition
        /\ d[2] \in 1..Len(kafka[d[1]])
    <3>1. d \in Coordinates /\ d[2] <= Len(kafka[d[1]])
      BY DEF TypeInv, TypeOK, LogInv
    <3>2. d[1] \in Partition /\ d[2] \in 1..MaxOffset
      BY <3>1 DEF Coordinates
    <3>3. Len(kafka[d[1]]) \in Nat
      BY <3>2 DEF TypeInv, TypeOK
    <3> QED
      BY <3>1, <3>2, <3>3, BoundAssumption
  <2>2. At(d) \in Message
    BY <2>1 DEF TypeInv, TypeOK, At
  <2>3. m \in Message /\ m.replay_of = d /\ m.body = At(d).body
    BY <2>1, <2>2 DEF Message
  <2> HIDE DEF m
  <2>4. AppendTo(p, m) /\ p \in Partition
    BY <1>2, LogAssumption DEF Replay, m
  <2>5. UNCHANGED <<contracts, checkpoint, lake, process, epochs, crashes>>
    BY <1>2 DEF Replay
  <2> QED
    BY <2>3, <2>4, <2>5 DEF LogAppend, Answering
<1>3. CASE Environment
  BY <1>1, <1>2, <1>3 DEF Environment, Deploy, WipeCheckpoint, external
<1>4. CASE StartUp
  BY <1>4 DEF StartUp, EnsureEpoch, StartQuery, Trigger, Resume, external
<1>5. CASE ProcessBatch
  BY <1>5 DEF ProcessBatch, BeginBatch, PlanBatch, MergeSilver, AppendBronze,
     MergeDlq, MergeRecord, CommitBatch, external
<1>6. CASE Crash
  BY <1>6 DEF Crash, external
<1>7. CASE UNCHANGED vars
  BY <1>7 DEF vars, external
<1> QED
  BY <1>3, <1>4, <1>5, <1>6, <1>7 DEF Next, Job

\* What is in the log stays.
LEMMA LogKept ==
    ASSUME TypeInv, LogAppend
    PROVE  /\ Produced \subseteq Produced'
           /\ \A x \in Produced : At(x)' = At(x)
           /\ \A x \in Produced' \ Produced : At(x)'.replay_of # NoPosition =>
                 \E d \in DOMAIN dlq : At(x)'.replay_of = d /\ At(x)'.body = At(d).body
<1>1. PICK p \in Partition, m \in Message : AppendTo(p, m) /\ Answering(m)
  BY DEF LogAppend
<1>2. /\ kafka \in [Partition -> Seq(Message)]
      /\ kafka' = [kafka EXCEPT ![p] = Append(kafka[p], m)]
  BY <1>1 DEF TypeInv, TypeOK, AppendTo
<1>3. \A x \in Coordinates : x[1] \in Partition /\ x[2] \in Nat /\ 1 <= x[2]
  BY BoundAssumption DEF Coordinates
<1>4. \A q \in Partition : /\ Len(kafka[q]) \in Nat /\ Len(kafka'[q]) \in Nat
                          /\ Len(kafka[q]) <= Len(kafka'[q])
                          /\ \A o \in 1..Len(kafka[q]) : kafka'[q][o] = kafka[q][o]
  BY <1>1, <1>2, AppendToType, LenProperties
<1>5. Produced \subseteq Produced'
  BY <1>3, <1>4 DEF Produced
<1>6. \A x \in Produced : At(x)' = At(x)
  BY <1>3, <1>4 DEF Produced, At
<1>7. ASSUME NEW x \in Produced' \ Produced
      PROVE  At(x)' = m
  <2>1. x \in Coordinates /\ x[1] \in Partition /\ x[2] \in Nat
    BY <1>3 DEF Produced
  <2>2. x[2] <= Len(kafka'[x[1]]) /\ ~(x[2] <= Len(kafka[x[1]]))
    BY <1>7, <2>1 DEF Produced
  <2>3. x[1] = p
    BY <1>2, <2>1, <2>2
  <2>4. /\ kafka'[p] = Append(kafka[p], m)
        /\ Len(Append(kafka[p], m)) = Len(kafka[p]) + 1
        /\ Append(kafka[p], m)[Len(kafka[p]) + 1] = m
    BY <1>2, AppendProperties
  <2>5. x[2] = Len(kafka[p]) + 1
    BY <1>4, <2>1, <2>2, <2>3, <2>4
  <2> QED
    BY <2>3, <2>4, <2>5 DEF At
<1> QED
  BY <1>1, <1>5, <1>6, <1>7 DEF Answering

\* The planned batch is not touched by what is appended to the log.
LEMMA RowsKept ==
    ASSUME TypeInv, offsets # <<>>, LogAppend
    PROVE  /\ Rows' = Rows
           /\ \A x \in Rows : x \in Produced /\ At(x)' = At(x)
<1>1. UNCHANGED <<offsets, ctx>>
  BY DEF LogAppend, checkpoint, process
<1>2. ASSUME NEW x \in Coordinates, x[2] <= To(x[1])
      PROVE  x \in Produced
  <2>1. x[1] \in Partition /\ x[2] \in 1..MaxOffset
    BY DEF Coordinates
  <2>2. /\ Len(offsets) \in 1..Len(offsets)
        /\ offsets[Len(offsets)] \in [Partition -> 0..MaxOffset]
    BY DEF TypeInv, TypeOK, LogInv
  <2>3. To(x[1]) \in 0..MaxOffset /\ To(x[1]) <= Len(kafka[x[1]])
    BY <2>1, <2>2 DEF TypeInv, LogInv, To
  <2>4. Len(kafka[x[1]]) \in Nat
    BY <2>1, LenProperties DEF TypeInv, TypeOK
  <2>5. x[2] <= Len(kafka[x[1]])
    BY <1>2, <2>1, <2>3, <2>4, BoundAssumption
  <2> QED
    BY <2>5 DEF Produced
<1>3. \A x \in Coordinates : x[2] <= To(x[1]) => At(x)' = At(x)
  BY <1>2, LogKept
<1>4. \A p : To(p)' = To(p) /\ From(p)' = From(p)
  BY <1>1 DEF To, From
<1>5. Rows' = Rows
  BY <1>3, <1>4 DEF Rows
<1>6. \A x \in Rows : x \in Produced /\ At(x)' = At(x)
  BY <1>2, <1>3 DEF Rows
<1> QED
  BY <1>5, <1>6

\* The running batch is not touched by what is appended to the log.
LEMMA BatchKept ==
    ASSUME TypeInv, stage \in Running, LogAppend
    PROVE  /\ Rows' = Rows /\ Valid' = Valid /\ Rejected' = Rejected
           /\ Unique' = Unique
           /\ \A x \in Rows : x \in Produced /\ At(x)' = At(x)
<1>1. /\ Rows' = Rows /\ UNCHANGED ctx
      /\ \A x \in Rows : x \in Produced /\ At(x)' = At(x)
  BY RowsKept, BatchIsPlanned DEF LogAppend, process
<1>2. Valid' = Valid /\ Rejected' = Rejected
  BY <1>1 DEF Valid, Rejected, Status
<1>3. Unique' = Unique
  <2>1. \A x \in Valid : EventAt(x)' = EventAt(x)
    BY <1>1 DEF Valid, EventAt
  <2> QED
    BY <1>2, <2>1 DEF Unique
<1> QED
  BY <1>1, <1>2, <1>3

-----------------------------------------------------------------------------
(* Nothing is lost                                                         *)

\* Bronze rows and DLQ rows are never removed.
LEMMA TablesGrow ==
    ASSUME TypeInv, CoverInv, [Next]_vars
    PROVE  bronze \subseteq bronze' /\ DOMAIN dlq \subseteq DOMAIN dlq'
<1>1. bronze \subseteq bronze'
  BY TablesStep
<1>2. UNCHANGED dlq \/ MergeDlq
  BY DEF Next, Environment, Produce, Replay, Deploy, WipeCheckpoint, Job, StartUp,
     EnsureEpoch, StartQuery, Trigger, Resume, ProcessBatch, BeginBatch, PlanBatch,
     MergeSilver, AppendBronze, MergeRecord, CommitBatch, Crash, lake, vars
<1>3. CASE MergeDlq
  <2>1. dlq' = dlq \/ \E src \in DlqSources : dlq' = MergedDlq(src)
    BY <1>3 DEF MergeDlq
  <2>2. stage \in Running
    BY <1>3 DEF MergeDlq, Running
  <2> QED
    BY <1>1, <2>1, <2>2, MergedDlqType
<1> QED
  BY <1>1, <1>2, <1>3

LEMMA StoredKept ==
    ASSUME TypeInv, CoverInv, [Next]_vars, NEW x \in Produced
    PROVE  Stored(x) => Stored(x)'
<1>1. At(x)' = At(x)
  <2>1. CASE UNCHANGED kafka
    BY <2>1 DEF At
  <2>2. CASE LogAppend
    BY <2>2, LogKept
  <2> QED
    BY <2>1, <2>2, LogStep
<1>2. bronze \subseteq bronze' /\ DOMAIN dlq \subseteq DOMAIN dlq'
  BY TablesGrow
<1> QED
  BY <1>1, <1>2 DEF Stored, EventAt, DlqId, IsReplay

\* A committed record is in the log.
LEMMA CommittedProduced ==
    ASSUME TypeInv, NEW x \in Coordinates, Committed(x)
    PROVE  x \in Produced
<1>1. x[1] \in Partition /\ x[2] \in 1..MaxOffset /\ commits \in Nat /\ commits > 0
  BY DEF Coordinates, Committed, TypeInv, TypeOK
<1>2. commits \in 1..Len(offsets)
  BY <1>1 DEF TypeInv, TypeOK
<1>3. /\ offsets[commits] \in [Partition -> 0..MaxOffset]
      /\ offsets[commits][x[1]] <= Len(kafka[x[1]])
  <2>1. offsets \in Seq([Partition -> 0..MaxOffset])
    BY DEF TypeInv, TypeOK
  <2>2. \A i \in 1..Len(offsets), p \in Partition : offsets[i][p] <= Len(kafka[p])
    BY DEF TypeInv, LogInv
  <2> QED
    BY <1>1, <1>2, <2>1, <2>2, ElementOfSeq
<1>4. Len(kafka[x[1]]) \in Nat /\ offsets[commits][x[1]] \in 0..MaxOffset
  BY <1>1, <1>3, LenProperties DEF TypeInv, TypeOK
<1>5. x[2] <= Len(kafka[x[1]])
  BY <1>1, <1>3, <1>4, BoundAssumption DEF Committed
<1> QED
  BY <1>5 DEF Produced

LEMMA ReplayKept ==
    ASSUME TypeInv, CoverInv, ReplayInv, [Next]_vars
    PROVE  ReplayInv'
<1>1. DOMAIN dlq \subseteq DOMAIN dlq'
  BY TablesGrow
<1>2. CASE UNCHANGED kafka
  BY <1>1, <1>2 DEF ReplayInv, Produced, IsReplay, At
<1>3. CASE LogAppend
  BY <1>1, <1>3, LogKept DEF ReplayInv, IsReplay
<1> QED
  BY <1>2, <1>3, LogStep

\* A plan calls duplicate only events that bronze has.
LEMMA PlanBatchPlans ==
    ASSUME TypeInv, PlanBatch
    PROVE  PlannedInv' /\ WrittenInv'
<1>1. /\ stage \in Running /\ planned' = Plan
      /\ UNCHANGED <<kafka, offsets, ctx, bronze>>
      /\ stage' = IF Valid = {} THEN "dlq" ELSE "silver"
  BY DEF PlanBatch, Running, external, checkpoint, lake
<1>2. Valid' = Valid /\ Unique' = Unique
  <2>1. Rows' = Rows /\ \A x : At(x)' = At(x)
    BY <1>1 DEF Rows, To, From, At
  <2>2. Valid' = Valid
    BY <1>1, <2>1 DEF Valid, Status
  <2> QED
    BY <2>1, <2>2 DEF Unique, EventAt
<1>3. DOMAIN planned' = Unique'
  BY <1>1, <1>2, PlanType
<1>4. ASSUME NEW e \in Planned("duplicate")' PROVE InBronze(e)'
  <2>1. e \in Unique /\ OutcomeOf(e) = "duplicate"
    BY <1>1, <1>4, PlanType DEF Planned, Plan
  <2>2. IsPriorDup(e)
    BY <2>1 DEF OutcomeOf, Candidates
  <2> QED
    BY <1>1, <2>2 DEF IsPriorDup, BronzeLookup, InBronze
<1>5. PlannedInv'
  BY <1>3, <1>4 DEF PlannedInv
<1>6. WrittenInv'
  BY <1>1, <1>2 DEF WrittenInv
<1> QED
  BY <1>5, <1>6

\* While the batch runs its records and their verdicts stay the same.
LEMMA SameBatch ==
    ASSUME UNCHANGED <<kafka, offsets>>, ctx'.registry = ctx.registry
    PROVE  /\ Rows' = Rows /\ Valid' = Valid /\ Rejected' = Rejected
           /\ Unique' = Unique
           /\ \A x : EventAt(x)' = EventAt(x) /\ DlqId(x)' = DlqId(x)
<1>1. Rows' = Rows /\ \A x : At(x)' = At(x)
  BY DEF Rows, To, From, At
<1>2. Valid' = Valid /\ Rejected' = Rejected
  BY <1>1 DEF Valid, Rejected, Status
<1>3. \A x : EventAt(x)' = EventAt(x) /\ DlqId(x)' = DlqId(x)
  BY <1>1 DEF EventAt, DlqId, IsReplay
<1> QED
  BY <1>1, <1>2, <1>3 DEF Unique

\* Once the append is done every valid record has its event in bronze.
LEMMA AppendBronzeStores ==
    ASSUME TypeInv, PlannedInv, WrittenInv, AppendBronze
    PROVE  PlannedInv' /\ WrittenInv'
<1>1. /\ stage = "bronze" /\ stage' \in {"bronze", "dlq"}
      /\ UNCHANGED <<kafka, offsets, ctx, planned>>
      /\ bronze \subseteq bronze'
      /\ stage' = "dlq" => bronze' = bronze \cup BronzeRows
  BY DEF AppendBronze, AppendFresh, external, checkpoint
<1>2. Valid' = Valid /\ Unique' = Unique /\ \A x : EventAt(x)' = EventAt(x)
  BY <1>1, SameBatch
<1>3. PlannedInv'
  BY <1>1, <1>2 DEF PlannedInv, Planned, InBronze
<1>4. ASSUME stage' = "dlq", NEW x \in Valid PROVE InBronze(EventAt(x))'
  <2>1. EventAt(x) \in DOMAIN planned
    BY <1>1 DEF PlannedInv, Unique
  <2>2. CASE EventAt(x) \in Planned("duplicate")
    BY <1>1, <1>2, <2>2 DEF PlannedInv, InBronze
  <2>3. CASE EventAt(x) \in Fresh
    <3> DEFINE e == EventAt(x)
               row == [event |-> e, ts |-> planned[e].ts, late |-> planned[e].late,
                       outcome |-> planned[e].outcome,
                       replay_of |-> planned[e].replay_of, epoch |-> ctx.epoch,
                       batch |-> Batch, snapshot |-> snapshots + 1]
    <3>1. row \in bronze' /\ row.event = e
      BY <1>1, <1>4, <2>3 DEF BronzeRows
    <3> QED
      BY <1>2, <3>1 DEF InBronze
  <2>4. CASE EventAt(x) \notin Planned("duplicate") /\ EventAt(x) \notin Fresh
    <3>1. \E row \in BronzeLookup : row.event = EventAt(x)
      BY <2>1, <2>4 DEF Fresh
    <3> QED
      BY <1>1, <1>2, <3>1 DEF BronzeLookup, InBronze
  <2> QED
    BY <2>2, <2>3, <2>4
<1>5. WrittenInv'
  BY <1>1, <1>2, <1>4 DEF WrittenInv, InBronze
<1> QED
  BY <1>3, <1>5

\* Once the DLQ is merged every rejected record has its row, a replay the one
\* it answers.
LEMMA MergeDlqStores ==
    ASSUME TypeInv, ReplayInv, WrittenInv, MergeDlq
    PROVE  PlannedInv' /\ WrittenInv'
<1>1. /\ stage = "dlq" /\ stage \in Running /\ stage' \in {"dlq", "record"}
      /\ UNCHANGED <<kafka, offsets, ctx, planned, bronze>>
  BY DEF MergeDlq, external, checkpoint, Running
<1>2. /\ Valid' = Valid /\ Rejected' = Rejected
      /\ \A x : EventAt(x)' = EventAt(x) /\ DlqId(x)' = DlqId(x)
  BY <1>1, SameBatch
<1>3. ASSUME stage' = "record", NEW x \in Rejected PROVE DlqId(x) \in DOMAIN dlq'
  <2>1. x \in DlqInput /\ DlqInput # {} /\ DlqId(x) \in DlqIds
    BY DEF DlqInput, DlqIds
  <2>2. PICK src \in DlqSources : dlq' = MergedDlq(src)
    BY <1>3, <2>1 DEF MergeDlq
  <2> DEFINE d == DlqId(x)
             y == src[d]
  <2>3. d \in DOMAIN src /\ y \in DlqInput /\ DlqId(y) = d
    BY <2>1 DEF DlqSources
  <2>4. DOMAIN dlq' = DOMAIN dlq \cup {c \in DOMAIN src : ~IsReplay(src[c])}
    BY <2>2 DEF MergedDlq
  <2>5. CASE ~IsReplay(y)
    BY <2>3, <2>4, <2>5
  <2>6. CASE IsReplay(y)
    <3>1. y \in Produced
      <4>1. y \in Coordinates /\ y[2] \in 1..Len(kafka[y[1]])
        BY <1>1, <2>3, DlqInputType, RowIsMessage
      <4> QED
        BY <4>1 DEF Produced
    <3>2. At(y).replay_of \in DOMAIN dlq
      BY <2>6, <3>1 DEF ReplayInv
    <3>3. d = At(y).replay_of
      BY <2>3, <2>6 DEF DlqId
    <3> QED
      BY <2>4, <3>2, <3>3
  <2> QED
    BY <2>5, <2>6
<1>4. WrittenInv'
  BY <1>1, <1>2, <1>3 DEF WrittenInv, InBronze
<1>5. PlannedInv'
  BY <1>1 DEF PlannedInv
<1> QED
  BY <1>4, <1>5

\* The steps that neither append to the log nor end the plan, the append or
\* the DLQ merge.
LEMMA OtherWrites ==
    ASSUME TypeInv, PlannedInv, WrittenInv, [Next]_vars, UNCHANGED kafka,
           ~PlanBatch, ~AppendBronze, ~MergeDlq
    PROVE  PlannedInv' /\ WrittenInv'
<1>1. CASE \/ stage' \notin {"silver", "bronze", "dlq", "record", "commit"}
           \/ stage' = "commit" /\ Rows' = {}
  BY <1>1 DEF PlannedInv, WrittenInv, Valid, Rejected
<1>2. CASE UNCHANGED <<stage, planned, bronze, dlq, offsets, ctx>>
  BY <1>2, SameBatch DEF PlannedInv, WrittenInv, Planned, InBronze
<1>3. CASE MergeSilver
  <2>1. /\ stage = "silver" /\ stage' \in {"silver", "bronze"}
        /\ UNCHANGED <<planned, bronze, offsets, ctx>>
    BY <1>3 DEF MergeSilver, checkpoint
  <2> QED
    BY <2>1, SameBatch DEF PlannedInv, WrittenInv, Planned, InBronze
<1>4. CASE MergeRecord
  <2>1. /\ stage = "record" /\ stage' \in {"record", "commit"}
        /\ UNCHANGED <<bronze, dlq, offsets>>
    BY <1>4 DEF MergeRecord, checkpoint
  <2>2. ctx'.registry = ctx.registry
    BY <1>4 DEF MergeRecord, TypeInv, TypeOK
  <2> QED
    BY <2>1, <2>2, SameBatch DEF PlannedInv, WrittenInv, InBronze
<1>5. CASE BeginBatch
  <2>1. /\ stage' = IF Rows = {} THEN "commit" ELSE "plan"
        /\ UNCHANGED offsets
    BY <1>5 DEF BeginBatch, checkpoint
  <2>2. Rows' = Rows
    BY <2>1 DEF Rows, To, From, At
  <2> QED
    BY <1>1, <2>1, <2>2
<1>6. CASE Environment
  BY <1>2, <1>6 DEF Environment, Produce, Replay, AppendTo, Deploy, WipeCheckpoint,
     checkpoint, lake, process, batch, WrittenInv, PlannedInv
<1>7. CASE StartUp
  BY <1>1, <1>7 DEF StartUp, EnsureEpoch, StartQuery, Trigger, Resume
<1>8. CASE CommitBatch \/ Crash
  BY <1>1, <1>8 DEF CommitBatch, Crash
<1>9. CASE UNCHANGED vars
  BY <1>2, <1>9 DEF vars, checkpoint, lake, process, batch
<1> QED
  BY <1>3, <1>4, <1>5, <1>6, <1>7, <1>8, <1>9 DEF Next, Job, ProcessBatch

LEMMA WritesKept ==
    ASSUME TypeInv, CoverInv, ReplayInv, PlannedInv, WrittenInv, [Next]_vars
    PROVE  PlannedInv' /\ WrittenInv'
<1>1. CASE LogAppend
  <2>1. UNCHANGED <<stage, planned, bronze, dlq>>
    BY <1>1 DEF LogAppend, process, batch, lake
  <2>2. CASE stage \in Running
    <3>1. /\ Valid' = Valid /\ Rejected' = Rejected /\ Unique' = Unique
          /\ \A x \in Rows : At(x)' = At(x)
      BY <1>1, <2>2, BatchKept
    <3>2. \A x \in Valid \cup Rejected : /\ EventAt(x)' = EventAt(x)
                                        /\ DlqId(x)' = DlqId(x)
      BY <3>1 DEF Valid, Rejected, EventAt, DlqId, IsReplay
    <3> QED
      BY <2>1, <3>1, <3>2 DEF PlannedInv, WrittenInv, Planned, InBronze
  <2>3. CASE stage \notin Running
    BY <2>1, <2>3 DEF PlannedInv, WrittenInv, Running
  <2> QED
    BY <2>2, <2>3
<1>2. CASE UNCHANGED kafka
  BY <1>2, PlanBatchPlans, AppendBronzeStores, MergeDlqStores, OtherWrites
<1> QED
  BY <1>1, <1>2, LogStep

\* CommitBatch commits only what the batch has stored.
LEMMA CommitLosesNothing ==
    ASSUME TypeInv, WrittenInv, NothingLost, CommitBatch
    PROVE  NothingLost'
<1>1. /\ stage = "commit" /\ commits' = Len(offsets) /\ Len(offsets) = commits + 1
      /\ UNCHANGED <<kafka, offsets, bronze, dlq>>
      /\ commits \in Nat
  BY DEF CommitBatch, external, lake, TypeInv, TypeOK, LogInv, Running
<1> SUFFICES ASSUME NEW x \in Coordinates, Committed(x)'
             PROVE  Stored(x)
  BY <1>1 DEF NothingLost, Stored, At, EventAt, DlqId, IsReplay
<1>2. x[2] <= To(x[1]) /\ x[1] \in Partition /\ x[2] \in 1..MaxOffset
  BY <1>1 DEF Committed, To, Coordinates
<1>3. From(x[1]) \in 0..MaxOffset
  <2>1. CASE Len(offsets) = 1
    BY <2>1, BoundAssumption DEF From
  <2>2. CASE Len(offsets) # 1
    <3>1. commits \in 1..Len(offsets) /\ offsets \in Seq([Partition -> 0..MaxOffset])
      BY <1>1, <2>2 DEF TypeInv, TypeOK
    <3>2. offsets[commits] \in [Partition -> 0..MaxOffset]
      BY <3>1, ElementOfSeq
    <3> QED
      BY <1>1, <1>2, <2>2, <3>2 DEF From
  <2> QED
    BY <2>1, <2>2
<1>4. CASE x[2] <= From(x[1])
  <2>1. Len(offsets) # 1
    BY <1>2, <1>4, BoundAssumption DEF From
  <2>2. commits > 0 /\ From(x[1]) = offsets[commits][x[1]]
    BY <1>1, <2>1 DEF From
  <2> QED
    BY <1>4, <2>2 DEF NothingLost, Committed
<1>5. CASE From(x[1]) < x[2] /\ At(x).body.kind # "gap"
  <2>1. x \in Rows
    BY <1>2, <1>5 DEF Rows
  <2>2. CASE x \in Valid
    BY <1>1, <2>2 DEF WrittenInv, InBronze, Stored
  <2>3. CASE x \in Rejected
    BY <1>1, <2>3 DEF WrittenInv, Stored
  <2>4. CASE At(x).body.kind # "change"
    BY <2>4 DEF Stored
  <2> QED
    BY <2>1, <2>2, <2>3, <2>4 DEF Valid, Rejected, Status
<1>6. CASE At(x).body.kind = "gap"
  BY <1>6 DEF Stored
<1> QED
  BY <1>2, <1>3, <1>4, <1>5, <1>6, BoundAssumption

\* No other step commits a record.
LEMMA CommittedBefore ==
    ASSUME TypeInv, [Next]_vars, ~CommitBatch, NEW x \in Coordinates, Committed(x)'
    PROVE  Committed(x)
<1>1. CASE UNCHANGED <<offsets, commits>>
  BY <1>1 DEF Committed
<1>2. CASE WipeCheckpoint
  BY <1>2 DEF WipeCheckpoint, Committed
<1>3. CASE Trigger
  <2>1. PICK to \in [Partition -> 0..MaxOffset] : offsets' = Append(offsets, to)
    BY <1>3 DEF Trigger
  <2>2. /\ UNCHANGED commits /\ commits \in Nat /\ commits = Len(offsets)
        /\ offsets \in Seq([Partition -> 0..MaxOffset])
    BY <1>3 DEF Trigger, TypeInv, TypeOK
  <2>3. commits > 0 => offsets'[commits] = offsets[commits]
    BY <2>1, <2>2, AppendProperties
  <2> QED
    BY <2>2, <2>3 DEF Committed
<1> QED
  BY <1>1, <1>2, <1>3 DEF Next, Environment, Produce, Replay, Deploy, Job, StartUp,
     EnsureEpoch, StartQuery, Resume, ProcessBatch, BeginBatch, PlanBatch,
     MergeSilver, AppendBronze, MergeDlq, MergeRecord, Crash, checkpoint, vars

LEMMA NothingLostStep ==
    ASSUME TypeInv, CoverInv, DeliveryInv, [Next]_vars
    PROVE  NothingLost'
<1>1. CASE CommitBatch
  BY <1>1, CommitLosesNothing DEF DeliveryInv
<1>2. CASE ~CommitBatch
  <2> SUFFICES ASSUME NEW x \in Coordinates, Committed(x)'
               PROVE  Stored(x)'
    BY DEF NothingLost
  <2>1. Committed(x)
    BY <1>2, CommittedBefore
  <2>2. Stored(x) /\ x \in Produced
    BY <2>1, CommittedProduced DEF DeliveryInv, NothingLost
  <2> QED
    BY <2>2, StoredKept
<1> QED
  BY <1>1, <1>2

\* No record is produced at first.
LEMMA EmptyLog == ASSUME Init PROVE Produced = {}
<1>1. \A x \in Coordinates : x[1] \in Partition /\ x[2] \in 1..MaxOffset
  BY DEF Coordinates
<1>2. \A x \in Coordinates : Len(kafka[x[1]]) = 0
  BY <1>1 DEF Init
<1> QED
  BY <1>1, <1>2, BoundAssumption DEF Produced

LEMMA DeliveryInit == ASSUME Init PROVE DeliveryInv
<1>1. Produced = {}
  BY EmptyLog
<1> QED
  BY <1>1 DEF Init, DeliveryInv, ReplayInv, NothingLost, Committed, PlannedInv,
     WrittenInv

\* Nothing below the committed offsets is missing from the lakehouse: the
\* checkpoint is committed after bronze and the DLQ (job.py 86-92), and both
\* have, by then, what the batch held.
THEOREM NoRecordLost == Spec => []NothingLost
<1>1. Init => DeliveryInv
  BY DeliveryInit
<1>2. TypeInv /\ CoverInv /\ DeliveryInv /\ [Next]_vars => DeliveryInv'
  BY ReplayKept, WritesKept, NothingLostStep DEF DeliveryInv
<1>3. DeliveryInv => NothingLost
  BY DEF DeliveryInv
<1> QED
  BY <1>1, <1>2, <1>3, TypeInvariant, CoverInvariant, PTL DEF Spec

-----------------------------------------------------------------------------
(* Bronze holds an event once.  _bronze_lookup reads only the window of    *)
(* the batch's timestamps, so this needs a change to be delivered with the *)
(* same timestamp every time.  Debezium's redeliveries and the DLQ replays *)
(* are such; the Recovery Lab's late events are not (run sink_late).       *)

StableTimestamps ==
    \A b, c \in Body : b.event = c.event => b.ts = c.ts

\* Timestamps of the plan, and of bronze, are those of the events' bodies.
StampInv ==
    /\ stage \in {"silver", "bronze"} =>
          \A e \in DOMAIN planned :
             \E x \in Valid : EventAt(x) = e /\ TsAt(x) = planned[e].ts
    /\ \A row \in bronze : \E b \in Body : b.event = row.event /\ b.ts = row.ts

UniqueInv == StampInv /\ OneBronzeRowPerEvent

LEMMA AppendBronzeUnique ==
    ASSUME StableTimestamps, TypeInv, UniqueInv, AppendBronze
    PROVE  UniqueInv'
<1>1. /\ stage = "bronze" /\ stage \in Running /\ stage' \in {"bronze", "dlq"}
      /\ UNCHANGED <<kafka, offsets, ctx, planned>>
      /\ bronze' = bronze \/ bronze' = bronze \cup BronzeRows
  BY DEF AppendBronze, AppendFresh, external, checkpoint, Running
<1> DEFINE R(e) == [event |-> e, ts |-> planned[e].ts, late |-> planned[e].late,
                    outcome |-> planned[e].outcome,
                    replay_of |-> planned[e].replay_of, epoch |-> ctx.epoch,
                    batch |-> Batch, snapshot |-> snapshots + 1]
<1>2. BronzeRows = {R(e) : e \in Fresh}
  BY DEF BronzeRows
<1>3. \A e : R(e).event = e /\ R(e).ts = planned[e].ts
  OBVIOUS
<1> HIDE DEF R
<1>4. \A e \in Fresh : /\ e \in DOMAIN planned
                       /\ \E x \in Valid : EventAt(x) = e /\ TsAt(x) = planned[e].ts
  BY <1>1 DEF Fresh, UniqueInv, StampInv
<1>5. ASSUME NEW e \in Fresh
      PROVE  \E b \in Body : b.event = e /\ b.ts = planned[e].ts
  <2>1. PICK x \in Valid : EventAt(x) = e /\ TsAt(x) = planned[e].ts
    BY <1>4
  <2>2. At(x).body \in Body
    BY <1>1, ValidIsChange
  <2> QED
    BY <2>1, <2>2 DEF EventAt, TsAt
<1>6. ASSUME NEW e \in Fresh, NEW row \in bronze PROVE row.event # e
  <2> SUFFICES ASSUME row.event = e PROVE FALSE
    OBVIOUS
  <2>1. PICK x \in Valid : EventAt(x) = e /\ TsAt(x) = planned[e].ts
    BY <1>4
  <2>2. row.ts = TsAt(x)
    <3>1. PICK b \in Body : b.event = row.event /\ b.ts = row.ts
      BY DEF UniqueInv, StampInv
    <3>2. PICK c \in Body : c.event = e /\ c.ts = planned[e].ts
      BY <1>5
    <3> QED
      BY <2>1, <3>1, <3>2 DEF StableTimestamps
  <2>3. row.ts \in Nat
    BY DEF TypeInv, TypeOK, BronzeRow
  <2>4. row \in BronzeLookup
    BY <2>2, <2>3 DEF BronzeLookup, InWindow
  <2> QED
    BY <2>4 DEF Fresh
<1>7. OneBronzeRowPerEvent'
  <2> SUFFICES ASSUME NEW r \in bronze', NEW q \in bronze', r.event = q.event
               PROVE  r = q
    BY DEF OneBronzeRowPerEvent
  <2>1. CASE r \in bronze /\ q \in bronze
    BY <2>1 DEF UniqueInv, OneBronzeRowPerEvent
  <2>2. CASE r \notin bronze \/ q \notin bronze
    BY <1>1, <1>2, <1>3, <1>6, <2>2
  <2> QED
    BY <2>1, <2>2
<1>8. StampInv'
  <2>1. \A row \in bronze' : \E b \in Body : b.event = row.event /\ b.ts = row.ts
    BY <1>1, <1>2, <1>3, <1>5 DEF UniqueInv, StampInv
  <2>2. Valid' = Valid /\ \A x : EventAt(x)' = EventAt(x) /\ TsAt(x)' = TsAt(x)
    BY <1>1, SameBatch DEF TsAt, At
  <2> QED
    BY <1>1, <2>1, <2>2 DEF UniqueInv, StampInv
<1> QED
  BY <1>7, <1>8 DEF UniqueInv

LEMMA PlanBatchStamps ==
    ASSUME TypeInv, UniqueInv, PlanBatch
    PROVE  UniqueInv'
<1>1. /\ stage \in Running /\ planned' = Plan
      /\ UNCHANGED <<kafka, offsets, ctx, bronze>>
  BY DEF PlanBatch, Running, external, checkpoint, lake
<1>2. Valid' = Valid /\ \A x : EventAt(x)' = EventAt(x) /\ TsAt(x)' = TsAt(x)
  BY <1>1, SameBatch DEF TsAt, At
<1>3. ASSUME NEW e \in Unique
      PROVE  \E x \in Valid : EventAt(x) = e /\ TsAt(x) = Plan[e].ts
  BY <1>1, FirstIsValid DEF Plan
<1> QED
  BY <1>1, <1>2, <1>3, PlanType DEF UniqueInv, StampInv, OneBronzeRowPerEvent

LEMMA UniqueStep ==
    ASSUME StableTimestamps, TypeInv, CoverInv, UniqueInv, [Next]_vars
    PROVE  UniqueInv'
<1>1. CASE LogAppend
  <2>1. UNCHANGED <<stage, planned, bronze>>
    BY <1>1 DEF LogAppend, process, batch, lake
  <2>2. CASE stage \in Running
    <3>1. Valid' = Valid /\ \A x \in Rows : At(x)' = At(x)
      BY <1>1, <2>2, BatchKept
    <3>2. \A x \in Valid : EventAt(x)' = EventAt(x) /\ TsAt(x)' = TsAt(x)
      BY <3>1 DEF Valid, EventAt, TsAt
    <3> QED
      BY <2>1, <3>1, <3>2 DEF UniqueInv, StampInv, OneBronzeRowPerEvent
  <2>3. CASE stage \notin Running
    BY <2>1, <2>3 DEF UniqueInv, StampInv, OneBronzeRowPerEvent, Running
  <2> QED
    BY <2>2, <2>3
<1>2. CASE PlanBatch
  BY <1>2, PlanBatchStamps
<1>3. CASE AppendBronze
  BY <1>3, AppendBronzeUnique
<1>4. CASE UNCHANGED kafka /\ ~PlanBatch /\ ~AppendBronze
  <2>1. UNCHANGED bronze
    BY <1>4, OtherStep DEF MergeSilver
  <2>2. \/ stage' \notin {"silver", "bronze"}
        \/ UNCHANGED <<offsets, ctx, planned>> /\ stage \in {"silver", "bronze"}
    BY <1>4 DEF Next, Environment, Produce, Replay, Deploy, WipeCheckpoint, Job,
       StartUp, EnsureEpoch, StartQuery, Trigger, Resume, ProcessBatch, BeginBatch,
       MergeSilver, MergeDlq, MergeRecord, CommitBatch, Crash, vars, checkpoint,
       process, batch
  <2>3. CASE UNCHANGED <<offsets, ctx, planned>> /\ stage \in {"silver", "bronze"}
    <3>1. Valid' = Valid /\ \A x : EventAt(x)' = EventAt(x) /\ TsAt(x)' = TsAt(x)
      BY <1>4, <2>3, SameBatch DEF TsAt, At
    <3> QED
      BY <2>1, <2>3, <3>1 DEF UniqueInv, StampInv, OneBronzeRowPerEvent
  <2> QED
    BY <2>1, <2>2, <2>3 DEF UniqueInv, StampInv, OneBronzeRowPerEvent
<1> QED
  BY <1>1, <1>2, <1>3, <1>4, LogStep

\* Bronze holds an event once, and the plan carries its timestamp; the window of
\* _bronze_lookup then contains every earlier row of the event (211-217).
THEOREM UniqueInvariant ==
    ASSUME StableTimestamps
    PROVE  Spec => []UniqueInv
<1>1. Init => UniqueInv
  BY DEF Init, UniqueInv, StampInv, OneBronzeRowPerEvent
<1>2. TypeInv /\ CoverInv /\ UniqueInv /\ [Next]_vars => UniqueInv'
  BY UniqueStep
<1> QED
  BY <1>1, <1>2, TypeInvariant, CoverInvariant, PTL DEF Spec

\* If a change always comes with the same timestamp, bronze holds one row per
\* change event: the anti-join of append_bronze, recomputed on every attempt,
\* finds whatever an earlier attempt, batch or lineage has appended.
THEOREM BronzeUnique ==
    ASSUME StableTimestamps
    PROVE  Spec => []OneBronzeRowPerEvent
<1>1. Spec => []UniqueInv
  BY UniqueInvariant
<1>2. UniqueInv => OneBronzeRowPerEvent
  BY DEF UniqueInv
<1> QED
  BY <1>1, <1>2, PTL

-----------------------------------------------------------------------------
(* The DLQ                                                                 *)

\* What is in the DLQ was a change, and a replay carries the same record.
OriginInv ==
    /\ \A d \in DOMAIN dlq : At(d).body.kind = "change"
    /\ \A x \in Produced : IsReplay(x) => At(x).body = At(DlqId(x)).body

LEMMA DlqInProduced == ASSUME TypeInv PROVE DOMAIN dlq \subseteq Produced
  BY DEF TypeInv, TypeOK, LogInv, Produced

LEMMA DlqStep ==
    ASSUME TypeInv, CoverInv, [Next]_vars
    PROVE  \/ UNCHANGED dlq
           \/ /\ stage = "dlq" /\ stage \in Running
              /\ UNCHANGED <<kafka, offsets, ctx, bronze, epochs, metadata>>
              /\ \E src \in DlqSources : dlq' = MergedDlq(src)
<1>1. UNCHANGED dlq \/ MergeDlq
  BY DEF Next, Environment, Produce, Replay, Deploy, WipeCheckpoint, Job, StartUp,
     EnsureEpoch, StartQuery, Trigger, Resume, ProcessBatch, BeginBatch, PlanBatch,
     MergeSilver, AppendBronze, MergeRecord, CommitBatch, Crash, lake, vars
<1>2. CASE MergeDlq
  BY <1>2 DEF MergeDlq, Running, external, checkpoint
<1> QED
  BY <1>1, <1>2

LEMMA InputIsChange ==
    ASSUME TypeInv, stage \in Running, NEW x \in DlqInput
    PROVE  At(x).body.kind = "change"
<1>1. At(x).body \in Body
  BY DlqInputType, RowIsMessage DEF Message
<1>2. At(x).body.kind \in {"change", "tombstone", "gap"}
  BY <1>1, BodyAssumption
<1>3. Status(x, ctx.registry) \in {"valid", "dlq"}
  BY DEF DlqInput, Valid, Rejected
<1> QED
  BY <1>2, <1>3 DEF Status

\* A row of the merged DLQ is new, with its own record in the batch, or as it
\* was, or answered.
LEMMA MergedDlqRows ==
    ASSUME TypeInv, stage \in Running, NEW src \in DlqSources,
           NEW d \in DOMAIN MergedDlq(src)
    PROVE  \/ /\ d \notin DOMAIN dlq /\ d \in DlqInput /\ d \in Rejected
              /\ MergedDlq(src)[d] = [status |-> "open", attempts |-> 0,
                                      last |-> NoPosition]
           \/ d \in DOMAIN dlq /\ ~Answers(d, src) /\ MergedDlq(src)[d] = dlq[d]
           \/ /\ d \in DOMAIN dlq /\ Answers(d, src)
              /\ d \in DlqIds /\ src[d] \in DlqInput /\ DlqId(src[d]) = d
              /\ MergedDlq(src)[d] = [status   |-> StatusAfter(src[d]),
                                      attempts |-> dlq[d].attempts + 1,
                                      last     |-> ReplayPosition(src[d])]
<1>1. src \in [DlqIds -> DlqInput] /\ \A c \in DlqIds : DlqId(src[c]) = c
  BY DEF DlqSources
<1>2. DOMAIN MergedDlq(src) = DOMAIN dlq \cup {c \in DlqIds : ~IsReplay(src[c])}
  BY <1>1 DEF MergedDlq
<1>3. CASE d \notin DOMAIN dlq
  <2>1. d \in DlqIds /\ ~IsReplay(src[d]) /\ src[d] \in DlqInput /\ DlqId(src[d]) = d
    BY <1>1, <1>2, <1>3
  <2>2. src[d] = d /\ d \in Rejected
    BY <2>1 DEF DlqId, DlqInput
  <2>3. MergedDlq(src)[d] = [status |-> "open", attempts |-> 0, last |-> NoPosition]
    BY <1>1, <1>2, <1>3, <2>1 DEF MergedDlq
  <2> QED
    BY <1>3, <2>1, <2>2, <2>3
<1>4. CASE d \in DOMAIN dlq /\ ~Answers(d, src)
  BY <1>2, <1>4 DEF MergedDlq
<1>5. CASE d \in DOMAIN dlq /\ Answers(d, src)
  <2>1. d \in DlqIds
    BY <1>1, <1>5 DEF Answers
  <2>2. MergedDlq(src)[d] = [status   |-> StatusAfter(src[d]),
                             attempts |-> dlq[d].attempts + 1,
                             last     |-> ReplayPosition(src[d])]
    BY <1>2, <1>5 DEF MergedDlq
  <2> QED
    BY <1>1, <1>5, <2>1, <2>2
<1> QED
  BY <1>3, <1>4, <1>5

LEMMA OriginKept ==
    ASSUME TypeInv, CoverInv, ReplayInv, OriginInv, [Next]_vars
    PROVE  OriginInv'
<1>1. CASE LogAppend
  <2>1. UNCHANGED dlq /\ DOMAIN dlq \subseteq Produced
    BY <1>1, DlqInProduced DEF LogAppend, lake
  <2>2. \A x \in Produced : x \in Produced' /\ At(x)' = At(x)
    BY <1>1, LogKept
  <2>3. ASSUME NEW x \in Produced', IsReplay(x)'
        PROVE  At(x)'.body = At(DlqId(x))'.body
    <3>1. CASE x \in Produced
      <4>1. IsReplay(x) /\ DlqId(x)' = DlqId(x) /\ DlqId(x) \in DOMAIN dlq
        BY <2>2, <2>3, <3>1 DEF IsReplay, DlqId, ReplayInv
      <4> PICK d \in DOMAIN dlq : d = DlqId(x)
        BY <4>1
      <4>2. At(d)' = At(d) /\ At(x).body = At(d).body
        BY <2>1, <2>2, <3>1, <4>1 DEF OriginInv
      <4> QED
        BY <2>2, <3>1, <4>1, <4>2 DEF At
    <3>2. CASE x \notin Produced
      <4>1. PICK d \in DOMAIN dlq : At(x)'.replay_of = d /\ At(x)'.body = At(d).body
        BY <1>1, <2>3, <3>2, LogKept DEF IsReplay
      <4>2. DlqId(x)' = d /\ At(d)' = At(d)
        BY <2>1, <2>2, <2>3, <4>1 DEF DlqId
      <4> QED
        BY <4>1, <4>2 DEF At
    <3> QED
      BY <3>1, <3>2
  <2>4. \A d \in DOMAIN dlq' : At(d)'.body.kind = "change"
    BY <2>1, <2>2 DEF OriginInv
  <2> QED
    BY <2>3, <2>4 DEF OriginInv
<1>2. CASE UNCHANGED kafka
  <2>1. \A x : At(x)' = At(x) /\ DlqId(x)' = DlqId(x) /\ IsReplay(x)' = IsReplay(x)
    BY <1>2 DEF At, DlqId, IsReplay
  <2>2. Produced' = Produced
    BY <1>2 DEF Produced
  <2>3. ASSUME NEW d \in DOMAIN dlq' PROVE At(d).body.kind = "change"
    BY DlqStep, MergedDlqRows, InputIsChange DEF OriginInv
  <2>4. \A x \in Produced' : IsReplay(x)' => At(x)'.body = At(DlqId(x))'.body
    BY <1>2, <2>1, <2>2 DEF OriginInv, At
  <2> QED
    BY <2>1, <2>3, <2>4 DEF OriginInv
<1> QED
  BY <1>1, <1>2, LogStep

\* An answer resolves a DLQ row only after bronze has taken the change in.
LEMMA ReplayedStep ==
    ASSUME TypeInv, CoverInv, DeliveryInv, OriginInv, ReplayedIsInBronze, [Next]_vars
    PROVE  ReplayedIsInBronze'
<1>1. DOMAIN dlq \subseteq Produced /\ bronze \subseteq bronze'
  BY DlqInProduced, TablesGrow
<1>2. \A x \in Produced : EventAt(x)' = EventAt(x)
  BY LogStep, LogKept DEF At, EventAt
<1>3. CASE UNCHANGED dlq
  BY <1>1, <1>2, <1>3 DEF ReplayedIsInBronze
<1>4. ASSUME stage = "dlq", stage \in Running, UNCHANGED <<kafka, bronze>>,
             NEW src \in DlqSources, dlq' = MergedDlq(src)
      PROVE  ReplayedIsInBronze'
  <2> SUFFICES ASSUME NEW d \in DOMAIN dlq', dlq'[d].status = "replayed"
               PROVE  \E row \in bronze : row.event = EventAt(d)
    BY <1>4 DEF ReplayedIsInBronze, EventAt, At
  <2>1. CASE d \in DOMAIN dlq /\ dlq'[d] = dlq[d]
    BY <2>1 DEF ReplayedIsInBronze
  <2>2. CASE ~(d \in DOMAIN dlq /\ dlq'[d] = dlq[d])
    <3> DEFINE x == src[d]
    <3>1. /\ Answers(d, src) /\ x \in DlqInput /\ DlqId(x) = d
          /\ dlq'[d].status = StatusAfter(x)
      BY <1>4, <2>2, MergedDlqRows
    <3>2. x \in Valid
      BY <3>1 DEF StatusAfter, DlqInput
    <3>3. InBronze(EventAt(x))
      BY <1>4, <3>2 DEF DeliveryInv, WrittenInv
    <3>4. x \in Produced /\ IsReplay(x)
      BY <1>4, <3>1, DlqInputType, RowIsMessage DEF Produced, Answers
    <3>5. EventAt(x) = EventAt(d)
      BY <3>1, <3>4 DEF OriginInv, EventAt
    <3> QED
      BY <3>3, <3>5 DEF InBronze
  <2> QED
    BY <2>1, <2>2
<1> QED
  BY <1>3, <1>4, DlqStep

\* Before the first start nothing is produced and nothing consumed.
LEMMA DeliveryStep ==
    ASSUME TypeInv, CoverInv, DeliveryInv, OriginInv, [Next]_vars
    PROVE  DeliveryInv' /\ OriginInv'
  BY ReplayKept, WritesKept, NothingLostStep, OriginKept DEF DeliveryInv

\* A DLQ row is marked replayed only when its change is in bronze: a replay
\* carries the record of the row it answers, and the DLQ is merged after the
\* event tables (process_batch 520, 526-533).
THEOREM ReplayedInBronze == Spec => []ReplayedIsInBronze
<1>1. Init => DeliveryInv /\ OriginInv /\ ReplayedIsInBronze
  BY DeliveryInit, EmptyLog DEF Init, OriginInv, ReplayedIsInBronze
<1>2. TypeInv /\ CoverInv /\ DeliveryInv /\ OriginInv /\ ReplayedIsInBronze /\ [Next]_vars
        => (DeliveryInv /\ OriginInv /\ ReplayedIsInBronze)'
  BY DeliveryStep, ReplayedStep
<1> QED
  BY <1>1, <1>2, TypeInvariant, CoverInvariant, PTL DEF Spec

\* The replay position of a DLQ row only moves forward, and every move counts
\* one attempt (DLQ_MERGE 395-408).
THEOREM DlqForward == Spec => DlqMovesForward
<1>1. TypeInv /\ CoverInv /\ [Next]_vars =>
        [\A d \in DOMAIN dlq :
          /\ d \in DOMAIN dlq'
          /\ \/ dlq'[d] = dlq[d]
             \/ /\ After(dlq'[d].last, dlq[d].last)
                /\ dlq'[d].attempts = dlq[d].attempts + 1]_vars
  <2> SUFFICES ASSUME TypeInv, CoverInv, [Next]_vars, NEW d \in DOMAIN dlq
               PROVE  /\ d \in DOMAIN dlq'
                      /\ \/ dlq'[d] = dlq[d]
                         \/ /\ After(dlq'[d].last, dlq[d].last)
                            /\ dlq'[d].attempts = dlq[d].attempts + 1
    OBVIOUS
  <2>1. d \in DOMAIN dlq'
    BY TablesGrow
  <2>2. CASE UNCHANGED dlq
    BY <2>2
  <2>3. ASSUME stage \in Running, NEW src \in DlqSources, dlq' = MergedDlq(src)
        PROVE  \/ dlq'[d] = dlq[d]
               \/ /\ After(dlq'[d].last, dlq[d].last)
                  /\ dlq'[d].attempts = dlq[d].attempts + 1
    BY <2>1, <2>3, MergedDlqRows DEF Answers
  <2> QED
    BY <2>1, <2>2, <2>3, DlqStep
<1> QED
  BY <1>1, TypeInvariant, CoverInvariant, PTL DEF Spec, DlqMovesForward

-----------------------------------------------------------------------------
(* Replays are answered.  Within the first lineage a replay is never in    *)
(* the batch of the record it answers: it is produced when that record is  *)
(* in the DLQ, and then the batch of the record has its offsets.           *)

Ordered ==
    /\ \A d \in DOMAIN dlq : offsets # <<>> /\ d[2] <= To(d[1])
    /\ \A x \in Produced : IsReplay(x) /\ offsets # <<>> /\ x[2] <= To(x[1]) =>
          At(x).replay_of[2] <= From(At(x).replay_of[1])

LineageInv ==
    /\ ~metadata => offsets = <<>> /\ commits = 0
    /\ stage \notin {"down", "booted"} => metadata
    /\ epochs = 0 => stage = "down" /\ DOMAIN dlq = {} /\ ~metadata
    /\ epochs <= 1 /\ (metadata \/ stage = "booted") => Ordered

Answered(x) == ~After(ReplayPosition(x), dlq[DlqId(x)].last)

AnsweredInv ==
    epochs <= 1 =>
        /\ stage \in {"record", "commit"} => \A x \in Rows : IsReplay(x) => Answered(x)
        /\ \A x \in Coordinates : Committed(x) /\ IsReplay(x) => Answered(x)

\* The ends of the running batch, once there is one.
LEMMA EndsType ==
    ASSUME TypeInv, offsets # <<>>
    PROVE  /\ Len(offsets) \in Nat \ {0}
           /\ \A p \in Partition : /\ To(p) \in 0..MaxOffset /\ From(p) \in 0..MaxOffset
                                  /\ To(p) <= Len(kafka[p])
<1>1. offsets \in Seq([Partition -> 0..MaxOffset]) /\ Len(offsets) \in Nat \ {0}
  BY EmptySeq DEF TypeInv, TypeOK
<1>2. offsets[Len(offsets)] \in [Partition -> 0..MaxOffset]
  <2>1. Len(offsets) \in 1..Len(offsets)
    BY <1>1
  <2> QED
    BY <1>1, <2>1, ElementOfSeq
<1>3. Len(offsets) # 1 => offsets[Len(offsets) - 1] \in [Partition -> 0..MaxOffset]
  <2> PICK n \in Nat \ {0} : n = Len(offsets)
    BY <1>1
  <2>1. n # 1 => n - 1 \in 1..n
    OBVIOUS
  <2> QED
    BY <1>1, <2>1, ElementOfSeq
<1>4. \A p \in Partition : To(p) <= Len(kafka[p])
  BY <1>1 DEF TypeInv, LogInv, To
<1> QED
  BY <1>1, <1>2, <1>3, <1>4, BoundAssumption DEF To, From

\* Neither the log nor the offsets nor the DLQ change.
LEMMA OrderKept ==
    ASSUME Ordered, UNCHANGED <<kafka, offsets, dlq>>
    PROVE  Ordered'
<1>1. /\ Produced' = Produced
      /\ \A x : /\ At(x)' = At(x) /\ IsReplay(x)' = IsReplay(x)
                /\ To(x[1])' = To(x[1]) /\ From(x[1])' = From(x[1])
      /\ \A x : From(At(x).replay_of[1])' = From(At(x).replay_of[1])
  BY DEF Produced, At, IsReplay, To, From
<1> QED
  BY <1>1 DEF Ordered, To, From, At

\* A record that is appended is beyond all offsets.
LEMMA AppendKeepsOrder ==
    ASSUME TypeInv, Ordered, LogAppend
    PROVE  Ordered'
<1>1. UNCHANGED <<offsets, dlq>>
  BY DEF LogAppend, checkpoint, lake
<1>2. \A p : To(p)' = To(p) /\ From(p)' = From(p)
  BY <1>1 DEF To, From
<1>3. /\ \A x \in Produced : x \in Produced' /\ At(x)' = At(x)
  BY LogKept
<1>4. ASSUME NEW x \in Produced', offsets # <<>>, x[2] <= To(x[1])
      PROVE  x \in Produced
  <2>1. x \in Coordinates /\ x[1] \in Partition /\ x[2] \in 1..MaxOffset
    BY DEF Produced, Coordinates
  <2>2. To(x[1]) \in 0..MaxOffset /\ To(x[1]) <= Len(kafka[x[1]])
    BY <1>4, <2>1, EndsType
  <2>3. Len(kafka[x[1]]) \in Nat
    BY <2>1, LenProperties DEF TypeInv, TypeOK
  <2> QED
    BY <1>4, <2>1, <2>2, <2>3, BoundAssumption DEF Produced
<1>5. ASSUME NEW x \in Produced', IsReplay(x)', offsets # <<>>, x[2] <= To(x[1])
      PROVE  At(x)'.replay_of[2] <= From(At(x)'.replay_of[1])
  BY <1>3, <1>4, <1>5 DEF Ordered, IsReplay
<1>6. \A x : From(At(x).replay_of[1])' = From(At(x)'.replay_of[1])
  BY <1>1 DEF From, At
<1> QED
  BY <1>1, <1>2, <1>5, <1>6 DEF Ordered

\* The next batch begins where the last one ends, beyond all that is in the DLQ.
LEMMA TriggerKeepsOrder ==
    ASSUME TypeInv, ReplayInv, Ordered, Trigger
    PROVE  Ordered'
<1>1. PICK to \in [Partition -> 0..MaxOffset] :
        /\ \A p \in Partition : Start(p) <= to[p]
        /\ offsets' = Append(offsets, to)
  BY DEF Trigger
<1>2. UNCHANGED <<kafka, dlq>> /\ offsets \in Seq([Partition -> 0..MaxOffset])
  BY DEF Trigger, external, lake, TypeInv, TypeOK
<1>3. /\ Len(offsets') = Len(offsets) + 1 /\ Len(offsets) \in Nat
      /\ offsets'[Len(offsets) + 1] = to
      /\ \A i \in 1..Len(offsets) : offsets'[i] = offsets[i]
  BY <1>1, <1>2, AppendProperties
<1>4. offsets # <<>> => Len(offsets) # 0 /\ offsets' # <<>>
  BY <1>1, <1>2, <1>3, EmptySeq
<1>5. ASSUME NEW d \in DOMAIN dlq
      PROVE  offsets' # <<>> /\ d[2] <= To(d[1])' /\ d[2] <= From(d[1])'
  <2>1. offsets # <<>> /\ d[2] <= To(d[1]) /\ d[1] \in Partition /\ d[2] \in 1..MaxOffset
    BY DEF Ordered, TypeInv, TypeOK, Coordinates
  <2>2. From(d[1])' = To(d[1]) /\ Start(d[1]) = To(d[1]) /\ To(d[1])' = to[d[1]]
    BY <1>3, <1>4, <2>1 DEF From, To, Start
  <2>3. To(d[1]) \in 0..MaxOffset /\ To(d[1]) <= to[d[1]] /\ to[d[1]] \in 0..MaxOffset
    BY <1>1, <2>1, <2>2, EndsType
  <2> QED
    BY <1>4, <2>1, <2>2, <2>3, BoundAssumption
<1>6. ASSUME NEW x \in Produced, IsReplay(x)
      PROVE  At(x).replay_of[2] <= From(At(x).replay_of[1])'
  <2>1. PICK d \in DOMAIN dlq : d = At(x).replay_of
    BY <1>6 DEF ReplayInv
  <2>2. At(x)' = At(x)
    BY <1>2 DEF At
  <2> QED
    BY <1>5, <2>1, <2>2
<1>7. /\ Produced' = Produced
      /\ \A x : At(x)' = At(x) /\ IsReplay(x)' = IsReplay(x)
  BY <1>2 DEF Produced, At, IsReplay
<1> QED
  BY <1>2, <1>5, <1>6, <1>7 DEF Ordered

\* The DLQ takes in records of the running batch.
LEMMA MergeKeepsOrder ==
    ASSUME TypeInv, Ordered, stage \in Running, UNCHANGED <<kafka, offsets>>,
           NEW src \in DlqSources, dlq' = MergedDlq(src)
    PROVE  Ordered'
<1>1. offsets # <<>>
  BY DEF TypeInv, TypeOK, LogInv
<1>2. ASSUME NEW d \in DOMAIN dlq' PROVE d[2] <= To(d[1])
  <2>1. d \in DOMAIN dlq \/ d \in Rows
    BY MergedDlqType
  <2> QED
    BY <2>1 DEF Ordered, Rows
<1>3. /\ Produced' = Produced
      /\ \A x : At(x)' = At(x) /\ IsReplay(x)' = IsReplay(x)
      /\ \A p : To(p)' = To(p) /\ From(p)' = From(p)
  BY DEF Produced, At, IsReplay, To, From
<1>4. \A x : From(At(x).replay_of[1])' = From(At(x).replay_of[1])
  BY DEF From, At
<1> QED
  BY <1>1, <1>2, <1>3, <1>4 DEF Ordered

LEMMA LineageStep ==
    ASSUME TypeInv, CoverInv, ReplayInv, LineageInv, [Next]_vars
    PROVE  LineageInv'
<1>1. CASE LogAppend
  <2>1. UNCHANGED <<metadata, offsets, commits, stage, epochs, dlq>>
    BY <1>1 DEF LogAppend, checkpoint, process, lake
  <2> QED
    BY <1>1, <2>1, AppendKeepsOrder DEF LineageInv
<1>2. ASSUME UNCHANGED kafka PROVE LineageInv'
  <2>1. CASE WipeCheckpoint
    BY <2>1 DEF WipeCheckpoint, LineageInv, lake, process
  <2>2. CASE EnsureEpoch
    <3>1. /\ stage' = "booted" /\ UNCHANGED <<metadata, offsets, commits, dlq>>
          /\ epochs' = IF EpochKept THEN epochs ELSE epochs + 1
      BY <2>2 DEF EnsureEpoch, lake
    <3>2. CASE epochs' <= 1 /\ ~EpochKept
      <4>1. epochs = 0 /\ DOMAIN dlq = {}
        BY <3>1, <3>2 DEF LineageInv, TypeInv, TypeOK
      <4>2. \A x \in Produced : ~IsReplay(x)
        BY <4>1 DEF ReplayInv
      <4>3. Ordered
        BY <4>1, <4>2 DEF Ordered
      <4> QED
        BY <1>2, <3>1, <3>2, <4>1, <4>3, OrderKept DEF LineageInv
    <3>3. CASE EpochKept
      <4>1. metadata /\ epochs' = epochs /\ epochs # 0
        BY <3>1, <3>3 DEF EpochKept, LineageInv
      <4> QED
        BY <1>2, <3>1, <4>1, OrderKept DEF LineageInv
    <3>4. CASE ~(epochs' <= 1) /\ ~EpochKept
      BY <3>1, <3>4 DEF LineageInv
    <3> QED
      BY <3>2, <3>3, <3>4
  <2>3. CASE StartQuery
    <3>1. /\ stage = "booted" /\ stage' = "idle" /\ metadata'
          /\ UNCHANGED <<offsets, commits, dlq, epochs>>
      BY <2>3 DEF StartQuery, lake
    <3> QED
      BY <1>2, <3>1, OrderKept DEF LineageInv
  <2>4. CASE Trigger
    <3>1. /\ stage = "idle" /\ stage' = "begin" /\ UNCHANGED <<metadata, commits, dlq, epochs>>
      BY <2>4 DEF Trigger, lake
    <3> QED
      BY <2>4, <3>1, TriggerKeepsOrder DEF LineageInv
  <2>5. CASE ~ UNCHANGED dlq
    <3>1. /\ stage = "dlq" /\ stage \in Running /\ UNCHANGED <<offsets, epochs, metadata>>
          /\ \E src \in DlqSources : dlq' = MergedDlq(src)
      BY <2>5, DlqStep
    <3>2. UNCHANGED commits /\ stage' \notin {"down", "booted"}
      BY <2>5, <3>1 DEF Next, Environment, Produce, Replay, Deploy, WipeCheckpoint, Job,
         StartUp, EnsureEpoch, StartQuery, Trigger, Resume, ProcessBatch, BeginBatch,
         PlanBatch, MergeSilver, AppendBronze, MergeDlq, MergeRecord, CommitBatch, Crash,
         lake, vars, checkpoint
    <3>3. metadata /\ epochs # 0
      BY <3>1 DEF LineageInv
    <3>4. epochs <= 1 => Ordered'
      BY <1>2, <3>1, <3>3, MergeKeepsOrder DEF LineageInv
    <3> QED
      BY <3>1, <3>2, <3>3, <3>4 DEF LineageInv
  <2>6. CASE Crash
    <3>1. /\ stage # "down" /\ stage' = "down"
          /\ UNCHANGED <<metadata, offsets, commits, dlq, epochs>>
      BY <2>6 DEF Crash, checkpoint, lake
    <3> QED
      BY <1>2, <3>1, OrderKept DEF LineageInv
  <2>7. CASE /\ stage \notin {"down", "booted"} /\ stage' \notin {"down", "booted"}
             /\ UNCHANGED <<metadata, offsets, epochs, dlq>>
    BY <1>2, <2>7, OrderKept DEF LineageInv
  <2>8. CASE UNCHANGED <<metadata, offsets, commits, stage, epochs, dlq>>
    BY <1>2, <2>8, OrderKept DEF LineageInv
  <2>9. CASE Resume \/ ProcessBatch
    <3>1. /\ stage \notin {"down", "booted"} /\ stage' \notin {"down", "booted"}
          /\ UNCHANGED <<metadata, offsets, epochs>>
      BY <2>9 DEF Resume, ProcessBatch, BeginBatch, PlanBatch, MergeSilver, AppendBronze,
         MergeDlq, MergeRecord, CommitBatch, checkpoint
    <3> QED
      BY <2>5, <2>7, <3>1
  <2>10. CASE UNCHANGED vars
    BY <2>8, <2>10 DEF vars, checkpoint, lake, process
  <2>11. CASE Deploy
    BY <2>8, <2>11 DEF Deploy, checkpoint, lake, process
  <2>12. CASE \/ \E p \in Partition \ Replays, b \in Body : Produce(p, b)
              \/ \E p \in Replays, d \in DOMAIN dlq : Replay(p, d)
    BY <2>8, <2>12 DEF Produce, Replay, checkpoint, lake, process
  <2> QED
    BY <2>1, <2>2, <2>3, <2>4, <2>6, <2>9, <2>10, <2>11, <2>12
    DEF Next, Environment, Job, StartUp
<1> QED
  BY <1>1, <1>2, LogStep

LEMMA PositionType ==
    ASSUME TypeInv, NEW x \in Produced
    PROVE  ReplayPosition(x) \in Nat \X Nat
<1>1. x[1] \in Partition /\ x[2] \in 1..MaxOffset
  BY DEF Produced, Coordinates
<1>2. x[2] \in Nat
  BY <1>1, BoundAssumption
<1>3. Number[x[1]] \in Nat
  BY <1>1, LogAssumption
<1> QED
  BY <1>2, <1>3 DEF ReplayPosition

LEMMA AfterOrder ==
    ASSUME NEW a \in Nat \X Nat, NEW b \in Nat \X Nat, NEW c \in Nat \X Nat
    PROVE  /\ ~After(a, a)
           /\ ~After(a, b) /\ ~After(b, c) => ~After(a, c)
           /\ ~After(a, b) /\ After(c, b) => ~After(a, c)
  BY DEF After

LEMMA LastType ==
    ASSUME TypeInv, NEW d \in DOMAIN dlq
    PROVE  dlq[d].last \in Nat \X Nat
  BY DEF TypeInv, TypeOK, DlqRow

\* An answer stays one.
LEMMA AnsweredKept ==
    ASSUME TypeInv, TypeInv', CoverInv, ReplayInv, [Next]_vars,
           NEW x \in Produced, IsReplay(x), Answered(x)
    PROVE  Answered(x)'
<1>1. At(x)' = At(x)
  BY LogStep, LogKept DEF At
<1>2. /\ DlqId(x)' = DlqId(x) /\ ReplayPosition(x)' = ReplayPosition(x)
  BY <1>1 DEF DlqId, IsReplay, ReplayPosition
<1> PICK d : d = DlqId(x)
  OBVIOUS
<1>3. d \in DOMAIN dlq /\ d \in DOMAIN dlq'
  BY TablesGrow DEF ReplayInv, DlqId
<1>4. /\ dlq[d].last \in Nat \X Nat /\ dlq'[d].last \in Nat \X Nat
      /\ ReplayPosition(x) \in Nat \X Nat
  BY <1>3, LastType, PositionType DEF TypeInv, TypeOK, DlqRow
<1>5. dlq'[d] = dlq[d] \/ After(dlq'[d].last, dlq[d].last)
  <2>1. ASSUME stage \in Running, NEW src \in DlqSources, dlq' = MergedDlq(src)
        PROVE  dlq'[d] = dlq[d] \/ After(dlq'[d].last, dlq[d].last)
    BY <1>3, <2>1, MergedDlqRows DEF Answers
  <2> QED
    BY <2>1, DlqStep
<1>6. ~After(ReplayPosition(x), dlq'[d].last)
  BY <1>4, <1>5, AfterOrder DEF Answered
<1> QED
  BY <1>2, <1>6 DEF Answered

\* The merge answers all replays of the batch: for each row the newest one is
\* taken, and no original record takes its place.
LEMMA MergeAnswers ==
    ASSUME TypeInv, CoverInv, ReplayInv, OriginInv, Ordered, stage \in Running,
           NEW src \in DlqSources, NEW x \in Rows, IsReplay(x)
    PROVE  ~After(ReplayPosition(x), MergedDlq(src)[DlqId(x)].last)
<1> DEFINE d == DlqId(x)
           y == src[d]
<1>1. x \in Produced
  BY RowIsMessage DEF Produced
<1>2. d \in DOMAIN dlq /\ d \in Produced /\ d = At(x).replay_of
  BY <1>1, DlqInProduced DEF ReplayInv, DlqId
<1>3. x \in DlqInput
  <2>1. At(x).body.kind = "change"
    BY <1>1, <1>2 DEF OriginInv
  <2>2. x \in Valid \/ x \in Rejected
    BY <2>1 DEF Valid, Rejected, Status
  <2> QED
    BY <2>2 DEF DlqInput
<1>4. /\ d \in DOMAIN src /\ y \in DlqInput /\ DlqId(y) = d
      /\ ~After(ReplayPosition(x), ReplayPosition(y))
  BY <1>3 DEF DlqSources, DlqIds
<1>5. y \in Rows /\ y \in Produced
  BY <1>4, DlqInputType, RowIsMessage DEF Produced
<1>6. IsReplay(y)
  <2> SUFFICES ASSUME ~IsReplay(y) PROVE FALSE
    OBVIOUS
  <2>1. y = d
    BY <1>4 DEF DlqId
  <2>2. From(d[1]) < d[2]
    BY <1>5, <2>1 DEF Rows
  <2>3. offsets # <<>> /\ x[2] <= To(x[1])
    BY DEF TypeInv, TypeOK, LogInv, Rows
  <2>4. d[2] <= From(d[1])
    BY <1>1, <1>2, <2>3 DEF Ordered
  <2>5. From(d[1]) \in Int /\ d[2] \in Int
    BY <1>2, <2>3, EndsType, BoundAssumption DEF Produced, Coordinates
  <2> HIDE DEF d
  <2> QED
    BY <2>2, <2>4, <2>5
<1>7. /\ ReplayPosition(x) \in Nat \X Nat /\ ReplayPosition(y) \in Nat \X Nat
      /\ dlq[d].last \in Nat \X Nat
  BY <1>1, <1>2, <1>5, PositionType, LastType
<1>8. CASE Answers(d, src)
  <2>1. MergedDlq(src)[d].last = ReplayPosition(y)
    BY <1>2, <1>8, MergedDlqType, MergedDlqRows
  <2> QED
    BY <1>4, <2>1
<1>9. CASE ~Answers(d, src)
  <2>1. ~After(ReplayPosition(y), dlq[d].last)
    BY <1>4, <1>6, <1>9 DEF Answers
  <2>2. MergedDlq(src)[d] = dlq[d]
    BY <1>2, <1>9, MergedDlqType, MergedDlqRows
  <2>3. ~After(ReplayPosition(x), dlq[d].last)
    BY <1>4, <1>7, <2>1, AfterOrder
  <2> QED
    BY <2>2, <2>3
<1> QED
  BY <1>8, <1>9

\* CommitBatch commits what the merge has answered.
LEMMA CommitAnswers ==
    ASSUME TypeInv, ReplayInv, OriginInv, AnsweredInv, epochs <= 1, CommitBatch,
           NEW x \in Coordinates, Committed(x)', IsReplay(x)
    PROVE  Answered(x)
<1>1. /\ stage = "commit" /\ commits' = Len(offsets) /\ Len(offsets) = commits + 1
      /\ UNCHANGED offsets /\ commits \in Nat /\ offsets # <<>>
  BY DEF CommitBatch, TypeInv, TypeOK, LogInv, Running
<1>2. x[2] <= To(x[1]) /\ x[1] \in Partition /\ x[2] \in 1..MaxOffset
  BY <1>1 DEF Committed, To, Coordinates
<1>3. From(x[1]) \in 0..MaxOffset
  BY <1>1, <1>2, EndsType
<1>4. CASE x[2] <= From(x[1])
  <2>1. Len(offsets) # 1
    BY <1>2, <1>4, BoundAssumption DEF From
  <2>2. commits > 0 /\ From(x[1]) = offsets[commits][x[1]]
    BY <1>1, <2>1 DEF From
  <2> QED
    BY <1>4, <2>2 DEF AnsweredInv, Committed
<1>5. CASE From(x[1]) < x[2]
  <2>1. x \in Produced
    <3>1. To(x[1]) \in 0..MaxOffset /\ To(x[1]) <= Len(kafka[x[1]])
      BY <1>1, <1>2, EndsType
    <3>2. Len(kafka[x[1]]) \in Nat
      BY <1>2, LenProperties DEF TypeInv, TypeOK
    <3> QED
      BY <1>2, <3>1, <3>2, BoundAssumption DEF Produced
  <2>2. At(x).body.kind = "change"
    BY <2>1 DEF OriginInv, ReplayInv, DlqId
  <2>3. x \in Rows
    BY <1>2, <1>5, <2>2 DEF Rows
  <2> QED
    BY <1>1, <2>3 DEF AnsweredInv
<1> QED
  BY <1>2, <1>3, <1>4, <1>5, BoundAssumption

LEMMA AnsweredStep ==
    ASSUME TypeInv, TypeInv', CoverInv, ReplayInv, OriginInv, LineageInv, AnsweredInv,
           [Next]_vars
    PROVE  AnsweredInv'
<1> SUFFICES ASSUME epochs' <= 1 PROVE AnsweredInv'
  BY DEF AnsweredInv
<1>1. epochs <= 1
  <2>1. epochs \in Nat
    BY DEF TypeInv, TypeOK
  <2>2. epochs' = epochs \/ epochs' = epochs + 1
    BY DEF Next, Environment, Produce, Replay, Deploy, WipeCheckpoint, Job, StartUp,
       EnsureEpoch, StartQuery, Trigger, Resume, ProcessBatch, BeginBatch, PlanBatch,
       MergeSilver, AppendBronze, MergeDlq, MergeRecord, CommitBatch, Crash, vars
  <2> QED
    BY <2>1, <2>2
<1>2. ASSUME NEW x \in Coordinates, Committed(x)', IsReplay(x)'
      PROVE  Answered(x)'
  <2>1. CASE CommitBatch
    <3>1. UNCHANGED <<kafka, dlq>>
      BY <2>1 DEF CommitBatch, external, lake
    <3>2. At(x)' = At(x)
      BY <3>1 DEF At
    <3>3. IsReplay(x)
      BY <1>2, <3>2 DEF IsReplay
    <3>4. Answered(x)
      BY <1>1, <1>2, <2>1, <3>3, CommitAnswers
    <3> QED
      BY <3>1, <3>2, <3>4 DEF Answered, DlqId, IsReplay, ReplayPosition
  <2>2. CASE ~CommitBatch
    <3>1. Committed(x) /\ x \in Produced
      BY <1>2, <2>2, CommittedBefore, CommittedProduced
    <3>2. At(x)' = At(x)
      BY <3>1, LogStep, LogKept DEF At
    <3>3. IsReplay(x)
      BY <1>2, <3>2 DEF IsReplay
    <3> QED
      BY <1>1, <3>1, <3>3, AnsweredKept DEF AnsweredInv
  <2> QED
    BY <2>1, <2>2
<1>3. ASSUME stage' \in {"record", "commit"}, NEW x \in Rows', IsReplay(x)'
      PROVE  Answered(x)'
  <2>1. CASE MergeDlq
    <3>1. /\ stage = "dlq" /\ stage \in Running
          /\ UNCHANGED <<kafka, offsets>>
          /\ \/ DlqInput = {} /\ UNCHANGED dlq
             \/ \E src \in DlqSources : dlq' = MergedDlq(src)
      BY <1>3, <2>1 DEF MergeDlq, Running, external, checkpoint
    <3>2. At(x)' = At(x) /\ x \in Rows
      BY <3>1 DEF At, Rows, To, From
    <3>3. IsReplay(x)
      BY <1>3, <3>2 DEF IsReplay
    <3>4. Ordered
      BY <1>1, <3>1 DEF LineageInv
    <3>5. DlqInput # {}
      <4>1. x \in Produced
        BY <3>1, <3>2, RowIsMessage DEF Produced
      <4>2. At(x).body.kind = "change"
        BY <3>3, <4>1 DEF OriginInv, ReplayInv, DlqId
      <4>3. Status(x, ctx.registry) \in {"valid", "dlq"}
        BY <4>2 DEF Status
      <4>4. x \in Valid \/ x \in Rejected
        BY <3>2, <4>3 DEF Valid, Rejected
      <4> QED
        BY <3>3, <4>4 DEF DlqInput
    <3>6. ~After(ReplayPosition(x), dlq'[DlqId(x)].last)
      BY <3>1, <3>2, <3>3, <3>4, <3>5, MergeAnswers
    <3> QED
      BY <3>2, <3>6 DEF Answered, DlqId, IsReplay, ReplayPosition
  <2>2. CASE BeginBatch
    <3>1. Rows' = Rows /\ Rows = {}
      BY <1>3, <2>2 DEF BeginBatch, Rows, To, From, At, external, checkpoint
    <3> QED
      BY <1>3, <3>1
  <2>3. CASE ~MergeDlq /\ ~BeginBatch
    <3>1. stage \in {"record", "commit"} /\ UNCHANGED offsets
      BY <1>3, <2>3 DEF Next, Environment, Produce, Replay, Deploy, WipeCheckpoint, Job,
         StartUp, EnsureEpoch, StartQuery, Trigger, Resume, ProcessBatch, PlanBatch,
         MergeSilver, AppendBronze, MergeRecord, CommitBatch, Crash, vars, process,
         checkpoint
    <3>2. x \in Rows
      <4>1. CASE LogAppend
        BY <1>3, <3>1, <4>1, BatchKept DEF Running
      <4>2. CASE UNCHANGED kafka
        BY <3>1, <4>2 DEF Rows, To, From, At
      <4> QED
        BY <4>1, <4>2, LogStep
    <3>3. x \in Produced
      BY <3>1, <3>2, RowIsMessage DEF Produced, Running
    <3>4. IsReplay(x)
      BY <1>3, <3>3, LogStep, LogKept DEF IsReplay, At
    <3> QED
      BY <1>1, <3>1, <3>2, <3>3, <3>4, AnsweredKept DEF AnsweredInv
  <2> QED
    BY <2>1, <2>2, <2>3
<1> QED
  BY <1>2, <1>3 DEF AnsweredInv

DlqInv == DeliveryInv /\ OriginInv /\ LineageInv /\ AnsweredInv

\* The inductive invariant behind the DLQ: what is written before which stage,
\* what a replay answers, and what a lineage has planned (process_batch 501-583).
THEOREM DlqInvariant == Spec => []DlqInv
<1>1. ASSUME Init PROVE DlqInv
  <2>1. DeliveryInv /\ Produced = {}
    BY <1>1, DeliveryInit, EmptyLog
  <2> QED
    BY <1>1, <2>1 DEF Init, DlqInv, OriginInv, LineageInv, AnsweredInv, Committed
<1>2. TypeInv /\ TypeInv' /\ CoverInv /\ DlqInv /\ [Next]_vars => DlqInv'
  BY DeliveryStep, LineageStep, AnsweredStep DEF DeliveryInv, DlqInv
<1> QED
  BY <1>1, <1>2, TypeInvariant, CoverInvariant, PTL DEF Spec

\* As long as the checkpoint is never lost, every committed replay has been
\* counted on the DLQ row it answers, or a newer one has.
THEOREM ReplaysAnswered == Spec => []ReplaysAreAnswered
<1>1. DlqInv => ReplaysAreAnswered
  BY DEF DlqInv, AnsweredInv, Answered, ReplaysAreAnswered
<1> QED
  BY <1>1, DlqInvariant, PTL


-----------------------------------------------------------------------------
(* Attempts.  A replay counts once: when it is counted, the row's position *)
(* moves to it, and what is not after that position counts no more.        *)

Counted(d) == {x \in Produced : /\ At(x).replay_of = d
                                /\ ~After(ReplayPosition(x), dlq[d].last)}

AttemptsInv == \A d \in DOMAIN dlq : dlq[d].attempts <= Cardinality(Counted(d))

LEMMA CoordinatesAreFinite ==
    ASSUME IsFiniteSet(Partition), NEW T \in SUBSET Coordinates
    PROVE  IsFiniteSet(T) /\ Cardinality(T) \in Nat
<1>1. IsFiniteSet(1..MaxOffset)
  <2>1. 1 \in Int /\ MaxOffset \in Int
    BY BoundAssumption
  <2> QED
    BY <2>1, FS_Interval
<1>2. IsFiniteSet(Coordinates)
  BY <1>1, FS_Product DEF Coordinates
<1>3. IsFiniteSet(T)
  BY <1>2, FS_Subset
<1> QED
  BY <1>3, FS_CardinalityType

LEMMA AttemptsStep ==
    ASSUME IsFiniteSet(Partition), TypeInv, TypeInv', CoverInv, AttemptsInv, [Next]_vars
    PROVE  AttemptsInv'
<1>1. \A d : Counted(d) \in SUBSET Coordinates /\ Counted(d)' \in SUBSET Coordinates
  BY DEF Counted, Produced, Coordinates
<1>2. ASSUME NEW d \in DOMAIN dlq, Produced \subseteq Produced',
             \A x \in Produced : At(x)' = At(x), dlq'[d] = dlq[d]
      PROVE  dlq'[d].attempts <= Cardinality(Counted(d)')
  <2>1. Counted(d) \in SUBSET Counted(d)'
    BY <1>2 DEF Counted, ReplayPosition
  <2>2. IsFiniteSet(Counted(d)') /\ Cardinality(Counted(d)') \in Nat
    BY <1>1, CoordinatesAreFinite
  <2>3. Cardinality(Counted(d)) <= Cardinality(Counted(d)') /\ Cardinality(Counted(d)) \in Nat
    BY <1>1, <2>1, <2>2, FS_Subset, CoordinatesAreFinite
  <2>4. dlq[d].attempts \in Nat
    BY DEF TypeInv, TypeOK, DlqRow
  <2> QED
    BY <1>2, <2>2, <2>3, <2>4 DEF AttemptsInv
<1>3. CASE LogAppend
  <2>1. UNCHANGED dlq /\ Produced \subseteq Produced' /\ \A x \in Produced : At(x)' = At(x)
    BY <1>3, LogKept DEF LogAppend, lake
  <2> QED
    BY <1>2, <2>1 DEF AttemptsInv
<1>4. CASE UNCHANGED <<kafka, dlq>>
  <2>1. Produced \subseteq Produced' /\ \A x \in Produced : At(x)' = At(x)
    BY <1>4 DEF Produced, At
  <2> QED
    BY <1>2, <1>4, <2>1 DEF AttemptsInv
<1>5. ASSUME stage \in Running, UNCHANGED kafka, NEW src \in DlqSources,
             dlq' = MergedDlq(src), NEW d \in DOMAIN dlq'
      PROVE  dlq'[d].attempts <= Cardinality(Counted(d)')
  <2>1. Produced' = Produced /\ \A x : At(x)' = At(x) /\ ReplayPosition(x)' = ReplayPosition(x)
    BY <1>5 DEF Produced, At, ReplayPosition
  <2>2. CASE d \notin DOMAIN dlq
    <3>1. dlq'[d].attempts = 0
      BY <1>5, <2>2, MergedDlqRows
    <3> QED
      BY <1>1, <3>1, CoordinatesAreFinite
  <2>3. CASE d \in DOMAIN dlq /\ dlq'[d] = dlq[d]
    BY <1>2, <2>1, <2>3
  <2>4. CASE d \in DOMAIN dlq /\ Answers(d, src)
    <3> PICK x : x = src[d]
      OBVIOUS
    <3>1. /\ x \in DlqInput /\ DlqId(x) = d
          /\ dlq'[d].attempts = dlq[d].attempts + 1
          /\ dlq'[d].last = ReplayPosition(x)
      BY <1>5, <2>4, MergedDlqRows
    <3>2. /\ IsReplay(x) /\ After(ReplayPosition(x), dlq[d].last)
          /\ At(x).replay_of = d
      BY <2>4, <3>1 DEF Answers, DlqId
    <3>3. x \in Produced
      <4>1. x \in Rows
        BY <1>5, <3>1, DlqInputType
      <4> QED
        BY <1>5, <4>1, RowIsMessage DEF Produced
    <3>4. /\ x \notin Counted(d)
          /\ Counted(d) \cup {x} \in SUBSET Counted(d)'
      <4>1. x \notin Counted(d)
        BY <3>2 DEF Counted
      <4>2. ReplayPosition(x) \in Nat \X Nat /\ dlq[d].last \in Nat \X Nat
        BY <2>4, <3>3, PositionType, LastType
      <4>3. x \in Counted(d)'
        BY <2>1, <3>1, <3>2, <3>3, <4>2, AfterOrder DEF Counted
      <4>4. ASSUME NEW y \in Counted(d) PROVE y \in Counted(d)'
        <5>1. /\ y \in Produced /\ At(y).replay_of = d
              /\ ~After(ReplayPosition(y), dlq[d].last)
          BY DEF Counted
        <5>2. ReplayPosition(y) \in Nat \X Nat
          BY <5>1, PositionType
        <5>3. ~After(ReplayPosition(y), ReplayPosition(x))
          BY <3>2, <4>2, <5>1, <5>2 DEF After
        <5> QED
          BY <2>1, <3>1, <5>1, <5>3 DEF Counted
      <4> QED
        BY <4>1, <4>3, <4>4
    <3>5. IsFiniteSet(Counted(d)) /\ Cardinality(Counted(d)) \in Nat
      BY <1>1, CoordinatesAreFinite
    <3>6. IsFiniteSet(Counted(d)') /\ Cardinality(Counted(d)') \in Nat
      BY <1>1, CoordinatesAreFinite
    <3>7. Cardinality(Counted(d) \cup {x}) = Cardinality(Counted(d)) + 1
      BY <3>4, <3>5, FS_AddElement
    <3>8. Cardinality(Counted(d) \cup {x}) <= Cardinality(Counted(d)')
      BY <3>4, <3>6, FS_Subset
    <3>9. dlq[d].attempts \in Nat /\ dlq[d].attempts <= Cardinality(Counted(d))
      BY <2>4 DEF AttemptsInv, TypeInv, TypeOK, DlqRow
    <3> QED
      BY <3>1, <3>5, <3>6, <3>7, <3>8, <3>9
  <2> QED
    BY <1>5, <2>2, <2>3, <2>4, MergedDlqRows
<1> QED
  BY <1>3, <1>4, <1>5, LogStep, DlqStep DEF LogAppend, lake, AttemptsInv

\* replay_attempts never exceeds the replays that were sent, however often the
\* batches that hold them are run or their commits retried (DLQ_MERGE 395-408).
THEOREM AttemptsAreReplays ==
    ASSUME IsFiniteSet(Partition)
    PROVE  Spec => []ReplayAttemptsAreReplays
<1>1. Init => AttemptsInv
  BY DEF Init, AttemptsInv
<1>2. TypeInv /\ TypeInv' /\ CoverInv /\ AttemptsInv /\ [Next]_vars => AttemptsInv'
  BY AttemptsStep
<1>3. TypeInv /\ AttemptsInv => ReplayAttemptsAreReplays
  <2> SUFFICES ASSUME TypeInv, AttemptsInv, NEW d \in DOMAIN dlq
               PROVE  dlq[d].attempts <= Cardinality({x \in Produced : At(x).replay_of = d})
    BY DEF ReplayAttemptsAreReplays
  <2> PICK sent : sent = {x \in Produced : At(x).replay_of = d}
    OBVIOUS
  <2>1. Counted(d) \in SUBSET sent /\ sent \in SUBSET Coordinates
    BY DEF Counted, Produced
  <2>2. IsFiniteSet(sent) /\ Cardinality(sent) \in Nat
    BY <2>1, CoordinatesAreFinite
  <2>3. Cardinality(Counted(d)) <= Cardinality(sent) /\ Cardinality(Counted(d)) \in Nat
    BY <2>1, <2>2, FS_Subset, CoordinatesAreFinite
  <2>4. dlq[d].attempts \in Nat /\ dlq[d].attempts <= Cardinality(Counted(d))
    BY DEF AttemptsInv, TypeInv, TypeOK, DlqRow
  <2> QED
    BY <2>2, <2>3, <2>4
<1> QED
  BY <1>1, <1>2, <1>3, TypeInvariant, CoverInvariant, PTL DEF Spec

=============================================================================
