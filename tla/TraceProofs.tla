---------------------------- MODULE TraceProofs -----------------------------
(***************************************************************************)
(* Proofs about Trace: what a trace or a reading of the lag concludes, for *)
(* every history of the stream between the readings it rests on.           *)
(***************************************************************************)
EXTENDS Trace, SinkRepeats

\* To the sink, every step is one of its own or none.
LEMMA StreamSteps ==
    /\ TraceInit => Init
    /\ [TraceNext]_traceVars => [Next]_vars
  BY DEF TraceInit, TraceNext, traceVars, Stream, Tailing, Poll, Reconnect, RestartApi,
     Request, StartTrace, ProbeKafka, ReadTail, ReadBronze, ReadDlq, ReadBatches,
     ReadSilver, TrinoFails, ReadCheckpoint, ReadEpoch, ListOffsets, ListCommits,
     ReadPlanned, ReadCommitted

SinkInv == TypeInv /\ CoverInv /\ DlqInv /\ NothingLost

\* What holds of the sink holds of it beside its readers.
LEMMA SinkInvariant == TraceSpec => Spec /\ []SinkInv
<1>1. TraceSpec => Spec
  BY StreamSteps, PTL DEF TraceSpec, Spec
<1> QED
  BY <1>1, TypeInvariant, CoverInvariant, DlqInvariant, NoRecordLost, PTL DEF SinkInv

-----------------------------------------------------------------------------
(* The request                                                             *)

Readings == {"none", "tail", "bronze", "dlq", "batches", "silver", "epoch",
             "planned ids", "commit ids", "planned", "committed", "done"}

RequestInv ==
    /\ kind \in {"trace", "lag"} /\ of \in Key /\ reading \in Readings
    /\ view \in View
    /\ since \in Nat /\ since <= epochs

\* What the index knows has been produced.
TailInv ==
    /\ next \in [Topics -> Nat] /\ \A p \in Topics : next[p] <= Len(kafka[p])
    /\ events \in Seq(Produced) /\ byKey \in [Key -> Seq(Produced)]
    /\ view.tail \subseteq Produced

LEMMA WithoutType ==
    ASSUME NEW S, NEW s \in Seq(S), NEW x
    PROVE  Without(s, x) \in Seq(S)
<1>1. CASE \A i \in DOMAIN s : s[i] # x
  BY <1>1 DEF Without
<1>2. CASE \E i \in DOMAIN s : s[i] = x
  <2> PICK n \in Nat : n = Len(s) /\ DOMAIN s = 1..n
    OBVIOUS
  <2> DEFINE P(j) == s[j] = x /\ \A m \in 1..(j - 1) : s[m] # x
             i == CHOOSE j \in DOMAIN s : P(j)
             Hits == {j \in DOMAIN s : s[j] = x}
  <2>1. PICK j \in Hits : \A m \in Hits : j <= m
    <3>1. Hits \in SUBSET Nat /\ Hits # {}
      BY <1>2
    <3> HIDE DEF Hits
    <3> QED
      BY <3>1, LeastNatural
  <2>2. P(j) /\ j \in DOMAIN s
    BY <2>1
  <2>3. i \in 1..n
    BY <2>2
  <2>4. Without(s, x) = SubSeq(s, 1, i - 1) \o SubSeq(s, i + 1, Len(s))
    BY <1>2 DEF Without
  <2> HIDE DEF i
  <2>5. SubSeq(s, 1, i - 1) \in Seq(S) /\ SubSeq(s, i + 1, Len(s)) \in Seq(S)
    BY <2>3, SubSeqProperties
  <2> QED
    BY <2>4, <2>5, ConcatProperties
<1> QED
  BY <1>1, <1>2

LEMMA HandleType ==
    ASSUME TypeInv, TailInv, NEW x \in Produced, Handle(x)
    PROVE  events' \in Seq(Produced) /\ byKey' \in [Key -> Seq(Produced)]
<1> PICK longer : longer = IF \E i \in DOMAIN events : events[i] = x THEN events
                           ELSE Append(events, x)
  OBVIOUS
<1> PICK added : added = IF HasKey(x) THEN [byKey EXCEPT ![RecordKey(x)] = Append(@, x)]
                         ELSE byKey
  OBVIOUS
<1>1. longer \in Seq(Produced) /\ longer # <<>>
  <2>1. CASE \E i \in DOMAIN events : events[i] = x
    BY <2>1, EmptySeq DEF TailInv
  <2>2. CASE ~\E i \in DOMAIN events : events[i] = x
    <3>1. events \in Seq(Produced) /\ longer = Append(events, x)
      BY <2>2 DEF TailInv
    <3> QED
      BY <3>1, AppendProperties
  <2> QED
    BY <2>1, <2>2
<1>2. added \in [Key -> Seq(Produced)]
  <2>1. byKey \in [Key -> Seq(Produced)]
    BY DEF TailInv
  <2>2. \A k \in Key : Append(byKey[k], x) \in Seq(Produced)
    BY <2>1, AppendProperties
  <2> QED
    BY <2>1, <2>2
<1>3. Tail(longer) \in Seq(Produced)
  BY <1>1, HeadTailProperties
<1>4. [added EXCEPT ![RecordKey(Head(longer))] = Without(@, Head(longer))]
        \in [Key -> Seq(Produced)]
  BY <1>2, WithoutType
<1> QED
  BY <1>1, <1>2, <1>3, <1>4 DEF Handle

LEMMA ProducedGrows ==
    ASSUME TypeInv, [Next]_vars
    PROVE  Produced \subseteq Produced'
<1>1. CASE LogAppend
  BY <1>1, LogKept
<1>2. CASE UNCHANGED kafka
  BY <1>2 DEF Produced
<1> QED
  BY <1>1, <1>2, LogStep

LEMMA TailStep ==
    ASSUME TypeInv, RequestInv, TailInv, [TraceNext]_traceVars
    PROVE  TailInv'
<1>1. Produced \subseteq Produced'
  BY StreamSteps, ProducedGrows
<1>2. Seq(Produced) \subseteq Seq(Produced')
  BY <1>1
<1>3. \A p \in Topics : Len(kafka[p]) \in Nat /\ p \in Partition
  BY DEF TypeInv, TypeOK, Topics
<1>4. CASE UNCHANGED <<tail, view>>
  <2>1. \A p \in Topics : Len(kafka[p]) <= Len(kafka'[p])
    <3>1. CASE LogAppend
      BY <1>3, <3>1 DEF LogAppend, AppendTo, TypeInv, TypeOK, Topics
    <3> QED
      BY <3>1, StreamSteps, LogStep, <1>3
  <2> QED
    BY <1>1, <1>2, <1>4, <2>1 DEF TailInv, tail
<1>5. ASSUME NEW p \in Topics, Poll(p) PROVE TailInv'
  <2>1. UNCHANGED <<kafka, view>>
    BY <1>5 DEF Poll, vars, external, request
  <2>2. next[p] \in Nat /\ next[p] + 1 <= Len(kafka[p])
    BY <1>3, <1>5 DEF Poll, TailInv
  <2>3. <<p, next[p] + 1>> \in Produced
    BY <1>3, <2>2, BoundAssumption DEF Produced, Coordinates, TypeInv, TypeOK
  <2>4. events' \in Seq(Produced) /\ byKey' \in [Key -> Seq(Produced)]
    BY <1>5, <2>3, HandleType DEF Poll, TailInv
  <2>5. /\ next' \in [Topics -> Nat]
        /\ \A q \in Topics : next'[q] <= Len(kafka[q])
    BY <1>5, <2>2 DEF Poll, TailInv
  <2> QED
    BY <1>1, <1>2, <2>1, <2>4, <2>5 DEF TailInv
<1>6. CASE Reconnect \/ RestartApi
  <2>1. UNCHANGED <<kafka, view>> /\ next' = Ends
    BY <1>6 DEF Reconnect, RestartApi, vars, external, request, Position
  <2>2. events' \in Seq(Produced) /\ byKey' \in [Key -> Seq(Produced)]
    BY <1>6, EmptySeq DEF Reconnect, RestartApi, TailInv
  <2> QED
    BY <1>1, <1>2, <1>3, <2>1, <2>2 DEF TailInv, Ends
<1>7. CASE ReadTail
  <2>1. UNCHANGED <<kafka, tail>>
    BY <1>7 DEF ReadTail, vars, external
  <2>2. view'.tail \subseteq Produced
    BY <1>7 DEF ReadTail, TailInv, RequestInv, View
  <2> QED
    BY <1>1, <1>2, <2>1, <2>2 DEF TailInv, tail
<1>8. CASE Request /\ ~ReadTail
  <2>1. UNCHANGED <<next, events, byKey, kafka>>
    BY <1>8 DEF Request, StartTrace, ProbeKafka, ReadBronze, ReadDlq, ReadBatches,
       ReadSilver, TrinoFails, ReadCheckpoint, ReadEpoch, ListOffsets, ListCommits,
       ReadPlanned, ReadCommitted, vars, external, tail
  <2>2. view'.tail = view.tail
    <3>1. view \in View
      BY DEF RequestInv
    <3> QED
      BY <1>8, <3>1 DEF View, Request, StartTrace, ProbeKafka, ReadBronze, ReadDlq,
         ReadBatches, ReadSilver, TrinoFails, ReadCheckpoint, ReadEpoch, ListOffsets,
         ListCommits, ReadPlanned, ReadCommitted
  <2> QED
    BY <1>1, <1>2, <2>1, <2>2 DEF TailInv
<1> QED
  BY <1>4, <1>5, <1>6, <1>7, <1>8
  DEF TraceNext, traceVars, Stream, Tailing, Request, request

\* A step is one of the stream, one of the request, or neither.
LEMMA StepKinds ==
    ASSUME [TraceNext]_traceVars
    PROVE  \/ Request /\ UNCHANGED <<vars, finished>>
           \/ (Stream \/ UNCHANGED <<vars, finished>>) /\ UNCHANGED request
<1>1. CASE Stream
  BY <1>1 DEF Stream
<1>2. CASE Tailing
  BY <1>2 DEF Tailing, Poll, Reconnect, RestartApi
<1>3. CASE Request
  BY <1>3 DEF Request, StartTrace, ProbeKafka, ReadTail, ReadBronze, ReadDlq,
     ReadBatches, ReadSilver, TrinoFails, ReadCheckpoint, ReadEpoch, ListOffsets,
     ListCommits, ReadPlanned, ReadCommitted
<1>4. CASE UNCHANGED traceVars
  BY <1>4 DEF traceVars
<1> QED
  BY <1>1, <1>2, <1>3, <1>4 DEF TraceNext

LEMMA EpochsGrow ==
    ASSUME TypeInv, [Next]_vars
    PROVE  epochs' \in Nat /\ (epochs' = epochs \/ epochs' = epochs + 1)
<1>1. epochs \in Nat
  BY DEF TypeInv, TypeOK
<1>2. epochs' = epochs \/ epochs' = epochs + 1
  BY DEF Next, Environment, Produce, Replay, Deploy, WipeCheckpoint, Job, StartUp,
     EnsureEpoch, StartQuery, Trigger, Resume, ProcessBatch, BeginBatch, PlanBatch,
     MergeSilver, AppendBronze, MergeDlq, MergeRecord, CommitBatch, Crash, vars
<1> QED
  BY <1>1, <1>2

\* What a request reads is of its type.
LEMMA ReadingTypes ==
    ASSUME TypeInv, RequestInv, TailInv
    PROVE  /\ {row \in bronze : KeyOf[row.event] = of} \subseteq BronzeRow
           /\ DOMAIN dlq \subseteq Coordinates
           /\ DOMAIN batches \subseteq Nat \X Nat
           /\ silver[of] \in SilverRow
           /\ epochFile \in Nat
           /\ offsets # <<>> => Batch \in Nat
           /\ commits \in Nat
           /\ commits # 0 => commits - 1 \in Nat
           /\ Ends \in [Topics -> Nat]
           /\ \A i \in 1..Len(offsets) : offsets[i] \in [Partition -> Nat]
           /\ {byKey[of][i] : i \in DOMAIN byKey[of]} \subseteq Coordinates
           /\ Len(offsets) \in Nat
<1>1. offsets \in Seq([Partition -> 0..MaxOffset])
  BY DEF TypeInv, TypeOK
<1>2. Len(offsets) \in Nat
  BY <1>1, LenProperties
<1>3. ASSUME NEW i \in 1..Len(offsets) PROVE offsets[i] \in [Partition -> Nat]
  BY <1>1, <1>3, ElementOfSeq, BoundAssumption
<1>4. Ends \in [Topics -> Nat]
  BY DEF Ends, Topics, TypeInv, TypeOK
<1>5. {byKey[of][i] : i \in DOMAIN byKey[of]} \subseteq Coordinates
  <2>1. byKey[of] \in Seq(Produced)
    BY DEF TailInv, RequestInv
  <2>2. \A i \in DOMAIN byKey[of] : byKey[of][i] \in Produced
    BY <2>1, LenProperties
  <2> QED
    BY <2>2 DEF Produced
<1>6. /\ {row \in bronze : KeyOf[row.event] = of} \subseteq BronzeRow
      /\ DOMAIN dlq \subseteq Coordinates
      /\ DOMAIN batches \subseteq Nat \X Nat
      /\ silver[of] \in SilverRow
      /\ epochFile \in Nat /\ commits \in Nat
  BY DEF TypeInv, TypeOK, RequestInv
<1> QED
  BY <1>1, <1>2, <1>3, <1>4, <1>5, <1>6, EmptySeq DEF Batch

LEMMA RequestStep ==
    ASSUME TypeInv, RequestInv, TailInv, [TraceNext]_traceVars
    PROVE  RequestInv'
<1>1. epochs' \in Nat /\ epochs <= epochs'
  BY StreamSteps, EpochsGrow DEF TypeInv, TypeOK
<1>2. CASE UNCHANGED request
  <2>1. UNCHANGED <<kind, of, reading, view, since>>
    BY <1>2 DEF request
  <2> QED
    BY <1>1, <2>1 DEF RequestInv, TypeInv, TypeOK
<1>3. CASE Request
  <2>1. UNCHANGED epochs /\ UNCHANGED <<kind, of>> /\ reading' \in Readings
    BY <1>3 DEF Request, StartTrace, ProbeKafka, ReadTail, ReadBronze, ReadDlq,
       ReadBatches, ReadSilver, TrinoFails, ReadCheckpoint, ReadEpoch, ListOffsets,
       ListCommits, ReadPlanned, ReadCommitted, Go, Following, Readings, vars
  <2>2. since' \in {since, epochs}
    BY <1>3 DEF Request, StartTrace, ProbeKafka, ReadTail, ReadBronze, ReadDlq,
       ReadBatches, ReadSilver, TrinoFails, ReadCheckpoint, ReadEpoch, ListOffsets,
       ListCommits, ReadPlanned, ReadCommitted
  <2>3. since' \in Nat /\ since' <= epochs'
    BY <2>1, <2>2 DEF RequestInv, TypeInv, TypeOK
  <2>4. view' \in View
    <3>1. view \in View
      BY DEF RequestInv
    <3>2. CASE StartTrace
      BY <3>1, <3>2 DEF StartTrace
    <3>3. CASE ProbeKafka
      BY <3>1, <3>3, ReadingTypes DEF ProbeKafka, View
    <3>4. CASE ReadTail
      <4>1. PICK S \in SUBSET Coordinates : view' = [view EXCEPT !.tail = S]
        BY <3>4, ReadingTypes DEF ReadTail
      <4> QED
        BY <3>1, <4>1 DEF View
    <3>5. CASE ReadBronze
      BY <3>1, <3>5, ReadingTypes DEF ReadBronze, View
    <3>6. CASE ReadDlq
      BY <3>1, <3>6, ReadingTypes DEF ReadDlq, View
    <3>7. CASE ReadBatches
      BY <3>1, <3>7, ReadingTypes DEF ReadBatches, View
    <3>8. CASE ReadSilver
      BY <3>1, <3>8, ReadingTypes DEF ReadSilver, View
    <3>9. CASE TrinoFails
      BY <3>1, <3>9 DEF TrinoFails, View
    <3>10. CASE ReadEpoch
      BY <3>1, <3>10, ReadingTypes DEF ReadEpoch, View
    <3>11. CASE ListOffsets
      <4>1. \E n \in Nat \cup {None} : view' = [view EXCEPT !.plannedId = n]
        <5>1. CASE offsets = <<>>
          BY <3>11, <5>1 DEF ListOffsets
        <5>2. CASE offsets # <<>>
          BY <3>11, <5>2, ReadingTypes DEF ListOffsets
        <5> QED
          BY <5>1, <5>2
      <4>2. PICK n \in Nat \cup {None} : view' = [view EXCEPT !.plannedId = n]
        BY <4>1
      <4> QED
        BY <3>1, <4>2 DEF View
    <3>12. CASE ListCommits
      <4>1. \E n \in Nat \cup {None} : view' = [view EXCEPT !.commitId = n]
        <5>1. CASE commits = 0
          BY <3>12, <5>1 DEF ListCommits
        <5>2. CASE commits # 0
          <6> PICK n : n = commits - 1
            OBVIOUS
          <6>1. n \in Nat
            BY <5>2, ReadingTypes
          <6>2. view' = [view EXCEPT !.commitId = n]
            BY <3>12, <5>2 DEF ListCommits
          <6> QED
            BY <6>1, <6>2
        <5> QED
          BY <5>1, <5>2
      <4>2. PICK n \in Nat \cup {None} : view' = [view EXCEPT !.commitId = n]
        BY <4>1
      <4> QED
        BY <3>1, <4>2 DEF View
    <3>13. CASE ReadPlanned
      <4>1. view.plannedId \in Int /\ -1 <= view.plannedId
        BY <3>1 DEF View, None
      <4>2. \/ UNCHANGED view
            \/ view' = [view EXCEPT !.lost = TRUE]
            \/ \E f \in [Partition -> Nat] : view' = [view EXCEPT !.planned = f]
        <5>1. CASE view.plannedId = None
          BY <3>13, <5>1 DEF ReadPlanned
        <5>2. CASE view.plannedId # None /\ view.plannedId >= Len(offsets)
          BY <3>13, <5>2 DEF ReadPlanned
        <5>3. CASE view.plannedId # None /\ ~(view.plannedId >= Len(offsets))
          <6> PICK n : n = view.plannedId + 1
            OBVIOUS
          <6>1. n \in 1..Len(offsets)
            BY <4>1, <5>3, ReadingTypes DEF None
          <6>2. offsets[n] \in [Partition -> Nat]
            BY <6>1, ReadingTypes
          <6>3. view' = view \/ view' = [view EXCEPT !.planned = offsets[n]]
            BY <3>13, <5>3 DEF ReadPlanned
          <6> QED
            BY <6>2, <6>3
        <5> QED
          BY <5>1, <5>2, <5>3
      <4> QED
        BY <3>1, <4>2 DEF View
    <3>14. CASE ReadCommitted
      <4>1. view.commitId \in Int /\ -1 <= view.commitId
        BY <3>1 DEF View, None
      <4>2. \/ UNCHANGED view
            \/ \E f \in [Partition -> Nat] : view' = [view EXCEPT !.committed = f]
        <5>1. CASE view.commitId # None /\ view.commitId < Len(offsets)
          <6> PICK n : n = view.commitId + 1
            OBVIOUS
          <6>1. n \in 1..Len(offsets)
            BY <4>1, <5>1, ReadingTypes DEF None
          <6>2. offsets[n] \in [Partition -> Nat]
            BY <6>1, ReadingTypes
          <6>3. view' = [view EXCEPT !.committed = offsets[n]]
            BY <3>14, <5>1 DEF ReadCommitted
          <6> QED
            BY <6>2, <6>3
        <5>2. CASE ~(view.commitId # None /\ view.commitId < Len(offsets))
          BY <3>14, <5>2 DEF ReadCommitted
        <5> QED
          BY <5>1, <5>2
      <4> QED
        BY <3>1, <4>2 DEF View
    <3> QED
      BY <1>3, <3>2, <3>3, <3>4, <3>5, <3>6, <3>7, <3>8, <3>9, <3>10, <3>11, <3>12,
         <3>13, <3>14 DEF Request, ReadCheckpoint
  <2> QED
    BY <2>1, <2>3, <2>4 DEF RequestInv
<1> QED
  BY <1>2, <1>3, StepKinds

TraceInv == SinkInv /\ BatchesInv /\ RequestInv /\ TailInv

\* What a request or the tail has read is of its type, and names records that
\* have been produced (tracer.py 88-149, services/trace.py 35-99).
THEOREM TraceInvariant == TraceSpec => []TraceInv
<1>1. TraceInit => RequestInv
  <2> SUFFICES ASSUME TraceInit PROVE RequestInv
    OBVIOUS
  <2>1. Blank \in View
    <3>1. NoRow \in SilverRow
      BY DEF NoRow, SilverRow, NoLsn, NoEpoch
    <3> QED
      BY <3>1 DEF Blank, View, NoEpoch, None
  <2> QED
    BY <2>1 DEF TraceInit, RequestInv, Readings, Init
<1>2. TraceInit => TailInv
  <2> SUFFICES ASSUME TraceInit PROVE TailInv
    OBVIOUS
  <2>1. /\ kafka = [p \in Partition |-> <<>>] /\ next = Ends /\ events = <<>>
        /\ byKey = [k \in Key |-> <<>>] /\ view = Blank
    BY DEF TraceInit, Init
  <2>2. Ends = [p \in Topics |-> 0]
    BY <2>1, EmptySeq DEF Ends, Topics
  <2>3. \A p \in Topics : Len(kafka[p]) = 0
    BY <2>1, EmptySeq DEF Topics
  <2> QED
    BY <2>1, <2>2, <2>3, EmptySeq DEF TailInv, Blank
<1>3. SinkInv /\ RequestInv /\ TailInv /\ [TraceNext]_traceVars => RequestInv' /\ TailInv'
  BY RequestStep, TailStep DEF SinkInv
<1>4. TraceSpec => Spec /\ []SinkInv
  BY SinkInvariant
<1> QED
  BY <1>1, <1>2, <1>3, <1>4, BatchesInvariant, PTL DEF TraceSpec, TraceInv

-----------------------------------------------------------------------------
(* The checkpoint, read in five looks                                      *)

PastCommits == {"planned", "committed", "done"}
PastEpoch   == PastCommits \cup {"planned ids", "commit ids"}

\* The checkpoint has been wiped and no job has started since.
Wiped == stage = "down" /\ ~metadata

\* As long as no other lineage has begun, what has been read of the checkpoint
\* is of one lineage, and the batches up to the newest commit were committed.
CheckpointInv ==
    /\ \A b \in 0..(commits - 1) : <<epochFile, b>> \in finished
    /\ reading \notin PastCommits => view.commitId = None
    /\ reading \in PastEpoch /\ SameLineage => Wiped \/ view.epoch = epochFile
    /\ view.commitId # None /\ SameLineage => Wiped \/ view.commitId < commits
    /\ view.commitId # None /\ SameLineage =>
          \A b \in 0..view.commitId : <<view.epoch, b>> \in finished

\* What a step of the stream does to the checkpoint.
LEMMA LineageSteps ==
    ASSUME TypeInv, LineageInv, ProcessInv, [Next]_vars
    PROVE  /\ epochs' = epochs /\ Wiped => Wiped'
           /\ epochs' = epochs => Wiped' \/ epochFile' = epochFile
           /\ epochFile' = epochFile \/ commits' = 0
           /\ \/ commits' = commits
              \/ commits' = 0 /\ Wiped'
              \/ /\ stage = "commit" /\ stage' = "idle"
                 /\ commits' = commits + 1 /\ epochFile' = epochFile
                 /\ BatchId = <<epochFile, commits>>
<1>1. CASE EnsureEpoch
  <2>1. UNCHANGED <<metadata, commits>> /\ epochs \in Nat
    BY <1>1 DEF EnsureEpoch, TypeInv, TypeOK
  <2>2. CASE EpochKept
    BY <1>1, <2>1, <2>2 DEF EnsureEpoch, EpochKept, Wiped
  <2>3. CASE ~EpochKept
    <3>1. ~metadata
      BY <2>3 DEF EpochKept, ProcessInv
    <3>2. commits = 0 /\ epochs' = epochs + 1
      BY <1>1, <2>3, <3>1 DEF EnsureEpoch, LineageInv
    <3> QED
      BY <2>1, <3>2
  <2> QED
    BY <2>2, <2>3
<1>2. CASE WipeCheckpoint
  BY <1>2 DEF WipeCheckpoint, Wiped, process
<1>3. CASE CommitBatch
  <2>1. /\ stage = "commit" /\ stage' = "idle" /\ UNCHANGED <<epochFile, metadata>>
        /\ commits' = Len(offsets) /\ stage # "down" /\ stage \in Running
    BY <1>3 DEF CommitBatch, Running
  <2>2. Len(offsets) = commits + 1 /\ commits \in Nat
    BY <2>1 DEF TypeInv, TypeOK, LogInv
  <2>3. BatchId = <<epochFile, commits>>
    BY <2>1, <2>2 DEF BatchId, Batch, ProcessInv
  <2> QED
    BY <2>1, <2>2, <2>3 DEF Wiped
<1>4. CASE StartQuery
  BY <1>4 DEF StartQuery, Wiped
<1>5. CASE Crash
  BY <1>5 DEF Crash, Wiped, checkpoint
<1>6. CASE /\ UNCHANGED <<epochFile, metadata, commits>>
           /\ stage' = stage \/ stage # "down"
  BY <1>6 DEF Wiped
<1> QED
  BY <1>1, <1>2, <1>3, <1>4, <1>5, <1>6
  DEF Next, Environment, Produce, Replay, Deploy, Job, StartUp, Trigger, Resume,
     ProcessBatch, BeginBatch, PlanBatch, MergeSilver, AppendBronze, MergeDlq,
     MergeRecord, vars, process, checkpoint

LEMMA CheckpointStep ==
    ASSUME TraceInv, CheckpointInv, [TraceNext]_traceVars
    PROVE  CheckpointInv'
<1> USE DEF TraceInv, SinkInv, BatchesInv, DlqInv
<1>1. /\ commits \in Nat /\ view \in View /\ since <= epochs /\ since \in Nat
      /\ epochs \in Nat
  BY DEF TypeInv, TypeOK, RequestInv
<1>2. view.commitId # None => view.commitId \in Nat
  BY <1>1 DEF View
<1>3. CASE (Stream \/ UNCHANGED <<vars, finished>>) /\ UNCHANGED request
  <2>1. UNCHANGED <<reading, view, since>> /\ finished \subseteq finished'
    BY <1>3 DEF request, Stream
  <2>2. /\ stage = "commit" /\ stage' = "idle" => BatchId \in finished'
    BY <1>3 DEF Stream, vars, process
  <2>3. epochs' = epochs \/ epochs' = epochs + 1
    BY StreamSteps, EpochsGrow
  <2>4. SameLineage' => SameLineage /\ epochs' = epochs
    BY <1>1, <2>1, <2>3 DEF SameLineage
  <2>5. /\ epochs' = epochs /\ Wiped => Wiped'
        /\ epochs' = epochs => Wiped' \/ epochFile' = epochFile
        /\ epochFile' = epochFile \/ commits' = 0
        /\ \/ commits' = commits
           \/ commits' = 0 /\ Wiped'
           \/ /\ stage = "commit" /\ stage' = "idle"
              /\ commits' = commits + 1 /\ epochFile' = epochFile
              /\ BatchId = <<epochFile, commits>>
    BY StreamSteps, LineageSteps
  <2>6. ASSUME NEW b \in 0..(commits' - 1) PROVE <<epochFile', b>> \in finished'
    <3>1. epochFile' = epochFile /\ commits' # 0
      BY <2>5, <2>6
    <3>2. CASE commits' = commits
      BY <2>1, <2>6, <3>1, <3>2 DEF CheckpointInv
    <3>3. CASE commits' # commits
      <4>1. commits' = commits + 1 /\ <<epochFile, commits>> \in finished'
        BY <2>2, <2>5, <3>1, <3>3
      <4>2. b = commits \/ b \in 0..(commits - 1)
        BY <1>1, <2>6, <4>1
      <4> QED
        BY <2>1, <3>1, <4>1, <4>2 DEF CheckpointInv
    <3> QED
      BY <3>2, <3>3
  <2>7. reading' \in PastEpoch /\ SameLineage' => Wiped' \/ view'.epoch = epochFile'
    BY <2>1, <2>4, <2>5 DEF CheckpointInv
  <2>8. view'.commitId # None /\ SameLineage' => Wiped' \/ view'.commitId < commits'
    BY <1>1, <1>2, <2>1, <2>4, <2>5 DEF CheckpointInv
  <2> QED
    BY <2>1, <2>4, <2>6, <2>7, <2>8 DEF CheckpointInv
<1>4. CASE Request /\ UNCHANGED <<vars, finished>>
  <2>1. UNCHANGED <<epochFile, metadata, commits, stage, epochs, finished>> /\ Wiped' = Wiped
    BY <1>4 DEF vars, checkpoint, process, Wiped
  <2>2. CASE ReadEpoch
    <3>1. /\ reading = "epoch" /\ reading' = "planned ids" /\ view'.epoch = epochFile
          /\ view'.commitId = view.commitId
      BY <1>1, <2>2 DEF ReadEpoch, Reading, Go, View
    <3> QED
      BY <2>1, <3>1 DEF CheckpointInv, PastCommits
  <2>3. CASE ListCommits
    <3>1. /\ reading = "commit ids" /\ reading' = "planned" /\ view'.epoch = view.epoch
          /\ view'.commitId = (IF commits = 0 THEN None ELSE commits - 1)
          /\ UNCHANGED since
      BY <1>1, <2>3 DEF ListCommits, Reading, Go, View
    <3>2. commits # 0 => ~Wiped
      BY DEF LineageInv, Wiped
    <3>3. SameLineage' <=> SameLineage
      BY <2>1, <3>1 DEF SameLineage
    <3>4. reading \in PastEpoch /\ reading' \in PastCommits
      BY <3>1 DEF PastEpoch, PastCommits
    <3>5. view'.commitId # None => view'.commitId = commits - 1 /\ commits # 0
      BY <3>1
    <3>6. view'.commitId # None /\ SameLineage' =>
             /\ view'.epoch = epochFile
             /\ \A b \in 0..view'.commitId : <<view'.epoch, b>> \in finished
      BY <3>1, <3>2, <3>3, <3>4, <3>5 DEF CheckpointInv
    <3>7. view'.commitId # None => view'.commitId < commits
      BY <1>1, <3>5
    <3> QED
      BY <2>1, <3>1, <3>3, <3>4, <3>6, <3>7 DEF CheckpointInv
  <2>4. CASE ~ReadEpoch /\ ~ListCommits
    <3>1. view'.epoch = view.epoch /\ view'.commitId = view.commitId /\ UNCHANGED since
      BY <1>1, <1>4, <2>4 DEF Request, StartTrace, ProbeKafka, ReadTail, ReadBronze, ReadDlq,
         ReadBatches, ReadSilver, TrinoFails, ReadCheckpoint, ListOffsets, ReadPlanned,
         ReadCommitted, View
    <3>2. /\ reading' \in PastEpoch => reading \in PastEpoch
          /\ reading \in PastCommits => reading' \in PastCommits
      BY <1>4, <2>4 DEF Request, StartTrace, ProbeKafka, ReadTail, ReadBronze, ReadDlq,
         ReadBatches, ReadSilver, TrinoFails, ReadCheckpoint, ListOffsets, ReadPlanned,
         ReadCommitted, Reading, Go, Following, PastEpoch, PastCommits
    <3>3. SameLineage' <=> SameLineage
      BY <2>1, <3>1 DEF SameLineage
    <3> QED
      BY <2>1, <3>1, <3>2, <3>3 DEF CheckpointInv
  <2> QED
    BY <2>2, <2>3, <2>4
<1> QED
  BY <1>3, <1>4, StepKinds

\* The five looks at the checkpoint agree on one lineage, unless another one has
\* begun meanwhile, and the batches they report were committed (checkpoint.py
\* 45-62).
THEOREM CheckpointInvariant == TraceSpec => []CheckpointInv
<1>1. TraceInit => CheckpointInv
  BY DEF TraceInit, Init, CheckpointInv, Blank, PastEpoch, PastCommits
<1>2. TraceInv /\ CheckpointInv /\ [TraceNext]_traceVars => CheckpointInv'
  BY CheckpointStep
<1> QED
  BY <1>1, <1>2, TraceInvariant, PTL DEF TraceSpec

-----------------------------------------------------------------------------
(* The ledger, read before the row it explains                             *)

Ledger     == {"dlq", "batches", "silver"}
PastSilver == PastEpoch \cup {"epoch"}

\* Silver showed the rows of the ledger when it was read, and shows them, or
\* later changes, whenever it is read after that.
LedgerInv ==
    /\ \A row \in view.bronze : KeyOf[row.event] = of
    /\ reading \notin Ledger \cup PastSilver => view.bronze = {}
    /\ reading \in Ledger =>
          \A row \in view.bronze : Lsn[row.event] <= LsnShown(silver[of].event)
    /\ reading \in PastSilver /\ ~view.trouble =>
          \A row \in view.bronze : Lsn[row.event] <= LsnShown(view.silver.event)

\* Other steps of the request leave what has been read of the tables alone.
LEMMA OtherReadings ==
    ASSUME RequestInv, Request, ~ReadBronze, ~ReadSilver, ~TrinoFails
    PROVE  /\ view'.bronze = view.bronze /\ view'.silver = view.silver
           /\ view'.trouble = view.trouble
           /\ reading' \in Ledger => reading \in Ledger
           /\ reading' \in PastSilver => reading \in PastSilver \/ reading = "none"
           /\ reading \in Ledger \cup PastSilver => reading' \in Ledger \cup PastSilver
<1>1. view \in View
  BY DEF RequestInv
<1>2. /\ view'.bronze = view.bronze /\ view'.silver = view.silver
      /\ view'.trouble = view.trouble
  BY <1>1 DEF Request, StartTrace, ProbeKafka, ReadTail, ReadDlq,
     ReadBatches, ReadCheckpoint, ReadEpoch, ListOffsets, ListCommits, ReadPlanned,
     ReadCommitted, View
<1> QED
  BY <1>2 DEF Request, StartTrace, ProbeKafka, ReadTail, ReadDlq,
     ReadBatches, ReadCheckpoint, ReadEpoch, ListOffsets, ListCommits, ReadPlanned,
     ReadCommitted, Reading, Go, Following, Ledger, PastSilver, PastEpoch, PastCommits

LEMMA LedgerStep ==
    ASSUME TraceInv, LedgerInv, [TraceNext]_traceVars
    PROVE  LedgerInv'
<1> USE DEF TraceInv, SinkInv
<1>1. view \in View /\ of \in Key /\ silver \in [Key -> SilverRow]
  BY DEF RequestInv, TypeInv, TypeOK
<1>2. \A row \in view.bronze : row.event \in Event /\ Lsn[row.event] \in Int
  <2>1. \A row \in view.bronze : row \in BronzeRow
    BY <1>1 DEF View
  <2> QED
    BY <2>1, EventAssumption DEF BronzeRow
<1>3. CASE (Stream \/ UNCHANGED <<vars, finished>>) /\ UNCHANGED request
  <2>1. UNCHANGED <<reading, view, of>>
    BY <1>3 DEF request
  <2>2. LsnShown(silver[of].event) <= LsnShown(silver'[of].event)
    BY <1>1, StreamSteps, SilverAdvances
  <2>3. LsnShown(silver[of].event) \in Int /\ LsnShown(silver'[of].event) \in Int
    <3>1. TypeInv'
      BY StreamSteps, TypeStep
    <3>2. silver'[of] \in SilverRow
      BY <1>1, <3>1 DEF TypeInv, TypeOK
    <3>3. silver'[of].event \in Event \cup {NoEvent}
      BY <3>2 DEF SilverRow
    <3> QED
      BY <1>1, <3>3, SilverEvents, LsnShownType
  <2> QED
    BY <1>2, <2>1, <2>2, <2>3 DEF LedgerInv
<1>4. CASE Request /\ UNCHANGED <<vars, finished>>
  <2>1. UNCHANGED <<silver, bronze, of>>
    BY <1>4 DEF vars, lake, Request, StartTrace, ProbeKafka, ReadTail, ReadBronze, ReadDlq,
       ReadBatches, ReadSilver, TrinoFails, ReadCheckpoint, ReadEpoch, ListOffsets,
       ListCommits, ReadPlanned, ReadCommitted, Go
  <2>2. CASE ReadBronze
    <3>1. /\ reading' = "dlq"
          /\ view'.bronze = {row \in bronze : KeyOf[row.event] = of}
      BY <1>1, <2>2 DEF ReadBronze, Reading, Go, Following, View
    <3>2. \A row \in view'.bronze : Lsn[row.event] <= LsnShown(silver[KeyOf[row.event]].event)
      BY <3>1 DEF CoverInv, SilverCoversBronze
    <3> QED
      BY <2>1, <3>1, <3>2 DEF LedgerInv, Ledger, PastSilver, PastEpoch, PastCommits
  <2>3. CASE ReadSilver
    <3>1. /\ reading = "silver" /\ reading' = "epoch"
          /\ view'.bronze = view.bronze /\ view'.silver = silver[of]
      BY <1>1, <2>3 DEF ReadSilver, Reading, Go, Following, View
    <3> QED
      BY <2>1, <3>1 DEF LedgerInv, Ledger, PastSilver, PastEpoch, PastCommits
  <2>4. CASE TrinoFails
    <3>1. reading' = "epoch" /\ view'.bronze = view.bronze /\ view'.trouble = TRUE
      BY <1>1, <2>4 DEF TrinoFails, Go, View
    <3> QED
      BY <2>1, <3>1 DEF LedgerInv, Ledger, PastSilver, PastEpoch, PastCommits
  <2>5. CASE ~ReadBronze /\ ~ReadSilver /\ ~TrinoFails
    <3>1. "none" \notin Ledger \cup PastSilver
      BY DEF Ledger, PastSilver, PastEpoch, PastCommits
    <3> QED
      BY <1>4, <2>1, <2>5, <3>1, OtherReadings DEF LedgerInv
  <2> QED
    BY <2>2, <2>3, <2>4, <2>5
<1> QED
  BY <1>3, <1>4, StepKinds

\* Silver shows what the ledger holds of a key by the time it is read, because
\* the sink merges silver first and the trace reads it last.
THEOREM LedgerInvariant == TraceSpec => []LedgerInv
<1>1. TraceInit => LedgerInv
  BY DEF TraceInit, LedgerInv, Blank, Ledger, PastSilver, PastEpoch, PastCommits
<1>2. TraceInv /\ LedgerInv /\ [TraceNext]_traceVars => LedgerInv'
  BY LedgerStep
<1> QED
  BY <1>1, <1>2, TraceInvariant, PTL DEF TraceSpec

\* The rows of the ledger are of one snapshot, where no event has two.
OneRowInv == \A r, q \in view.bronze : r.event = q.event => r = q

\* A trace finds a change once in the ledger, if deliveries of a change carry one
\* timestamp.
THEOREM OneRowInvariant ==
    ASSUME StableTimestamps
    PROVE  TraceSpec => []OneRowInv
<1>1. TraceInit => OneRowInv
  BY DEF TraceInit, Blank, OneRowInv
<1>2. ASSUME TraceInv, UniqueInv, OneRowInv, [TraceNext]_traceVars PROVE OneRowInv'
  <2>1. view \in View
    BY <1>2 DEF TraceInv, RequestInv
  <2>2. CASE view'.bronze = view.bronze
    BY <1>2, <2>2 DEF OneRowInv
  <2>3. CASE ReadBronze
    <3>1. view'.bronze \subseteq bronze
      BY <2>1, <2>3 DEF ReadBronze, View
    <3> QED
      BY <1>2, <3>1 DEF OneRowInv, UniqueInv, OneBronzeRowPerEvent
  <2>4. CASE ReadSilver \/ TrinoFails
    <3>1. view'.bronze = view.bronze
      BY <2>1, <2>4 DEF ReadSilver, TrinoFails, View
    <3> QED
      BY <2>2, <3>1
  <2>5. CASE UNCHANGED request
    BY <2>2, <2>5 DEF request
  <2> QED
    BY <1>2, <2>2, <2>3, <2>4, <2>5, StepKinds, OtherReadings DEF TraceInv
<1>3. TraceSpec => Spec /\ []SinkInv
  BY SinkInvariant
<1>4. Spec => []UniqueInv
  BY UniqueInvariant
<1> QED
  BY <1>1, <1>2, <1>3, <1>4, TraceInvariant, PTL DEF TraceSpec

\* The rows of the newest change are one row.
LEMMA NewestIsOne ==
    ASSUME RequestInv, LedgerInv, OneRowInv, NEW r \in BronzeOf, NEW q \in BronzeOf
    PROVE  r = q
<1>1. view.bronze \subseteq BronzeRow
  BY DEF RequestInv, View
<1>2. /\ r \in view.bronze /\ q \in view.bronze /\ r.event \in Event /\ q.event \in Event
      /\ KeyOf[r.event] = KeyOf[q.event]
  BY <1>1 DEF BronzeOf, LedgerInv, BronzeRow
<1>3. Lsn[r.event] <= Lsn[q.event] /\ Lsn[q.event] <= Lsn[r.event]
  BY DEF BronzeOf, Latest, Lsns
<1>4. Lsn[r.event] \in Nat /\ Lsn[q.event] \in Nat
  BY <1>2, EventAssumption
<1>5. r.event = q.event
  BY <1>2, <1>3, <1>4, LsnAssumption
<1> QED
  BY <1>2, <1>5 DEF OneRowInv

\* If a change always comes with the same timestamp, a trace calls the
\* checkpoint done only for a batch that has its commit marker, written in the
\* epoch of the row: whatever was wiped, restarted or committed between the
\* looks at the directory.
THEOREM CheckpointDone ==
    ASSUME StableTimestamps
    PROVE  TraceSpec => []CheckpointDoneIsCommitted
<1>1. ASSUME TraceInv, CheckpointInv, LedgerInv, OneRowInv PROVE CheckpointDoneIsCommitted
  <2> SUFFICES ASSUME SameLineage, Answer.checkpoint = "done", NEW r \in BronzeOf
               PROVE  <<r.epoch, r.batch>> \in finished
    BY DEF CheckpointDoneIsCommitted
  <2>1. (CHOOSE q \in BronzeOf : TRUE) = r
    BY <1>1, NewestIsOne DEF TraceInv
  <2>2. Covers(CommittedThrough(r.epoch), r.batch)
    BY <2>1 DEF Answer
  <2>3. /\ view.commitId # None /\ view.epoch = r.epoch /\ view.commitId >= r.batch
    BY <2>2 DEF Covers, CommittedThrough
  <2>4. r \in BronzeRow /\ view.commitId \in Nat \cup {None}
    BY <1>1 DEF TraceInv, RequestInv, View, BronzeOf
  <2>5. r.batch \in 0..view.commitId
    BY <2>3, <2>4 DEF BronzeRow
  <2> QED
    BY <1>1, <2>3, <2>5 DEF CheckpointInv
<1>2. TraceSpec => []OneRowInv
  BY OneRowInvariant
<1> QED
  BY <1>1, <1>2, TraceInvariant, CheckpointInvariant, LedgerInvariant, PTL

\* No LSN of a change is 0 (PostgreSQL begins its log above it), so a trace that
\* finds the newest change in bronze finds it, or a later change, in silver.
THEOREM SparkVisible ==
    ASSUME \A e \in Event : Lsn[e] # 0
    PROVE  TraceSpec => []SparkDoneIsVisible
<1>1. ASSUME TraceInv, LedgerInv PROVE SparkDoneIsVisible
  <2> SUFFICES ASSUME Traced, ~view.trouble, Answer.spark = "done"
               PROVE  Answer.trino = "done"
    BY DEF SparkDoneIsVisible
  <2>1. BronzeOf # {}
    BY DEF Answer
  <2>2. PICK r \in BronzeOf : TRUE
    BY <2>1
  <2>3. r \in view.bronze /\ r.event \in Event /\ Lsn[r.event] \in Nat
    <3>1. view.bronze \subseteq BronzeRow
      BY <1>1 DEF TraceInv, RequestInv, View
    <3> QED
      BY <2>2, <3>1, EventAssumption DEF BronzeOf, BronzeRow
  <2>4. Lsn[r.event] <= LsnShown(view.silver.event)
    BY <1>1, <2>3 DEF LedgerInv, Traced, PastSilver, PastEpoch, PastCommits
  <2>5. view.silver.event \in Event \cup {NoEvent}
    BY <1>1 DEF TraceInv, RequestInv, View, SilverRow
  <2>6. view.silver.event \in Event
    BY <2>3, <2>4, <2>5 DEF LsnShown, NoLsn
  <2>7. LsnShown(view.silver.event) \in Nat /\ LsnShown(view.silver.event) # 0
    BY <2>6, EventAssumption DEF LsnShown
  <2>8. \A l \in Lsns : l \in Nat
    <3>1. \A x \in view.tail : EventAt(x) \in Event
      <4>1. view.tail \subseteq Produced
        BY <1>1 DEF TraceInv, TailInv
      <4> QED
        BY <1>1, <4>1, ProducedIsMessage, BodyAssumption
        DEF TraceInv, SinkInv, Message, EventAt
    <3>2. \A row \in view.bronze : row.event \in Event
      BY <1>1 DEF TraceInv, RequestInv, View, BronzeRow
    <3> QED
      BY <3>1, <3>2, EventAssumption DEF Lsns
  <2>9. \A l \in Lsns : l <= Lsn[r.event]
    BY <2>2 DEF BronzeOf, Latest
  <2>10. Latest(LsnShown(view.silver.event))
    BY <2>3, <2>4, <2>7, <2>8, <2>9 DEF Latest
  <2>11. Lsns # {}
    BY <2>3 DEF Lsns
  <2> QED
    BY <2>7, <2>10, <2>11 DEF Answer
<1> QED
  BY <1>1, TraceInvariant, LedgerInvariant, PTL

-----------------------------------------------------------------------------
(* The lag                                                                 *)

\* Below the end offsets of every committed batch nothing is missing.
AllStored ==
    \A i \in 1..commits, x \in Coordinates : x[2] <= offsets[i][x[1]] => Stored(x)

LEMMA OffsetsSteps ==
    ASSUME TypeInv, [Next]_vars
    PROVE  \/ UNCHANGED <<offsets, commits>>
           \/ UNCHANGED commits /\ \E to : offsets' = Append(offsets, to)
           \/ commits' = 0
           \/ UNCHANGED offsets /\ commits' = commits + 1
<1>1. CASE CommitBatch
  <2>1. Len(offsets) = commits + 1
    BY <1>1 DEF CommitBatch, TypeInv, LogInv, Running
  <2> QED
    BY <1>1, <2>1 DEF CommitBatch
<1>2. CASE Trigger
  BY <1>2 DEF Trigger
<1> QED
  BY <1>1, <1>2
  DEF Next, Environment, Produce, Replay, Deploy, WipeCheckpoint, Job, StartUp,
     EnsureEpoch, StartQuery, Resume, ProcessBatch, BeginBatch, PlanBatch, MergeSilver,
     AppendBronze, MergeDlq, MergeRecord, Crash, vars, checkpoint

\* A record below planned end offsets is in the log.
LEMMA PlannedProduced ==
    ASSUME TypeInv, NEW i \in 1..Len(offsets), NEW x \in Coordinates, x[2] <= offsets[i][x[1]]
    PROVE  x \in Produced
<1>1. x[1] \in Partition /\ x[2] \in 1..MaxOffset
  BY DEF Coordinates
<1>2. offsets[i] \in [Partition -> 0..MaxOffset]
  <2>1. offsets \in Seq([Partition -> 0..MaxOffset])
    BY DEF TypeInv, TypeOK
  <2> QED
    BY <2>1, ElementOfSeq
<1>3. offsets[i][x[1]] <= Len(kafka[x[1]]) /\ Len(kafka[x[1]]) \in Nat
  BY <1>1, LenProperties DEF TypeInv, TypeOK, LogInv
<1>4. offsets[i][x[1]] \in Int /\ x[2] \in Int
  BY <1>1, <1>2, BoundAssumption
<1>5. x[2] <= Len(kafka[x[1]])
  BY <1>3, <1>4
<1> QED
  BY <1>5 DEF Produced

LEMMA AllStoredStep ==
    ASSUME TypeInv, TypeInv', CoverInv, NothingLost', AllStored, [Next]_vars
    PROVE  AllStored'
<1>1. commits \in Nat /\ commits' \in Nat /\ offsets \in Seq([Partition -> 0..MaxOffset])
  BY DEF TypeInv, TypeOK
<1>2. commits <= Len(offsets) /\ Len(offsets) \in Nat
  <2>1. Len(offsets) \in Nat
    BY <1>1, LenProperties
  <2>2. Len(offsets) \in {commits, commits + 1}
    BY DEF TypeInv, TypeOK
  <2> QED
    BY <1>1, <2>1, <2>2
<1>3. ASSUME NEW i \in 1..commits, NEW x \in Coordinates, x[2] <= offsets[i][x[1]]
      PROVE  Stored(x)'
  <2>1. i \in 1..Len(offsets)
    BY <1>1, <1>2
  <2>2. Stored(x) /\ x \in Produced
    BY <1>3, <2>1, PlannedProduced DEF AllStored
  <2> QED
    BY <2>2, StoredKept
<1>4. ASSUME NEW i \in 1..commits', NEW x \in Coordinates', x[2] <= offsets'[i][x[1]]
      PROVE  Stored(x)'
  <2>1. Coordinates' = Coordinates
    BY DEF Coordinates
  <2>2. CASE UNCHANGED <<offsets, commits>>
    BY <1>3, <1>4, <2>1, <2>2
  <2>3. CASE UNCHANGED commits /\ \E to : offsets' = Append(offsets, to)
    <3>1. i \in 1..commits /\ i \in 1..Len(offsets)
      BY <1>1, <1>2, <1>4, <2>3
    <3>2. offsets'[i] = offsets[i]
      BY <1>1, <2>3, <3>1
    <3> QED
      BY <1>3, <1>4, <2>1, <3>1, <3>2
  <2>4. CASE commits' = 0
    BY <1>4, <2>4
  <2>5. CASE UNCHANGED offsets /\ commits' = commits + 1
    <3>1. CASE i = commits'
      <4>1. Committed(x)'
        BY <1>1, <1>4, <2>5, <3>1 DEF Committed
      <4> QED
        BY <1>4, <4>1 DEF NothingLost
    <3>2. CASE i # commits'
      <4>1. i \in 1..commits
        BY <1>1, <1>4, <2>5, <3>2
      <4> QED
        BY <1>3, <1>4, <2>1, <2>5, <4>1
    <3> QED
      BY <3>1, <3>2
  <2> QED
    BY <2>2, <2>3, <2>4, <2>5, OffsetsSteps
<1> QED
  BY <1>4 DEF AllStored

\* The offsets that the monitor takes for committed are those of a batch of the
\* lineage that had its commit marker.
LagInv ==
    /\ reading # "done" => view.committed = <<>>
    /\ view.committed # <<>> /\ SameLineage =>
          \A x \in Coordinates : x[2] <= view.committed[x[1]] => x \in Produced /\ Stored(x)

LEMMA LagStep ==
    ASSUME TraceInv, CheckpointInv, AllStored, LagInv, [TraceNext]_traceVars
    PROVE  LagInv'
<1> USE DEF TraceInv, SinkInv
<1>1. view \in View /\ since \in Nat /\ since <= epochs /\ epochs \in Nat
  BY DEF RequestInv, TypeInv, TypeOK
<1>2. CASE (Stream \/ UNCHANGED <<vars, finished>>) /\ UNCHANGED request
  <2>1. UNCHANGED <<reading, view, since>>
    BY <1>2 DEF request
  <2>2. epochs' = epochs \/ epochs' = epochs + 1
    BY StreamSteps, EpochsGrow
  <2>3. SameLineage' => SameLineage
    BY <1>1, <2>1, <2>2 DEF SameLineage
  <2>4. \A x \in Produced : x \in Produced' /\ (Stored(x) => Stored(x)')
    BY StreamSteps, ProducedGrows, StoredKept
  <2> QED
    BY <2>1, <2>3, <2>4 DEF LagInv, Coordinates
<1>3. CASE Request /\ UNCHANGED <<vars, finished>>
  <2>1. /\ Produced' = Produced /\ \A x : Stored(x)' <=> Stored(x)
        /\ Coordinates' = Coordinates /\ UNCHANGED epochs
    BY <1>3 DEF vars, external, lake, Produced, Stored, At, EventAt, DlqId, IsReplay, Coordinates
  <2>2. CASE ReadCommitted
    <3>1. reading = "committed" /\ reading' = "done" /\ UNCHANGED since
      BY <2>2 DEF ReadCommitted, Reading, Go
    <3>2. view.committed = <<>>
      BY <3>1 DEF LagInv
    <3>3. SameLineage' <=> SameLineage
      BY <2>1, <3>1 DEF SameLineage
    <3>4. CASE view' = view
      BY <3>1, <3>2, <3>4 DEF LagInv
    <3>5. CASE view' # view
      <4>1. /\ view.commitId # None /\ view.commitId < Len(offsets)
            /\ view' = [view EXCEPT !.committed = offsets[view.commitId + 1]]
        BY <2>2, <3>5 DEF ReadCommitted
      <4>2. view'.committed = offsets[view.commitId + 1] /\ view.commitId \in Nat
        BY <1>1, <4>1 DEF View
      <4>3. SameLineage => view.commitId < commits
        <5>1. Wiped => offsets = <<>>
          BY DEF Wiped, DlqInv, LineageInv
        <5>2. ~Wiped
          BY <4>1, <4>2, <5>1, EmptySeq
        <5> QED
          BY <4>1, <5>2 DEF CheckpointInv
      <4>4. commits \in Nat /\ commits <= Len(offsets) /\ Len(offsets) \in Nat
        <5>1. offsets \in Seq([Partition -> 0..MaxOffset])
          BY DEF TypeInv, TypeOK
        <5> QED
          BY <5>1, LenProperties DEF TypeInv, TypeOK
      <4>5. SameLineage => view.commitId + 1 \in 1..commits
                           /\ view.commitId + 1 \in 1..Len(offsets)
        BY <4>2, <4>3, <4>4
      <4> PICK n : n = view.commitId + 1
        OBVIOUS
      <4>6. SameLineage => \A x \in Coordinates : x[2] <= offsets[n][x[1]] =>
                              x \in Produced /\ Stored(x)
        BY <4>5, PlannedProduced DEF AllStored
      <4> QED
        BY <2>1, <3>1, <3>3, <4>2, <4>6 DEF LagInv
    <3> QED
      BY <3>4, <3>5
  <2>3. CASE ReadEpoch
    <3>1. reading = "epoch" /\ view'.committed = view.committed
      BY <1>1, <2>3 DEF ReadEpoch, Reading, View
    <3> QED
      BY <3>1 DEF LagInv
  <2>4. CASE ~ReadCommitted /\ ~ReadEpoch
    <3>1. view'.committed = view.committed /\ UNCHANGED since /\ reading # "done"
      BY <1>1, <1>3, <2>4 DEF Request, StartTrace, ProbeKafka, ReadTail, ReadBronze, ReadDlq,
         ReadBatches, ReadSilver, TrinoFails, ReadCheckpoint, ListOffsets, ListCommits,
         ReadPlanned, Reading, Go, View
    <3> QED
      BY <3>1 DEF LagInv
  <2> QED
    BY <2>2, <2>3, <2>4
<1> QED
  BY <1>2, <1>3, StepKinds

\* Whatever lies below the offsets that the monitor takes for committed has been
\* produced and stored.
THEOREM LagInvariant == TraceSpec => []LagInv
<1>1. TraceInit => LagInv /\ AllStored
  BY DEF TraceInit, Init, LagInv, AllStored, Blank
<1>2. TraceInv /\ TraceInv' /\ CheckpointInv /\ AllStored /\ LagInv /\ [TraceNext]_traceVars
        => AllStored' /\ LagInv'
  <2>1. TraceInv /\ TraceInv' /\ AllStored /\ [TraceNext]_traceVars => AllStored'
    BY StreamSteps, AllStoredStep DEF TraceInv, SinkInv
  <2> QED
    BY <2>1, LagStep
<1> QED
  BY <1>1, <1>2, TraceInvariant, CheckpointInvariant, PTL DEF TraceSpec

\* A lag of 0 is the truth: with the end offsets read before the checkpoint and
\* the offsets of a committed batch, whatever happens between the readings,
\* every record up to those end offsets is in the lakehouse.
THEOREM NoLagStored ==
    ASSUME IsFiniteSet(Partition)
    PROVE  TraceSpec => []NoLagMeansStored
<1>1. ASSUME TraceInv, LagInv PROVE NoLagMeansStored
  <2> SUFFICES ASSUME SameLineage, Lag = 0, NEW x \in Coordinates,
                      x[1] \in Topics, x[2] <= view.ends[x[1]]
               PROVE  Stored(x)
    BY DEF NoLagMeansStored
  <2> DEFINE covered(p) == IF LagOffsets = <<>> THEN 0 ELSE LagOffsets[p]
             behind == {y \in Coordinates : /\ y[1] \in Topics
                                            /\ covered(y[1]) < y[2]
                                            /\ y[2] <= view.ends[y[1]]}
  <2>1. Cardinality(behind) = 0
    BY DEF Lag
  <2>2. IsFiniteSet(behind)
    BY CoordinatesAreFinite, FS_Subset
  <2>3. behind = {}
    BY <2>1, <2>2, FS_EmptySet
  <2>4. ~(covered(x[1]) < x[2])
    BY <2>3
  <2>5. x[1] \in Partition /\ x[2] \in Nat \ {0}
    <3>1. x[2] \in 1..MaxOffset
      BY DEF Coordinates
    <3> QED
      BY <3>1, BoundAssumption DEF Topics
  <2>6. view.committed # <<>>
    BY <2>4, <2>5 DEF LagOffsets
  <2>7. view.committed \in [Partition -> Nat]
    BY <1>1, <2>6 DEF TraceInv, RequestInv, View
  <2>8. x[2] <= view.committed[x[1]]
    BY <2>4, <2>5, <2>6, <2>7 DEF LagOffsets
  <2> QED
    BY <1>1, <2>6, <2>8 DEF LagInv
<1> QED
  BY <1>1, TraceInvariant, LagInvariant, PTL

-----------------------------------------------------------------------------
(* The two indexes of the tail                                             *)

Once(index, l) == \A m, n \in 1..l : index[m] = index[n] => m = n

\* The first c of the bucket are the members of M among the first l of the index,
\* in their order.
Holds(index, l, bucket, c, M) ==
    /\ \A i \in 1..c : \E n \in 1..l : index[n] = bucket[i] /\ index[n] \in M
    /\ \A n \in 1..l : index[n] \in M => \E i \in 1..c : bucket[i] = index[n]
    /\ \A i, j \in 1..c : i < j =>
          \E m, n \in 1..l : m < n /\ index[m] = bucket[i] /\ index[n] = bucket[j]

\* A record that the index does not hold becomes the last of its bucket.
LEMMA AppendOnce ==
    ASSUME NEW index, NEW longer, NEW l \in Nat, NEW x,
           Once(index, l), \A n \in 1..l : longer[n] = index[n] /\ index[n] # x,
           longer[l + 1] = x
    PROVE  Once(longer, l + 1)
  BY DEF Once

LEMMA AppendOther ==
    ASSUME NEW index, NEW longer, NEW l \in Nat, NEW bucket, NEW c \in Nat, NEW M,
           Holds(index, l, bucket, c, M), longer[l + 1] \notin M,
           \A n \in 1..l : longer[n] = index[n]
    PROVE  Holds(longer, l + 1, bucket, c, M)
<1>0. \A n \in 1..l : n \in 1..(l + 1)
  OBVIOUS
<1>4. \A n \in 1..(l + 1) : n \in 1..l \/ n = l + 1
  OBVIOUS
<1>1. ASSUME NEW i \in 1..c
      PROVE  \E n \in 1..(l + 1) : longer[n] = bucket[i] /\ longer[n] \in M
  <2> PICK n \in 1..l : index[n] = bucket[i] /\ index[n] \in M
    BY Zenon DEF Holds
  <2>1. longer[n] = index[n] /\ n \in 1..(l + 1)
    BY <1>0
  <2> QED
    BY <2>1
<1>2. ASSUME NEW n \in 1..(l + 1), longer[n] \in M
      PROVE  \E i \in 1..c : bucket[i] = longer[n]
  <2>1. n \in 1..l
    BY <1>2, <1>4
  <2>2. longer[n] = index[n] /\ index[n] \in M
    BY <1>2, <2>1
  <2>3. PICK i \in 1..c : bucket[i] = index[n]
    BY <2>1, <2>2, Zenon DEF Holds
  <2> QED
    BY <2>2, <2>3
<1>3. ASSUME NEW i \in 1..c, NEW j \in 1..c, i < j
      PROVE  \E m, n \in 1..(l + 1) :
               m < n /\ longer[m] = bucket[i] /\ longer[n] = bucket[j]
  <2> PICK m \in 1..l, n \in 1..l : m < n /\ index[m] = bucket[i] /\ index[n] = bucket[j]
    BY <1>3, Zenon DEF Holds
  <2>1. longer[m] = index[m] /\ longer[n] = index[n]
    OBVIOUS
  <2> QED
    BY <1>0, <2>1
<1> QED
  BY <1>1, <1>2, <1>3 DEF Holds

LEMMA SameBucket ==
    ASSUME NEW index, NEW l \in Nat, NEW bucket, NEW same, NEW c \in Nat, NEW M,
           Holds(index, l, bucket, c, M), \A i \in 1..c : same[i] = bucket[i]
    PROVE  Holds(index, l, same, c, M)
<1>1. \A i \in 1..c : \E n \in 1..l : index[n] = same[i] /\ index[n] \in M
  BY DEF Holds
<1>2. \A n \in 1..l : index[n] \in M => \E i \in 1..c : same[i] = index[n]
  BY DEF Holds
<1>3. ASSUME NEW i \in 1..c, NEW j \in 1..c, i < j
      PROVE  \E m, n \in 1..l : m < n /\ index[m] = same[i] /\ index[n] = same[j]
  BY <1>3 DEF Holds
<1> QED
  BY <1>1, <1>2, <1>3 DEF Holds

LEMMA AppendMine ==
    ASSUME NEW index, NEW longer, NEW l \in Nat, NEW fuller, NEW c \in Nat,
           NEW M, Holds(index, l, fuller, c, M), longer[l + 1] \in M,
           \A n \in 1..l : longer[n] = index[n],
           fuller[c + 1] = longer[l + 1]
    PROVE  Holds(longer, l + 1, fuller, c + 1, M)
<1>0. /\ \A n \in 1..l : n \in 1..(l + 1) /\ n < l + 1
      /\ \A n \in 1..(l + 1) : n \in 1..l \/ n = l + 1
      /\ l + 1 \in 1..(l + 1)
  OBVIOUS
<1>4. /\ \A i \in 1..c : i \in 1..(c + 1)
      /\ \A i \in 1..(c + 1) : i \in 1..c \/ i = c + 1
      /\ c + 1 \in 1..(c + 1)
      /\ \A i \in 1..(c + 1) : \A j \in 1..(c + 1) : i < j => i \in 1..c
  OBVIOUS
<1>1. ASSUME NEW i \in 1..(c + 1)
      PROVE  \E n \in 1..(l + 1) : longer[n] = fuller[i] /\ longer[n] \in M
  <2>1. CASE i \in 1..c
    <3> PICK n \in 1..l : index[n] = fuller[i] /\ index[n] \in M
      BY <2>1, Zenon DEF Holds
    <3>1. longer[n] = index[n] /\ n \in 1..(l + 1)
      BY <1>0
    <3> QED
      BY <2>1, <3>1
  <2>2. CASE i = c + 1
    BY <1>0, <2>2
  <2> QED
    BY <1>4, <2>1, <2>2
<1>2. ASSUME NEW n \in 1..(l + 1), longer[n] \in M
      PROVE  \E i \in 1..(c + 1) : fuller[i] = longer[n]
  <2>1. CASE n \in 1..l
    <3>1. longer[n] = index[n] /\ index[n] \in M
      BY <1>2, <2>1
    <3>2. PICK i \in 1..c : fuller[i] = index[n]
      BY <2>1, <3>1, Zenon DEF Holds
    <3> QED
      BY <1>4, <3>1, <3>2
  <2>2. CASE n = l + 1
    BY <1>4, <2>2
  <2> QED
    BY <1>0, <2>1, <2>2
<1>3. ASSUME NEW i \in 1..(c + 1), NEW j \in 1..(c + 1), i < j
      PROVE  \E m, n \in 1..(l + 1) :
               m < n /\ longer[m] = fuller[i] /\ longer[n] = fuller[j]
  <2>1. i \in 1..c
    BY <1>3, <1>4
  <2>2. CASE j \in 1..c
    <3> PICK m \in 1..l, n \in 1..l : m < n /\ index[m] = fuller[i] /\ index[n] = fuller[j]
      BY <1>3, <2>1, <2>2 DEF Holds
    <3> QED
      BY <1>0, <2>1, <2>2, Zenon
  <2>3. CASE j = c + 1
    <3> PICK m \in 1..l : index[m] = fuller[i]
      BY <2>1 DEF Holds
    <3> QED
      BY <1>0, <2>1, <2>3, Zenon
  <2> QED
    BY <1>4, <2>2, <2>3
<1> QED
  BY <1>1, <1>2, <1>3 DEF Holds

\* The oldest record is the first of its bucket.
LEMMA OldestIsFirst ==
    ASSUME NEW index, NEW l \in Nat, l > 0, NEW bucket, NEW c \in Nat, NEW M,
           Once(index, l), Holds(index, l, bucket, c, M), index[1] \in M
    PROVE  c > 0 /\ bucket[1] = index[1]
<1>1. PICK i \in 1..c : bucket[i] = index[1]
  BY DEF Holds
<1>2. ASSUME 1 < i PROVE FALSE
  <2>0. 1 \in 1..c
    OBVIOUS
  <2>1. PICK m \in 1..l, n \in 1..l : m < n /\ index[m] = bucket[1] /\ index[n] = bucket[i]
    BY <1>2, <2>0, Zenon DEF Holds
  <2>2. n = 1
    BY <1>1, <2>1 DEF Once
  <2> QED
    BY <2>1, <2>2
<1>3. i = 1
  BY <1>2
<1> QED
  BY <1>1, <1>3

LEMMA WithoutFirst ==
    ASSUME NEW S, NEW s \in Seq(S), s # <<>>
    PROVE  Without(s, Head(s)) = Tail(s)
<1> PICK l \in Nat : l = Len(s) /\ DOMAIN s = 1..l /\ l > 0
  BY EmptySeq
<1> DEFINE P(j) == s[j] = Head(s) /\ \A n \in 1..(j - 1) : s[n] # Head(s)
           i == CHOOSE j \in DOMAIN s : P(j)
<1>1. P(1) /\ 1 \in DOMAIN s
  OBVIOUS
<1>2. i \in 1..l /\ P(i)
  BY <1>1
<1>3. i = 1
  BY <1>2
<1>4. Without(s, Head(s)) = SubSeq(s, 1, i - 1) \o SubSeq(s, i + 1, Len(s))
  BY <1>1 DEF Without
<1> HIDE DEF i
<1>5. SubSeq(s, 1, 0) = <<>>
  OBVIOUS
<1>6. Tail(s) = SubSeq(s, 2, Len(s)) /\ Tail(s) \in Seq(S)
  BY TailIsSubSeq
<1> QED
  BY <1>3, <1>4, <1>5, <1>6, ConcatEmptySeq

\* The oldest record leaves the index and its bucket.
LEMMA EvictOnce ==
    ASSUME NEW index, NEW rest, NEW l \in Nat, Once(index, l + 1),
           \A n \in 1..l : rest[n] = index[n + 1]
    PROVE  Once(rest, l)
<1> SUFFICES ASSUME NEW m \in 1..l, NEW n \in 1..l, rest[m] = rest[n] PROVE m = n
  BY DEF Once
<1>1. m + 1 \in 1..(l + 1) /\ n + 1 \in 1..(l + 1)
  OBVIOUS
<1>2. m + 1 = n + 1
  BY <1>1 DEF Once
<1> QED
  BY <1>2

\* What is not the oldest is among the rest.
LEMMA AmongRest ==
    ASSUME NEW index, NEW rest, NEW l \in Nat, \A n \in 1..l : rest[n] = index[n + 1],
           NEW m \in 1..(l + 1), m # 1
    PROVE  m - 1 \in 1..l /\ rest[m - 1] = index[m]
<1>1. m - 1 \in 1..l /\ (m - 1) + 1 = m
  OBVIOUS
<1> QED
  BY <1>1

LEMMA EvictOther ==
    ASSUME NEW index, NEW rest, NEW l \in Nat, NEW bucket, NEW c \in Nat, NEW M,
           Holds(index, l + 1, bucket, c, M), index[1] \notin M,
           \A n \in 1..l : rest[n] = index[n + 1]
    PROVE  Holds(rest, l, bucket, c, M)
<1>1. ASSUME NEW i \in 1..c
      PROVE  \E n \in 1..l : rest[n] = bucket[i] /\ rest[n] \in M
  <2>1. PICK n \in 1..(l + 1) : index[n] = bucket[i] /\ index[n] \in M
    BY Zenon DEF Holds
  <2>2. n # 1
    BY <2>1
  <2>3. n - 1 \in 1..l /\ rest[n - 1] = index[n]
    BY <2>2, AmongRest
  <2> QED
    BY <2>1, <2>3, Zenon
<1>2. ASSUME NEW n \in 1..l, rest[n] \in M
      PROVE  \E i \in 1..c : bucket[i] = rest[n]
  <2>1. n + 1 \in 1..(l + 1) /\ rest[n] = index[n + 1]
    OBVIOUS
  <2>2. PICK i \in 1..c : bucket[i] = index[n + 1]
    BY <1>2, <2>1 DEF Holds
  <2> QED
    BY <2>1, <2>2
<1>3. ASSUME NEW i \in 1..c, NEW j \in 1..c, i < j
      PROVE  \E m, n \in 1..l : m < n /\ rest[m] = bucket[i] /\ rest[n] = bucket[j]
  <2>1. PICK m \in 1..(l + 1), n \in 1..(l + 1) :
          m < n /\ index[m] = bucket[i] /\ index[n] = bucket[j]
    BY <1>3, Zenon DEF Holds
  <2>2. PICK o \in 1..(l + 1) : index[o] = bucket[i] /\ index[o] \in M
    BY Zenon DEF Holds
  <2>3. index[m] \in M
    BY <2>1, <2>2, Zenon
  <2>4. m # 1 /\ n # 1 /\ m - 1 < n - 1
    BY <2>1, <2>3
  <2>5. /\ m - 1 \in 1..l /\ rest[m - 1] = index[m]
        /\ n - 1 \in 1..l /\ rest[n - 1] = index[n]
    BY <2>4, AmongRest
  <2> QED
    BY <2>1, <2>4, <2>5, Zenon
<1> QED
  BY <1>1, <1>2, <1>3 DEF Holds

\* What follows the first, up to c more.
AfterFirst(bucket, c) == [i \in 1..c |-> bucket[i + 1]]

LEMMA EvictMine ==
    ASSUME NEW index, NEW rest, NEW l \in Nat, NEW bucket, NEW c \in Nat, NEW M,
           Once(index, l + 1), Holds(index, l + 1, bucket, c + 1, M), bucket[1] = index[1],
           \A n \in 1..l : rest[n] = index[n + 1]
    PROVE  Holds(rest, l, AfterFirst(bucket, c), c, M)
<1>5. PICK left : left = AfterFirst(bucket, c)
  OBVIOUS
<1> \A i \in 1..c : left[i] = bucket[i + 1]
  BY <1>5 DEF AfterFirst
<1>0. \A i \in 1..c : i + 1 \in 1..(c + 1) /\ 1 < i + 1 /\ 1 \in 1..(c + 1)
  OBVIOUS
\* In the bucket, only the first is the oldest.
<1>4. ASSUME NEW i \in 1..c
      PROVE  \E n \in 1..(l + 1) :
               n # 1 /\ index[n] = left[i] /\ index[n] \in M
  <2>1. PICK m \in 1..(l + 1), n \in 1..(l + 1) :
          m < n /\ index[m] = bucket[1] /\ index[n] = bucket[i + 1]
    BY <1>0, Zenon DEF Holds
  <2>2. PICK o \in 1..(l + 1) : index[o] = bucket[i + 1] /\ index[o] \in M
    <3>1. i + 1 \in 1..(c + 1)
      BY <1>0
    <3> QED
      BY <3>1, Zenon DEF Holds
  <2>3. n # 1
    BY <2>1
  <2>4. index[n] \in M
    BY <2>1, <2>2, Zenon
  <2> QED
    BY <2>1, <2>3, <2>4, Zenon
<1>1. ASSUME NEW i \in 1..c
      PROVE  \E n \in 1..l : rest[n] = left[i] /\ rest[n] \in M
  <2>1. PICK n \in 1..(l + 1) : n # 1 /\ index[n] = left[i] /\ index[n] \in M
    BY <1>4
  <2>2. n - 1 \in 1..l /\ rest[n - 1] = index[n]
    BY <2>1, AmongRest
  <2> QED
    BY <2>1, <2>2, Zenon
<1>2. ASSUME NEW n \in 1..l, rest[n] \in M
      PROVE  \E i \in 1..c : left[i] = rest[n]
  <2>1. n + 1 \in 1..(l + 1) /\ rest[n] = index[n + 1] /\ 1 \in 1..(l + 1) /\ n + 1 # 1
    OBVIOUS
  <2>2. PICK i \in 1..(c + 1) : bucket[i] = index[n + 1]
    BY <1>2, <2>1, Zenon DEF Holds
  <2>3. i # 1
    BY <2>1, <2>2, Zenon DEF Once
  <2>4. i - 1 \in 1..c /\ left[i - 1] = bucket[i]
    BY <2>3, AmongRest
  <2> QED
    BY <2>1, <2>2, <2>4, Zenon
<1>3. ASSUME NEW i \in 1..c, NEW j \in 1..c, i < j
      PROVE  \E m, n \in 1..l : m < n /\ rest[m] = left[i] /\ rest[n] = left[j]
  <2>0. i + 1 < j + 1
    BY <1>3
  <2>1. PICK m \in 1..(l + 1), n \in 1..(l + 1) :
          m < n /\ index[m] = bucket[i + 1] /\ index[n] = bucket[j + 1]
    <3>1. i + 1 \in 1..(c + 1) /\ j + 1 \in 1..(c + 1)
      BY <1>0
    <3> QED
      BY <2>0, <3>1 DEF Holds
  <2>2. PICK o \in 1..(l + 1) : o # 1 /\ index[o] = left[i]
    BY <1>4
  <2>3. o = m
    BY <2>1, <2>2 DEF Once
  <2>4. m # 1 /\ n # 1 /\ m - 1 < n - 1
    BY <2>1, <2>2, <2>3
  <2>5. /\ m - 1 \in 1..l /\ rest[m - 1] = index[m]
        /\ n - 1 \in 1..l /\ rest[n - 1] = index[n]
    BY <2>4, AmongRest
  <2> QED
    BY <2>1, <2>4, <2>5, Zenon
<1> QED
  BY <1>1, <1>2, <1>3, <1>5 DEF Holds

\* The produced records of a key.
RecordsOf(k) == {x \in Produced : HasKey(x) /\ RecordKey(x) = k}

IndexInv ==
    /\ Once(events, Len(events))
    /\ \A k \in Key : Holds(events, Len(events), byKey[k], Len(byKey[k]), RecordsOf(k))
    /\ \A n \in DOMAIN events : events[n][1] \in Topics /\ events[n][2] <= next[events[n][1]]

LEMMA RecordHasKey ==
    ASSUME TypeInv, NEW x \in Produced
    PROVE  RecordKey(x) \in Key
BY ProducedIsMessage, BodyAssumption, EventAssumption DEF Message, EventAt, RecordKey

LEMMA IndexInvAgrees ==
    ASSUME TailInv, IndexInv
    PROVE  IndexAgrees
<1>0. PICK l \in Nat :
        l = Len(events) /\ DOMAIN events = 1..l /\ \A n \in 1..l : events[n] \in Produced
  BY DEF TailInv
<1>1. \A m, n \in DOMAIN events : events[m] = events[n] => m = n
  BY <1>0 DEF IndexInv, Once
<1>2. ASSUME NEW k \in Key
      PROVE  /\ {byKey[k][i] : i \in DOMAIN byKey[k]} =
                  {events[n] : n \in {m \in DOMAIN events :
                                        HasKey(events[m]) /\ RecordKey(events[m]) = k}}
             /\ \A i, j \in DOMAIN byKey[k] : i < j =>
                   \E m, n \in DOMAIN events :
                      m < n /\ events[m] = byKey[k][i] /\ events[n] = byKey[k][j]
  <2>0. PICK c \in Nat : c = Len(byKey[k]) /\ DOMAIN byKey[k] = 1..c
    BY DEF TailInv
  <2>1. Holds(events, l, byKey[k], c, RecordsOf(k))
    BY <1>0, <2>0 DEF IndexInv
  <2>2. \A n \in 1..l : events[n] \in RecordsOf(k)
                         <=> HasKey(events[n]) /\ RecordKey(events[n]) = k
    BY <1>0 DEF RecordsOf
  <2>3. /\ \A i \in 1..c : \E n \in 1..l : events[n] = byKey[k][i] /\ events[n] \in RecordsOf(k)
        /\ \A n \in 1..l : events[n] \in RecordsOf(k) => \E i \in 1..c : byKey[k][i] = events[n]
        /\ \A i, j \in 1..c : i < j =>
             \E m, n \in 1..l : m < n /\ events[m] = byKey[k][i] /\ events[n] = byKey[k][j]
    BY <2>1, Zenon DEF Holds
  <2>4. {byKey[k][i] : i \in 1..c} =
           {events[n] : n \in {m \in 1..l : HasKey(events[m]) /\ RecordKey(events[m]) = k}}
    BY <2>2, <2>3
  <2>5. {byKey[k][i] : i \in DOMAIN byKey[k]} =
           {events[n] : n \in {m \in DOMAIN events :
                                 HasKey(events[m]) /\ RecordKey(events[m]) = k}}
    BY <1>0, <2>0, <2>4, Zenon
  <2>6. \A i, j \in DOMAIN byKey[k] : i < j =>
          \E m, n \in DOMAIN events :
             m < n /\ events[m] = byKey[k][i] /\ events[n] = byKey[k][j]
    <3>1. \A i, j \in 1..c : i < j =>
            \E m, n \in 1..l : m < n /\ events[m] = byKey[k][i] /\ events[n] = byKey[k][j]
      BY <2>3
    <3> SUFFICES ASSUME NEW i \in DOMAIN byKey[k], NEW j \in DOMAIN byKey[k], i < j
                 PROVE  \E m, n \in DOMAIN events :
                          m < n /\ events[m] = byKey[k][i] /\ events[n] = byKey[k][j]
      OBVIOUS
    <3>2. i \in 1..c /\ j \in 1..c
      BY <2>0
    <3>3. PICK m \in 1..l, n \in 1..l :
            m < n /\ events[m] = byKey[k][i] /\ events[n] = byKey[k][j]
      BY <3>1, <3>2, Zenon
    <3>4. m \in DOMAIN events /\ n \in DOMAIN events
      BY <1>0
    <3> QED
      BY <3>3, <3>4
  <2> QED
    BY <2>5, <2>6
<1> QED
  BY <1>1, <1>2 DEF IndexAgrees

\* A new record enters the index, and the oldest may leave it.
LEMMA HandleAgrees ==
    ASSUME TypeInv, TailInv, IndexInv, NEW x \in Produced,
           \A n \in DOMAIN events : events[n] # x, Handle(x)
    PROVE  /\ Once(events', Len(events'))
           /\ \A k \in Key : Holds(events', Len(events'), byKey'[k], Len(byKey'[k]), RecordsOf(k))
<1>0. PICK key \in Key : key = RecordKey(x)
  BY RecordHasKey
<1>a. PICK l \in Nat : l = Len(events) /\ DOMAIN events = 1..l
  BY DEF TailInv
<1>b. PICK longer : longer = Append(events, x)
  OBVIOUS
<1>c. PICK added : added = IF HasKey(x) THEN [byKey EXCEPT ![key] = Append(@, x)]
                           ELSE byKey
  OBVIOUS
<1>1. /\ longer \in Seq(Produced) /\ Len(longer) = l + 1 /\ longer[l + 1] = x
      /\ \A n \in 1..l : longer[n] = events[n]
  BY <1>a, <1>b, AppendProperties DEF TailInv
<1>2. /\ added \in [Key -> Seq(Produced)]
      /\ HasKey(x) => added[key] = Append(byKey[key], x)
      /\ \A k \in Key : ~HasKey(x) \/ k # key => added[k] = byKey[k]
  <2>1. byKey \in [Key -> Seq(Produced)]
    BY DEF TailInv
  <2>2. Append(byKey[key], x) \in Seq(Produced)
    BY <2>1, AppendProperties
  <2> QED
    BY <1>c, <2>1, <2>2
<1>3. Once(longer, l + 1)
  <2>1. Once(events, l) /\ \A n \in 1..l : longer[n] = events[n] /\ events[n] # x
    BY <1>a, <1>1 DEF IndexInv
  <2> QED
    BY <1>1, <2>1, AppendOnce
<1>4. ASSUME NEW k \in Key
      PROVE  Holds(longer, l + 1, added[k], Len(added[k]), RecordsOf(k))
  <2>1. Holds(events, l, byKey[k], Len(byKey[k]), RecordsOf(k))
    BY <1>a DEF IndexInv
  <2>2. byKey[k] \in Seq(Produced) /\ Len(byKey[k]) \in Nat
    BY DEF TailInv
  <2>3. CASE ~HasKey(x) \/ k # key
    <3>1. longer[l + 1] \notin RecordsOf(k) /\ added[k] = byKey[k]
      BY <1>0, <1>1, <1>2, <2>3 DEF RecordsOf
    <3> QED
      BY <1>1, <2>1, <2>2, <3>1, AppendOther
  <2>4. CASE HasKey(x) /\ k = key
    <3>0. PICK c \in Nat : c = Len(byKey[k])
      BY <2>2
    <3>1. longer[l + 1] \in RecordsOf(k)
      BY <1>0, <1>1, <2>4 DEF RecordsOf
    <3>a. added[k] = Append(byKey[k], x) /\ x = longer[l + 1]
      BY <1>1, <1>2, <2>4
    <3>b. /\ Len(Append(byKey[k], x)) = c + 1 /\ Append(byKey[k], x)[c + 1] = x
          /\ \A i \in 1..c : Append(byKey[k], x)[i] = byKey[k][i]
      BY <2>2, <3>0, AppendProperties
    <3>2. /\ Len(added[k]) = c + 1 /\ added[k][c + 1] = longer[l + 1]
      BY <3>a, <3>b
    <3>c. \A i \in 1..c : added[k][i] = byKey[k][i]
      BY <3>a, <3>b
    <3>d. \A n \in 1..l : longer[n] = events[n]
      BY <1>1
    <3>e. added[k][c + 1] = longer[l + 1]
      BY <3>2
    <3>3. Holds(events, l, byKey[k], c, RecordsOf(k))
      BY <2>1, <3>0
    <3>f. Holds(events, l, added[k], c, RecordsOf(k))
      BY <3>3, <3>c, SameBucket
    <3>4. Holds(longer, l + 1, added[k], c + 1, RecordsOf(k))
      BY <3>1, <3>d, <3>e, <3>f, AppendMine, Zenon
    <3> QED
      BY <3>2, <3>4
  <2> QED
    BY <2>3, <2>4
<1>5. /\ Len(longer) <= MaxEvents => events' = longer /\ byKey' = added
      /\ ~(Len(longer) <= MaxEvents) =>
            /\ events' = Tail(longer)
            /\ byKey' = IF HasKey(Head(longer))
                          THEN [added EXCEPT ![RecordKey(Head(longer))] =
                                  Without(@, Head(longer))]
                          ELSE added
  <2>1. ~\E i \in DOMAIN events : events[i] = x
    OBVIOUS
  <2>2. longer = IF \E i \in DOMAIN events : events[i] = x THEN events ELSE Append(events, x)
    BY <1>b, <2>1
  <2>3. added = IF HasKey(x) THEN [byKey EXCEPT ![RecordKey(x)] = Append(@, x)] ELSE byKey
    BY <1>0, <1>c
  <2> QED
    BY <2>2, <2>3, Zenon DEF Handle
<1>6. CASE Len(longer) <= MaxEvents
  BY <1>1, <1>3, <1>4, <1>5, <1>6
<1>7. CASE ~(Len(longer) <= MaxEvents)
  <2>a. PICK old \in Produced : old = longer[1] /\ old = Head(longer)
    BY <1>1
  <2>b. PICK mine \in Key : mine = RecordKey(old)
    BY RecordHasKey
  <2>c. PICK c \in Nat : c = Len(added[mine])
    BY <1>2
  <2>1. ASSUME HasKey(old)
        PROVE  c > 0 /\ added[mine][1] = longer[1]
    <3>1. longer[1] \in RecordsOf(mine)
      BY <2>a, <2>b, <2>1 DEF RecordsOf
    <3>2. Holds(longer, l + 1, added[mine], c, RecordsOf(mine))
      BY <1>4, <2>c
    <3>3. l + 1 \in Nat /\ l + 1 > 0
      OBVIOUS
    <3> QED
      BY <1>3, <3>1, <3>2, <3>3, OldestIsFirst, Zenon
  <2>2. ASSUME HasKey(old)
        PROVE  Without(added[mine], old) = Tail(added[mine])
    <3>1. added[mine] \in Seq(Produced) /\ added[mine] # <<>> /\ Head(added[mine]) = old
      BY <1>2, <2>a, <2>c, <2>1, <2>2, EmptySeq
    <3> QED
      BY <3>1, WithoutFirst
  <2>3. /\ Len(Tail(longer)) = l /\ \A n \in 1..l : Tail(longer)[n] = longer[n + 1]
    <3>1. longer # <<>>
      BY <1>1, EmptySeq
    <3> QED
      BY <1>1, <3>1, HeadTailProperties
  <2>d. PICK rest : rest = Tail(longer)
    OBVIOUS
  <2>4. /\ events' = rest
        /\ HasKey(old) => byKey' = [added EXCEPT ![mine] = Tail(added[mine])]
        /\ ~HasKey(old) => byKey' = added
    BY <1>5, <1>7, <2>a, <2>b, <2>d, <2>2
  <2>e. \A n \in 1..l : rest[n] = longer[n + 1]
    BY <2>3, <2>d
  <2>5. Once(rest, l)
    BY <1>3, <2>e, EvictOnce
  <2>6. ASSUME NEW k \in Key
        PROVE  Holds(rest, l, byKey'[k], Len(byKey'[k]), RecordsOf(k))
    <3>1. CASE ~HasKey(old) \/ k # mine
      <4>1. longer[1] \notin RecordsOf(k)
        BY <2>a, <2>b, <3>1 DEF RecordsOf
      <4>2. byKey'[k] = added[k]
        BY <1>2, <2>4, <3>1
      <4>5. PICK d \in Nat : d = Len(added[k])
        BY <1>2
      <4>3. Holds(longer, l + 1, added[k], d, RecordsOf(k))
        BY <1>4, <4>5
      <4>4. Holds(rest, l, added[k], d, RecordsOf(k))
        BY <2>e, <4>1, <4>3, EvictOther, Zenon
      <4> QED
        BY <4>2, <4>4, <4>5
    <3>2. CASE HasKey(old) /\ k = mine
      <4>1. byKey'[k] = Tail(added[k])
        BY <1>2, <2>4, <3>2
      <4>d. PICK d \in Nat : d + 1 = Len(added[k])
        <5>1. c - 1 \in Nat /\ (c - 1) + 1 = c
          BY <2>1, <3>2
        <5> QED
          BY <2>c, <3>2, <5>1
      <4>2. /\ Len(Tail(added[k])) = d
            /\ \A i \in 1..d : Tail(added[k])[i] = added[k][i + 1]
        <5>1. added[k] \in Seq(Produced) /\ added[k] # <<>>
          BY <1>2, <4>d, EmptySeq
        <5> QED
          BY <4>d, <5>1, HeadTailProperties
      <4>3. added[k][1] = longer[1]
        BY <2>1, <3>2
      <4>4. Holds(longer, l + 1, added[k], d + 1, RecordsOf(k))
        BY <1>4, <4>d
      <4>5. Holds(rest, l, AfterFirst(added[k], d), d, RecordsOf(k))
        BY <1>3, <2>e, <4>3, <4>4, EvictMine, Zenon
      <4>6. \A i \in 1..d : Tail(added[k])[i] = AfterFirst(added[k], d)[i]
        BY <4>2 DEF AfterFirst
      <4>7. Holds(rest, l, Tail(added[k]), d, RecordsOf(k))
        BY <4>5, <4>6, SameBucket
      <4> QED
        BY <4>1, <4>2, <4>7
    <3> QED
      BY <3>1, <3>2
  <2> QED
    BY <2>3, <2>4, <2>5, <2>6, <2>d
<1> QED
  BY <1>6, <1>7

LEMMA SameKeys ==
    ASSUME NEW index, NEW l \in Nat, NEW bucket, NEW c \in Nat, NEW M, NEW N,
           Holds(index, l, bucket, c, M), \A n \in 1..l : index[n] \in N <=> index[n] \in M
    PROVE  Holds(index, l, bucket, c, N)
<1>1. ASSUME NEW i \in 1..c
      PROVE  \E n \in 1..l : index[n] = bucket[i] /\ index[n] \in N
  BY Zenon DEF Holds
<1>2. \A n \in 1..l : index[n] \in N => \E i \in 1..c : bucket[i] = index[n]
  BY Zenon DEF Holds
<1> QED
  BY <1>1, <1>2, Zenon DEF Holds

LEMMA IndexStep ==
    ASSUME TypeInv, RequestInv, TailInv, IndexInv, [TraceNext]_traceVars
    PROVE  IndexInv'
<1>1. /\ Produced \subseteq Produced'
      /\ \A x \in Produced : RecordKey(x)' = RecordKey(x) /\ (HasKey(x)' <=> HasKey(x))
  BY StreamSteps, MessagesStay DEF RecordKey, HasKey, EventAt, At
<1>2. CASE UNCHANGED tail
  <2>1. UNCHANGED <<next, events, byKey>>
    BY <1>2 DEF tail
  <2>2. ASSUME NEW k \in Key
        PROVE  Holds(events', Len(events'), byKey'[k], Len(byKey'[k]), RecordsOf(k)')
    <3>1. PICK l \in Nat : l = Len(events) /\ \A n \in 1..l : events[n] \in Produced
      BY DEF TailInv
    <3>2. PICK c \in Nat : c = Len(byKey[k])
      BY DEF TailInv
    <3>3. \A n \in 1..l : events[n] \in RecordsOf(k)' <=> events[n] \in RecordsOf(k)
      BY <1>1, <3>1 DEF RecordsOf
    <3>4. Holds(events, l, byKey[k], c, RecordsOf(k))
      BY <3>1, <3>2 DEF IndexInv
    <3>5. Holds(events, l, byKey[k], c, RecordsOf(k)')
      BY <3>3, <3>4, SameKeys
    <3> QED
      BY <2>1, <3>1, <3>2, <3>5
  <2> QED
    BY <2>1, <2>2 DEF IndexInv
<1>3. ASSUME NEW p \in Topics, Poll(p) PROVE IndexInv'
  <2>1. UNCHANGED kafka /\ next[p] < Len(kafka[p]) /\ next' = [next EXCEPT ![p] = @ + 1]
    BY <1>3 DEF Poll, vars, external
  <2>2. next \in [Topics -> Nat]
    BY DEF TailInv
  <2>3. \A k \in Key : RecordsOf(k)' = RecordsOf(k)
    BY <2>1 DEF RecordsOf, Produced, HasKey, RecordKey, EventAt, At
  <2>4. /\ \A q \in Topics : next[q] <= next'[q]
        /\ next'[p] = next[p] + 1
    BY <2>1, <2>2
  <2>5. \A n \in DOMAIN events :
          events[n][1] \in Topics /\ events[n][2] <= next[events[n][1]]
    BY DEF IndexInv
  <2>6. \A n \in DOMAIN events : events[n] \in Produced /\ events[n][2] \in Nat
    <3>1. \A x \in Produced : x[2] \in Nat
      BY DEF Produced, Coordinates
    <3> QED
      BY <3>1 DEF TailInv
  <2>7. \A n \in DOMAIN events :
          events[n][1] \in Topics /\ events[n][2] <= next'[events[n][1]]
    <3> SUFFICES ASSUME NEW n \in DOMAIN events
                 PROVE  events[n][1] \in Topics /\ events[n][2] <= next'[events[n][1]]
      OBVIOUS
    <3> PICK q \in Topics : q = events[n][1]
      BY <2>5
    <3>1. next[q] \in Nat /\ next'[q] \in Nat
      BY <2>1, <2>2
    <3> QED
      BY <2>4, <2>5, <2>6, <3>1
  <2>8. CASE UNCHANGED <<events, byKey>>
    BY <2>3, <2>7, <2>8 DEF IndexInv
  <2>9. CASE Handle(<<p, next[p] + 1>>)
    <3>1. PICK x : x = <<p, next[p] + 1>>
      OBVIOUS
    <3>2. x \in Produced
      <4>1. p \in Partition /\ Len(kafka[p]) \in 0..MaxOffset
        BY DEF Topics, TypeInv, TypeOK
      <4>2. next[p] + 1 \in 1..MaxOffset /\ next[p] + 1 <= Len(kafka[p])
        BY <2>1, <2>2, <4>1, BoundAssumption
      <4> QED
        BY <3>1, <4>1, <4>2 DEF Produced, Coordinates
    <3>3. \A n \in DOMAIN events : events[n] # x
      BY <2>2, <2>5, <3>1
    <3>4. Handle(x)
      BY <2>9, <3>1
    <3>5. /\ Once(events', Len(events'))
          /\ \A k \in Key : Holds(events', Len(events'), byKey'[k], Len(byKey'[k]), RecordsOf(k))
      BY <3>2, <3>3, <3>4, HandleAgrees
    <3>6. \A n \in DOMAIN events' : events'[n] = x \/ \E m \in DOMAIN events : events'[n] = events[m]
      <4>1. PICK longer : longer = Append(events, x)
        OBVIOUS
      <4>2. events' = longer \/ events' = Tail(longer)
        <5>1. ~\E i \in DOMAIN events : events[i] = x
          BY <3>3
        <5> QED
          BY <3>4, <4>1, <5>1 DEF Handle
      <4>3. events \in Seq(Produced) /\ longer \in Seq(Produced) /\ longer # <<>>
        BY <3>2, <4>1, AppendProperties, EmptySeq DEF TailInv
      <4>4. \A n \in DOMAIN longer : longer[n] = x \/ \E m \in DOMAIN events : longer[n] = events[m]
        BY <3>2, <4>1, <4>3, AppendProperties
      <4>5. \A n \in DOMAIN Tail(longer) :
              n + 1 \in DOMAIN longer /\ Tail(longer)[n] = longer[n + 1]
        BY <4>3, HeadTailProperties
      <4> QED
        BY <4>2, <4>4, <4>5
    <3>7. x[1] \in Topics /\ x[2] <= next'[x[1]]
      BY <2>2, <2>4, <3>1
    <3>8. \A n \in DOMAIN events' :
            events'[n][1] \in Topics /\ events'[n][2] <= next'[events'[n][1]]
      BY <2>7, <3>6, <3>7
    <3> QED
      BY <2>3, <3>5, <3>8 DEF IndexInv
  <2> QED
    BY <1>3, <2>8, <2>9 DEF Poll
<1>4. CASE Reconnect
  <2>1. UNCHANGED <<kafka, events, byKey>> /\ next' = [p \in Topics |-> Len(kafka[p])]
    BY <1>4 DEF Reconnect, vars, external, Position, Ends
  <2>2. \A k \in Key : RecordsOf(k)' = RecordsOf(k)
    BY <2>1 DEF RecordsOf, Produced, HasKey, RecordKey, EventAt, At
  <2>3. \A n \in DOMAIN events :
          events[n][1] \in Topics /\ events[n][2] <= next'[events[n][1]]
    <3> SUFFICES ASSUME NEW n \in DOMAIN events
                 PROVE  events[n][1] \in Topics /\ events[n][2] <= next'[events[n][1]]
      OBVIOUS
    <3>1. events[n][1] \in Topics /\ events[n][2] <= next[events[n][1]]
      BY DEF IndexInv
    <3>2. events[n][2] \in Nat
      BY DEF TailInv, Produced, Coordinates
    <3>3. PICK q \in Topics : q = events[n][1]
      BY <3>1
    <3>4. next[q] <= Len(kafka[q]) /\ next[q] \in Nat /\ next'[q] = Len(kafka[q])
      BY <2>1 DEF TailInv
    <3>5. Len(kafka[q]) \in Nat
      BY DEF Topics, TypeInv, TypeOK
    <3> QED
      BY <3>1, <3>2, <3>3, <3>4, <3>5
  <2> QED
    BY <2>1, <2>2, <2>3 DEF IndexInv
<1>5. CASE RestartApi
  <2>1. events' = <<>> /\ byKey' = [k \in Key |-> <<>>]
    BY <1>5 DEF RestartApi
  <2> QED
    BY <2>1, EmptySeq DEF IndexInv, Once, Holds
<1> QED
  BY <1>2, <1>3, <1>4, <1>5
  DEF TraceNext, traceVars, Stream, Tailing, Request, StartTrace, ProbeKafka, ReadTail,
  ReadBronze, ReadDlq, ReadBatches, ReadSilver, TrinoFails, ReadCheckpoint, ReadEpoch,
  ListOffsets, ListCommits, ReadPlanned, ReadCommitted

\* The buckets by key and the index stay two views of the same records: a record is
\* polled after all that are indexed, and the oldest in the index is the first of its
\* bucket (tracer.py 137-149).
THEOREM IndexFollows == TraceSpec => []IndexAgrees
<1>1. TraceInit => IndexInv
  BY EmptySeq DEF TraceInit, IndexInv, Once, Holds
<1>2. TraceInv /\ IndexInv /\ [TraceNext]_traceVars => IndexInv'
  BY IndexStep DEF TraceInv, SinkInv
<1>3. TraceInv /\ IndexInv => IndexAgrees
  BY IndexInvAgrees DEF TraceInv
<1> QED
  BY <1>1, <1>2, <1>3, TraceInvariant, PTL DEF TraceSpec

-----------------------------------------------------------------------------
(* A settled stream.  What an epoch has appended is in the record of its   *)
(* batch, but for the batch that is still to be finished.                  *)

Processing == {"plan", "silver", "bronze", "dlq", "record"}

RecordedInv ==
    /\ stage \in Processing => Rows # {}
    /\ stage = "commit" => Rows = {} \/ BatchId \in DOMAIN batches
    /\ metadata => \A row \in bronze : row.epoch = epochFile =>
          \/ Unfinished /\ row.batch = Batch /\ Rows # {}
          \/ <<row.epoch, row.batch>> \in DOMAIN batches

\* The records of a planned batch stay what they are.
LEMMA PlannedRowsStay ==
    ASSUME TypeInv, [Next]_vars, UNCHANGED offsets, offsets # <<>>
    PROVE  Rows' = Rows
<1>1. CASE UNCHANGED kafka
  BY <1>1 DEF Rows, At, To, From
<1>2. CASE LogAppend
  BY <1>2, RowsKept
<1> QED
  BY <1>1, <1>2, LogStep

LEMMA RecordedStep ==
    ASSUME TypeInv, LineageInv, BatchesInv, RecordedInv, [Next]_vars
    PROVE  RecordedInv'
<1>0. Len(offsets) \in Nat /\ commits \in Nat /\ (Unfinished => offsets # <<>>)
  BY EmptySeq DEF TypeInv, TypeOK, Unfinished
<1>1. CASE MergeRecord
  <2>1. /\ stage = "record" /\ stage' \in {"record", "commit"}
        /\ stage' = "commit" => batches' = MergedBatches
        /\ batches' = batches \/ batches' = MergedBatches
        /\ UNCHANGED <<kafka, offsets, commits, epochFile, metadata, bronze>>
        /\ ctx'.epoch = ctx.epoch
    BY <1>1 DEF MergeRecord, external, checkpoint, TypeInv, TypeOK
  <2>2. Batch' = Batch /\ BatchId' = BatchId /\ Unfinished' = Unfinished /\ Rows' = Rows
    BY <2>1 DEF Batch, BatchId, Unfinished, Rows, At, To, From
  <2>3. DOMAIN batches \subseteq DOMAIN batches'
    BY <2>1 DEF MergedBatches
  <2>4. stage' = "commit" => BatchId \in DOMAIN batches'
    BY <2>1 DEF MergedBatches
  <2>5. Rows # {}
    BY <2>1 DEF RecordedInv, Processing
  <2> QED
    BY <2>1, <2>2, <2>3, <2>4, <2>5 DEF RecordedInv
<1>2. CASE CommitBatch
  <2>1. /\ stage = "commit" /\ stage' = "idle"
        /\ UNCHANGED <<batches, bronze, epochFile, metadata, offsets>>
    BY <1>2 DEF CommitBatch, lake
  <2>2. BatchId = <<epochFile, Batch>>
    BY <2>1 DEF BatchId, BatchesInv, ProcessInv
  <2> QED
    BY <2>1, <2>2 DEF RecordedInv, Processing
<1>3. CASE AppendBronze
  <2>1. /\ stage = "bronze" /\ stage' \in Processing
        /\ UNCHANGED <<kafka, batches, epochFile, metadata, offsets, commits>>
        /\ bronze' = bronze \/ bronze' = bronze \cup BronzeRows
    BY <1>3 DEF AppendBronze, AppendFresh, checkpoint, external, Processing
  <2>2. Unfinished /\ Unfinished' /\ Batch' = Batch /\ Rows' = Rows
    BY <2>1 DEF Unfinished, TypeInv, LogInv, Running, Batch, Rows, At, To, From
  <2>3. \A row \in BronzeRows : row.batch = Batch
    BY DEF BronzeRows
  <2>4. Rows # {}
    BY <2>1 DEF RecordedInv, Processing
  <2>5. stage' # "commit"
    BY <2>1 DEF Processing
  <2> QED
    BY <2>1, <2>2, <2>3, <2>4, <2>5 DEF RecordedInv
<1>4. CASE Trigger
  <2>1. /\ stage' = "begin" /\ UNCHANGED <<batches, epochFile, metadata, bronze>>
        /\ ~Unfinished
    BY <1>0, <1>4 DEF Trigger, lake, Unfinished
  <2> QED
    BY <2>1 DEF RecordedInv, Processing
<1>5. CASE EnsureEpoch
  <2>1. /\ stage' = "booted" /\ UNCHANGED <<kafka, lake, metadata, offsets, commits>>
        /\ metadata => epochFile' = epochFile
    BY <1>5 DEF EnsureEpoch, EpochKept, BatchesInv, ProcessInv, external
  <2>2. Unfinished' = Unfinished /\ Batch' = Batch /\ Rows' = Rows
    BY <2>1 DEF Unfinished, Batch, Rows, At, To, From
  <2> QED
    BY <2>1, <2>2 DEF RecordedInv, Processing, lake
<1>6. CASE StartQuery
  <2>1. /\ stage = "booted" /\ stage' = "idle"
        /\ UNCHANGED <<kafka, lake, epochFile, offsets, commits>>
    BY <1>6 DEF StartQuery, external
  <2>2. Unfinished' = Unfinished /\ Batch' = Batch /\ Rows' = Rows
    BY <2>1 DEF Unfinished, Batch, Rows, At, To, From
  <2>3. CASE metadata
    BY <2>1, <2>2, <2>3 DEF RecordedInv, Processing, lake
  <2>4. CASE ~metadata
    <3>1. Len(offsets) = 0
      BY <2>4 DEF LineageInv
    <3>2. ASSUME NEW row \in bronze, row.epoch = epochFile PROVE FALSE
      <4>1. <<row.epoch, row.batch>> \in BatchIds
        BY DEF BatchIds
      <4>2. row.batch < 0 /\ row.batch \in Nat
        BY <2>1, <3>1, <3>2, <4>1, BatchIdsType DEF BatchesInv, EpochInv
      <4> QED
        BY <4>2
    <3> QED
      BY <2>1, <3>2 DEF RecordedInv, Processing, lake
  <2> QED
    BY <2>3, <2>4
<1>7. CASE WipeCheckpoint
  <2>1. metadata' = FALSE /\ stage' = "down"
    BY <1>7 DEF WipeCheckpoint, process
  <2> QED
    BY <2>1 DEF RecordedInv, Processing
<1>8. CASE BeginBatch
  <2>1. /\ UNCHANGED <<kafka, lake, metadata, epochFile, offsets, commits>>
        /\ stage' = IF Rows = {} THEN "commit" ELSE "plan"
    BY <1>8 DEF BeginBatch, external, checkpoint
  <2>2. Unfinished' = Unfinished /\ Batch' = Batch /\ Rows' = Rows
    BY <2>1 DEF Unfinished, Batch, Rows, At, To, From
  <2> QED
    BY <2>1, <2>2 DEF RecordedInv, Processing, lake
<1>9. CASE /\ UNCHANGED <<batches, bronze, epochFile, metadata, offsets, commits>>
           /\ stage' \in Processing => stage \in Processing
           /\ stage' = "commit" => UNCHANGED <<stage, ctx>>
  <2>1. Unfinished' = Unfinished /\ Batch' = Batch
    BY <1>9 DEF Unfinished, Batch
  <2>2. offsets # <<>> => Rows' = Rows
    BY <1>9, PlannedRowsStay
  <2>3. stage' \in Processing \cup {"commit"} => offsets # <<>>
    BY <1>0, <1>9 DEF Processing, TypeInv, LogInv, Running, Unfinished
  <2>4. stage' = "commit" => BatchId' = BatchId
    BY <1>9, <2>1 DEF BatchId
  <2> QED
    BY <1>0, <1>9, <2>1, <2>2, <2>3, <2>4 DEF RecordedInv, Processing
<1>10. CASE ~(CommitBatch \/ AppendBronze \/ Trigger \/ EnsureEpoch \/ StartQuery
              \/ WipeCheckpoint \/ BeginBatch \/ MergeRecord)
  <2>1. /\ UNCHANGED <<batches, bronze, epochFile, metadata, offsets, commits>>
        /\ stage' \in Processing => stage \in Processing
        /\ stage' = "commit" => UNCHANGED <<stage, ctx>>
    BY <1>10 DEF Next, Environment, Produce, Replay, Deploy, Job, StartUp, Resume,
       ProcessBatch, PlanBatch, MergeSilver, MergeDlq, Crash, vars, checkpoint, lake,
       process, Processing
  <2> QED
    BY <1>9, <2>1
<1> QED
  BY <1>1, <1>2, <1>3, <1>4, <1>5, <1>6, <1>7, <1>8, <1>10

\* A batch with bronze rows has a record by the time it has its commit marker,
\* whichever attempt appended them (process_batch 520-583).
THEOREM RecordedInvariant == Spec => []RecordedInv
<1>1. Init => RecordedInv
  BY DEF Init, RecordedInv, Processing
<1>2. TypeInv /\ DlqInv /\ BatchesInv /\ RecordedInv /\ [Next]_vars => RecordedInv'
  BY RecordedStep DEF DlqInv
<1> QED
  BY <1>1, <1>2, TypeInvariant, DlqInvariant, BatchesInvariant, PTL DEF Spec

-----------------------------------------------------------------------------
(* A trace that nothing disturbs                                           *)

PastBatches == {"silver"} \cup PastSilver

\* All that a trace of a settled stream has read still holds.
QuietInv ==
    /\ reading = "none" => ~quiet /\ view = Blank
    /\ quiet =>
        /\ kind = "trace" /\ Settled /\ ~view.lost /\ view.bronze \subseteq bronze
        /\ reading \in PastBatches /\ ~view.trouble =>
              \A row \in view.bronze : <<row.epoch, row.batch>> \in DOMAIN batches =>
                  <<row.epoch, row.batch>> \in view.batches
        /\ reading \in PastEpoch => view.epoch = epochFile
        /\ view.plannedId # None => view.plannedId = Batch /\ offsets # <<>>
        /\ reading \in PastCommits =>
              view.commitId = IF commits = 0 THEN None ELSE commits - 1

LEMMA SettledStays == ASSUME UNCHANGED vars, Settled PROVE Settled'
BY DEF Settled, Start, vars, external, checkpoint, process

LEMMA QuietTraceStep ==
    ASSUME TraceInv, QuietInv, [TraceNext]_traceVars
    PROVE  QuietInv'
<1>0. view \in View
  BY DEF TraceInv, RequestInv
<1> USE DEF Reading, Go, Following, PastBatches, PastSilver, PastEpoch, PastCommits
<1>1. CASE Stream
  BY <1>1 DEF Stream, QuietInv, request
<1>2. CASE UNCHANGED <<vars, request, quiet>>
  <2>1. /\ UNCHANGED <<kind, reading, view, quiet, bronze, batches, epochFile, commits, offsets>>
        /\ Settled => Settled'
    BY <1>2, SettledStays DEF vars, request, lake, checkpoint
  <2>2. Batch' = Batch
    BY <2>1 DEF Batch
  <2> QED
    BY <2>1, <2>2 DEF QuietInv
<1>3. CASE Request
  <2>1. UNCHANGED vars
    BY <1>3, StepKinds DEF Request, StartTrace, ProbeKafka, ReadTail, ReadBronze, ReadDlq,
       ReadBatches, ReadSilver, TrinoFails, ReadCheckpoint, ReadEpoch, ListOffsets,
       ListCommits, ReadPlanned, ReadCommitted
  <2>2. /\ UNCHANGED <<bronze, batches, epochFile, commits, offsets>> /\ Batch' = Batch
        /\ Settled => Settled'
    BY <2>1, SettledStays DEF vars, lake, checkpoint, Batch
  <2>3. CASE StartTrace
    BY <2>2, <2>3 DEF StartTrace, QuietInv, Blank, None
  <2>4. CASE ProbeKafka
    BY <2>2, <2>4 DEF ProbeKafka, QuietInv
  <2>5. CASE ReadTail \/ ReadDlq \/ ReadSilver
    <3>1. /\ UNCHANGED <<kind, quiet>> /\ reading \in {"tail", "dlq", "silver"}
          /\ reading' \in {"bronze", "batches", "epoch"}
          /\ reading' = "epoch" <=> reading = "silver"
          /\ view'.lost = view.lost /\ view'.bronze = view.bronze
          /\ view'.trouble = view.trouble /\ view'.batches = view.batches
          /\ view'.plannedId = view.plannedId
      BY <1>0, <2>5 DEF ReadTail, ReadDlq, ReadSilver, View
    <3> QED
      BY <2>2, <3>1 DEF QuietInv
  <2>6. CASE ReadBronze
    <3>1. /\ UNCHANGED <<kind, quiet>> /\ reading = "bronze" /\ reading' = "dlq"
          /\ view'.lost = view.lost /\ view'.bronze \subseteq bronze
          /\ view'.plannedId = view.plannedId
      BY <1>0, <2>6 DEF ReadBronze, View
    <3> QED
      BY <2>2, <3>1 DEF QuietInv
  <2>7. CASE ReadBatches
    <3>1. /\ UNCHANGED <<kind, quiet>> /\ reading = "batches" /\ reading' = "silver"
          /\ view'.lost = view.lost /\ view'.bronze = view.bronze
          /\ view'.plannedId = view.plannedId
          /\ view'.batches = {b \in DOMAIN batches : \E row \in view.bronze : row.batch = b[2]}
      BY <1>0, <2>7 DEF ReadBatches, View
    <3> QED
      BY <2>2, <3>1 DEF QuietInv
  <2>8. CASE TrinoFails
    <3>1. /\ UNCHANGED <<kind, quiet>> /\ reading # "none" /\ reading' = "epoch"
          /\ view'.lost = view.lost /\ view'.bronze = view.bronze
          /\ view'.plannedId = view.plannedId /\ view'.trouble = TRUE
      BY <1>0, <2>8 DEF TrinoFails, View
    <3> QED
      BY <2>2, <3>1 DEF QuietInv
  <2>9. CASE ReadEpoch
    <3>1. /\ UNCHANGED <<kind, quiet>> /\ reading = "epoch" /\ reading' = "planned ids"
          /\ view'.lost = view.lost /\ view'.bronze = view.bronze
          /\ view'.trouble = view.trouble /\ view'.batches = view.batches
          /\ view'.plannedId = view.plannedId /\ view'.epoch = epochFile
      BY <1>0, <2>9 DEF ReadEpoch, View
    <3> QED
      BY <2>2, <3>1 DEF QuietInv
  <2>10. CASE ListOffsets
    <3>1. /\ UNCHANGED <<kind, quiet>> /\ reading = "planned ids" /\ reading' = "commit ids"
          /\ view'.lost = view.lost /\ view'.bronze = view.bronze
          /\ view'.trouble = view.trouble /\ view'.batches = view.batches
          /\ view'.epoch = view.epoch
          /\ view'.plannedId = IF offsets = <<>> THEN None ELSE Batch
      BY <1>0, <2>10 DEF ListOffsets, View
    <3> QED
      BY <2>2, <3>1 DEF QuietInv
  <2>11. CASE ListCommits
    <3>1. /\ UNCHANGED <<kind, quiet>> /\ reading = "commit ids" /\ reading' = "planned"
          /\ view'.lost = view.lost /\ view'.bronze = view.bronze
          /\ view'.trouble = view.trouble /\ view'.batches = view.batches
          /\ view'.epoch = view.epoch /\ view'.plannedId = view.plannedId
          /\ view'.commitId = IF commits = 0 THEN None ELSE commits - 1
      BY <1>0, <2>11 DEF ListCommits, View
    <3> QED
      BY <2>2, <3>1 DEF QuietInv
  <2>12. CASE ReadPlanned
    <3>1. /\ UNCHANGED <<kind, quiet>> /\ reading = "planned" /\ reading' \in {"committed", "done"}
      BY <2>12 DEF ReadPlanned
    <3>2. quiet => view' = view
      <4>1. Len(offsets) \in Nat
        BY DEF TraceInv, SinkInv, TypeInv, TypeOK
      <4>2. quiet => view.plannedId = None \/ ~(view.plannedId >= Len(offsets))
        <5>1. quiet => view.plannedId = None \/ view.plannedId = Batch
          BY Zenon DEF QuietInv
        <5>2. ~(Batch >= Len(offsets))
          BY <4>1 DEF Batch
        <5> QED
          BY <5>1, <5>2
      <4> QED
        BY <2>12, <4>2 DEF ReadPlanned, QuietInv
    <3> QED
      BY <2>2, <3>1, <3>2 DEF QuietInv
  <2>13. CASE ReadCommitted
    <3>1. /\ UNCHANGED <<kind, quiet>> /\ reading = "committed" /\ reading' = "done"
          /\ view'.lost = view.lost /\ view'.bronze = view.bronze
          /\ view'.trouble = view.trouble /\ view'.batches = view.batches
          /\ view'.epoch = view.epoch /\ view'.plannedId = view.plannedId
          /\ view'.commitId = view.commitId
      BY <1>0, <2>13 DEF ReadCommitted, View
    <3> QED
      BY <2>2, <3>1 DEF QuietInv
  <2> QED
    BY <1>3, <2>3, <2>4, <2>5, <2>6, <2>7, <2>8, <2>9, <2>10, <2>11, <2>12, <2>13
    DEF Request, ReadCheckpoint
<1> QED
  BY <1>1, <1>2, <1>3 DEF TraceNext, traceVars, Tailing, Poll, Reconnect, RestartApi

THEOREM QuietInvariant == TraceSpec => []QuietInv
<1>1. TraceInit => QuietInv
  BY DEF TraceInit, QuietInv
<1>2. TraceInv /\ QuietInv /\ [TraceNext]_traceVars => QuietInv'
  BY QuietTraceStep
<1> QED
  BY <1>1, <1>2, TraceInvariant, PTL DEF TraceSpec

\* With stable timestamps and no LSN of 0, a trace that nothing disturbs leaves
\* no stage pending for a change of the current epoch: its batch has a record,
\* a commit marker and rows that silver shows.
THEOREM SettledFinal ==
    ASSUME StableTimestamps, \A e \in Event : Lsn[e] # 0
    PROVE  TraceSpec => []SettledTraceIsFinal
<1>1. ASSUME TraceInv, LineageInv, RecordedInv, LedgerInv, OneRowInv, QuietInv,
             SparkDoneIsVisible
      PROVE  SettledTraceIsFinal
  <2> SUFFICES ASSUME Traced, quiet, ~view.trouble, NEW r \in BronzeOf, r.epoch = epochFile
               PROVE  \A s \in DOMAIN Answer : Answer[s] # "pending"
    BY DEF SettledTraceIsFinal
  <2>1. (CHOOSE q \in BronzeOf : TRUE) = r
    BY <1>1, NewestIsOne DEF TraceInv
  <2>2. r \in view.bronze /\ r \in bronze /\ Settled /\ ~view.lost /\ reading = "done"
    BY <1>1 DEF QuietInv, BronzeOf, Traced
  <2>3. /\ commits = Len(offsets) /\ commits \in Nat /\ metadata /\ ~Unfinished
    BY <1>1, <2>2 DEF Settled, LineageInv, TraceInv, SinkInv, TypeInv, TypeOK, Unfinished
  <2>4. <<r.epoch, r.batch>> \in DOMAIN batches
    BY <1>1, <2>2, <2>3 DEF RecordedInv
  <2>5. <<r.epoch, r.batch>> \in view.batches
    BY <1>1, <2>2, <2>4 DEF QuietInv, PastBatches, PastSilver, PastEpoch, PastCommits
  <2>6. r.batch \in Nat /\ r.batch < commits
    <3>1. <<r.epoch, r.batch>> \in BatchIds
      BY <2>2 DEF BatchIds
    <3> QED
      BY <1>1, <2>3, <3>1, BatchIdsType DEF TraceInv, SinkInv, BatchesInv, EpochInv
  <2>7. view.epoch = epochFile /\ view.commitId = commits - 1
    BY <1>1, <2>2, <2>3, <2>6 DEF QuietInv, PastEpoch, PastCommits
  <2>8. Covers(CommittedThrough(r.epoch), r.batch)
    BY <2>2, <2>3, <2>6, <2>7 DEF Covers, CommittedThrough, None
  <2>9. Lsns # {} /\ BronzeOf # {}
    BY <2>2 DEF Lsns
  <2>10. Answer.spark = "done"
    BY <2>9 DEF Answer
  <2>11. Answer.trino = "done"
    BY <1>1, <2>10 DEF SparkDoneIsVisible
  <2>12. Answer.debezium = "done" /\ Answer.kafka = "done"
    BY <2>9 DEF Answer
  <2>13. Answer.checkpoint = "done"
    BY <2>1, <2>8, <2>9 DEF Answer
  <2>14. Answer.iceberg # "pending"
    BY <2>1, <2>5, <2>9 DEF Answer
  <2>15. DOMAIN Answer = {"debezium", "kafka", "spark", "checkpoint", "iceberg", "trino"}
    BY DEF Answer
  <2> QED
    BY <2>10, <2>11, <2>12, <2>13, <2>14, <2>15
<1>2. TraceSpec => []OneRowInv
  BY OneRowInvariant
<1>3. TraceSpec => []SparkDoneIsVisible
  BY SparkVisible
<1>4. TraceSpec => Spec
  BY SinkInvariant
<1> QED
  BY <1>1, <1>2, <1>3, <1>4, TraceInvariant, DlqInvariant, RecordedInvariant,
     LedgerInvariant, QuietInvariant, PTL DEF DlqInv

=============================================================================
