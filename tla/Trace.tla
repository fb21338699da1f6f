------------------------------- MODULE Trace --------------------------------
(***************************************************************************)
(* What the API says of the stream while it runs: the record-level trace   *)
(* of a row and the consumer lag.  Both are put together from readings     *)
(* taken one after the other, of the API's own Kafka tail, the Iceberg     *)
(* tables (through Trino) and the files of the checkpoint, none of which   *)
(* the reader locks: the job of Sink.tla goes on between any two of them,  *)
(* crashes, or is restarted on a wiped checkpoint.                         *)
(*                                                                         *)
(* A behaviour has one request; requests do not affect each other.  Rows   *)
(* of the control database and of the source database are left out, and of *)
(* an answer everything but the status of each stage.                      *)
(***************************************************************************)
EXTENDS Sink

CONSTANTS
    Keyed,        \* bodies of the records whose key the tail can read
    Legible,      \* bodies whose LSN it can read
    MaxEvents     \* max_events of the tail (20000 in the code)

ASSUME TraceAssumption ==
    Keyed \subseteq Body /\ Legible \subseteq Body /\ MaxEvents \in Nat \ {0}

VARIABLES
    \* the Tracer's thread
    next,         \* [Partition \ Replays -> Nat]: the last offset polled
    events,       \* coordinates of the records in the index, the oldest first
    byKey,        \* [Key -> Seq(Coordinates)]
    \* the request
    kind,         \* a trace, or the monitor's reading of the lag
    of,           \* the key it is about
    reading,      \* what is read next
    view,         \* what has been read
    \* auxiliary
    finished,     \* batches whose commits/N has been written
    since,        \* value of epochs when the epoch was read
    quiet         \* the stream was settled and has not moved since the request

tail      == <<next, events, byKey>>
request   == <<kind, of, reading, view, since>>
traceVars == <<vars, tail, request, finished, quiet>>

-----------------------------------------------------------------------------
(* Data                                                                    *)

Topics == Partition \ Replays     \* cdc_topics

\* The order of the readings of a trace: services/trace.py, then read_checkpoint.
\* Faulty: the current row before the ledger.
Following_SilverFirst ==
    [none |-> "tail", tail |-> "silver", silver |-> "bronze", bronze |-> "dlq",
     dlq |-> "batches", batches |-> "epoch"]

Following ==
    [none |-> "tail", tail |-> "bronze", bronze |-> "dlq", dlq |-> "batches",
     batches |-> "silver", silver |-> "epoch"]

Reading(r) == reading = r

\* trouble is whether Trino failed, lost whether the checkpoint did; batch ids
\* are None (-1) where there is no file, offsets are <<>> where none was read.
None == -1
View == [tail : SUBSET Coordinates, bronze : SUBSET BronzeRow,
         dlq : SUBSET Coordinates, batches : SUBSET (Nat \X Nat),
         silver : SilverRow, trouble : BOOLEAN, lost : BOOLEAN,
         epoch : Nat, plannedId : Nat \cup {None}, commitId : Nat \cup {None},
         planned : {<<>>} \cup [Partition -> Nat],
         committed : {<<>>} \cup [Partition -> Nat],
         ends : [Topics -> Nat]]

Ends == [p \in Topics |-> Len(kafka[p])]
Blank == [tail |-> {}, bronze |-> {}, dlq |-> {}, batches |-> {}, silver |-> NoRow,
          trouble |-> FALSE, lost |-> FALSE, epoch |-> NoEpoch,
          plannedId |-> None, commitId |-> None, planned |-> <<>>,
          committed |-> <<>>, ends |-> [p \in Topics |-> 0]]

TraceInit ==
    /\ Init
    /\ next = Ends /\ events = <<>> /\ byKey = [k \in Key |-> <<>>]
    /\ kind \in {"trace", "lag"} /\ of \in Key /\ reading = "none" /\ view = Blank
    /\ finished = {} /\ since = 0 /\ quiet = FALSE

-----------------------------------------------------------------------------
(* The Kafka tail                                                          *)

RecordKey(x) == KeyOf[EventAt(x)]
HasKey(x)    == At(x).body \in Keyed
HasLsn(x)    == At(x).body.kind = "change" /\ At(x).body \in Legible

\* list.remove: the first x, if there is one.
Without(s, x) ==
    IF \A i \in DOMAIN s : s[i] # x THEN s
    ELSE LET i == CHOOSE j \in DOMAIN s : s[j] = x /\ \A n \in 1..(j - 1) : s[n] # x
         IN  SubSeq(s, 1, i - 1) \o SubSeq(s, i + 1, Len(s))

\* _handle: an entry per coordinate; with a key that can be read, also in the
\* bucket of that key.  The oldest goes when there are too many.
Handle(x) ==
    LET known   == \E i \in DOMAIN events : events[i] = x
        longer  == IF known THEN events ELSE Append(events, x)
        added   == IF HasKey(x) THEN [byKey EXCEPT ![RecordKey(x)] = Append(@, x)]
                   ELSE byKey
        oldest  == Head(longer)
    IN  IF Len(longer) <= MaxEvents
          THEN events' = longer /\ byKey' = added
          ELSE /\ events' = Tail(longer)
               /\ byKey' = IF HasKey(oldest)
                             THEN [added EXCEPT ![RecordKey(oldest)] = Without(@, oldest)]
                             ELSE added

\* The consumer skips offsets that hold no record.
Poll(p) ==
    /\ next[p] < Len(kafka[p])
    /\ next' = [next EXCEPT ![p] = @ + 1]
    /\ IF kafka[p][next[p] + 1].body.kind = "gap" THEN UNCHANGED <<events, byKey>>
       ELSE Handle(<<p, next[p] + 1>>)
    /\ UNCHANGED <<vars, request, finished, quiet>>

\* Faulty: a new consumer begins with the oldest record.
Position_Start == [p \in Topics |-> 0]

\* assign() with OFFSET_END.
Position == Ends

\* An error ends the consumer; its successor keeps the index.
Reconnect ==
    /\ next' = Position
    /\ UNCHANGED <<vars, events, byKey, request, finished, quiet>>

\* The API starts again, with an empty index.
RestartApi ==
    /\ reading = "none"
    /\ next' = Position /\ events' = <<>> /\ byKey' = [k \in Key |-> <<>>]
    /\ UNCHANGED <<vars, request, finished, quiet>>

-----------------------------------------------------------------------------
(* A request                                                               *)

Go(r) == reading' = r /\ UNCHANGED <<kind, of>>

StartTrace ==
    /\ kind = "trace" /\ Reading("none") /\ Go(Following["none"])
    /\ quiet' = Settled
    /\ UNCHANGED <<vars, tail, view, finished, since>>

\* _probe_kafka takes the end offsets, _probe_spark the checkpoint after it.
ProbeKafka ==
    /\ kind = "lag" /\ Reading("none") /\ Go("epoch")
    /\ view' = [view EXCEPT !.ends = Ends]
    /\ UNCHANGED <<vars, tail, finished, since, quiet>>

\* events_for: the events of the key that have an LSN.
ReadTail ==
    /\ Reading("tail") /\ Go(Following["tail"])
    /\ view' = [view EXCEPT !.tail =
                  {x \in {byKey[of][i] : i \in DOMAIN byKey[of]} : HasLsn(x)}]
    /\ UNCHANGED <<vars, tail, finished, since, quiet>>

\* Four queries, each on the current snapshot of its table.
ReadBronze ==
    /\ Reading("bronze") /\ Go(Following["bronze"])
    /\ view' = [view EXCEPT !.bronze = {row \in bronze : KeyOf[row.event] = of}]
    /\ UNCHANGED <<vars, tail, finished, since, quiet>>

\* Rows whose raw key contains the text of the key, here only those of the key
\* that can be read; replayed ones are among them.
ReadDlq ==
    /\ Reading("dlq") /\ Go(Following["dlq"])
    /\ view' = [view EXCEPT !.dlq = {d \in DOMAIN dlq : HasKey(d) /\ RecordKey(d) = of}]
    /\ UNCHANGED <<vars, tail, finished, since, quiet>>

\* By batch_id, of any epoch.
ReadBatches ==
    /\ Reading("batches") /\ Go(Following["batches"])
    /\ view' = [view EXCEPT !.batches =
                  {b \in DOMAIN batches : \E row \in view.bronze : row.batch = b[2]}]
    /\ UNCHANGED <<vars, tail, finished, since, quiet>>

ReadSilver ==
    /\ Reading("silver") /\ Go(Following["silver"])
    /\ view' = [view EXCEPT !.silver = silver[of]]
    /\ UNCHANGED <<vars, tail, finished, since, quiet>>

\* The first query that fails ends the four; what was read by then is used.
TrinoFails ==
    /\ reading \in {"bronze", "dlq", "batches", "silver"}
    /\ Go("epoch")
    /\ view' = [view EXCEPT !.trouble = TRUE]
    /\ UNCHANGED <<vars, tail, finished, since, quiet>>

\* read_checkpoint: five looks at the directory.
ReadEpoch ==
    /\ Reading("epoch") /\ Go("planned ids")
    /\ view' = [view EXCEPT !.epoch = epochFile]
    /\ since' = epochs
    /\ UNCHANGED <<vars, tail, finished, quiet>>

ListOffsets ==
    /\ Reading("planned ids") /\ Go("commit ids")
    /\ view' = [view EXCEPT !.plannedId = IF offsets = <<>> THEN None ELSE Batch]
    /\ UNCHANGED <<vars, tail, finished, since, quiet>>

ListCommits ==
    /\ Reading("commit ids") /\ Go("planned")
    /\ view' = [view EXCEPT !.commitId = IF commits = 0 THEN None ELSE commits - 1]
    /\ UNCHANGED <<vars, tail, finished, since, quiet>>

\* A file that is gone raises OSError, and nothing is known of the checkpoint.
\* A trace makes no use of the offsets, so it ends here.
ReadPlanned ==
    /\ Reading("planned")
    /\ IF view.plannedId = None THEN UNCHANGED view
       ELSE IF view.plannedId >= Len(offsets) THEN view' = [view EXCEPT !.lost = TRUE]
       ELSE view' = IF kind = "trace" THEN view
                    ELSE [view EXCEPT !.planned = offsets[view.plannedId + 1]]
    /\ Go(IF kind = "trace" \/ view'.lost THEN "done" ELSE "committed")
    /\ UNCHANGED <<vars, tail, finished, since, quiet>>

\* This one is looked for before it is read.
ReadCommitted ==
    /\ Reading("committed") /\ Go("done")
    /\ view' = IF view.commitId # None /\ view.commitId < Len(offsets)
                 THEN [view EXCEPT !.committed = offsets[view.commitId + 1]]
                 ELSE view
    /\ UNCHANGED <<vars, tail, finished, since, quiet>>

-----------------------------------------------------------------------------
(* The answers                                                             *)

\* consumer_lag of the CDC topics.
\* Faulty: the offsets that are planned.
LagOffsets_Planned == view.planned

LagOffsets == view.committed
Lag == LET covered(p) == IF LagOffsets = <<>> THEN 0 ELSE LagOffsets[p]
       IN  Cardinality({x \in Coordinates : /\ x[1] \in Topics
                                            /\ covered(x[1]) < x[2]
                                            /\ x[2] <= view.ends[x[1]]})

\* assemble: by_lsn, and what is known of the newest change of the row.
Lsns      == {Lsn[EventAt(x)] : x \in view.tail} \cup {Lsn[row.event] : row \in view.bronze}
Latest(l) == \A m \in Lsns : m <= l
KafkaOf   == {x \in view.tail : Latest(Lsn[EventAt(x)])}
BronzeOf  == {row \in view.bronze : Latest(Lsn[row.event])}

\* committed_batch: the newest commit, for the epoch that was read.
\* Faulty: for any epoch.
CommittedThrough_AnyEpoch(epoch) == IF view.lost THEN None ELSE view.commitId

CommittedThrough(epoch) ==
    IF view.lost \/ view.epoch # epoch THEN None ELSE view.commitId

\* Faulty: the last committed batch does not count.
Covers_Strict(through, b) == through > b

Covers(through, b) == through # None /\ through >= b

\* The status of each stage.  An LSN of 0 in silver counts as none.
Answer ==
    LET row      == CHOOSE r \in BronzeOf : TRUE
        stored   == BronzeOf # {}
        applied  == stored /\ row.outcome = "applied"
        rejected == ~stored /\ KafkaOf = {} /\ view.dlq # {}
        produced == IF Lsns # {} \/ view.dlq # {} THEN "done" ELSE "pending"
        shown    == LsnShown(view.silver.event)
    IN  [debezium |-> produced,
         kafka    |-> produced,
         spark    |-> CASE stored -> "done" [] rejected -> "failed" [] OTHER -> "pending",
         checkpoint |->
            CASE stored /\ Covers(CommittedThrough(row.epoch), row.batch) -> "done"
              [] rejected -> "skipped"
              [] OTHER -> "pending",
         iceberg |->
            CASE stored /\ ~applied -> "skipped"
              [] applied /\ <<row.epoch, row.batch>> \in view.batches -> "done"
              [] OTHER -> "pending",
         trino |->
            CASE Lsns # {} /\ shown # 0 /\ Latest(shown) -> "done"
              [] stored /\ ~applied /\ view.silver # NoRow -> "done"
              [] OTHER -> "pending"]

Traced == kind = "trace" /\ reading = "done"

-----------------------------------------------------------------------------
(* Specification                                                           *)

\* Any step of the stream.  A behaviour ends with the answer.
Stream ==
    /\ reading # "done" /\ Next
    /\ finished' = IF stage = "commit" /\ stage' = "idle" THEN finished \cup {BatchId}
                   ELSE finished
    /\ quiet' = FALSE
    /\ UNCHANGED <<tail, request>>

\* To a request that has seen the tail, or does not ask for it, it makes no
\* difference what the tail does.
Tailing == /\ kind = "trace" /\ reading \in {"none", "tail"}
           /\ (\E p \in Topics : Poll(p)) \/ Reconnect \/ RestartApi

ReadCheckpoint == \/ ReadEpoch \/ ListOffsets \/ ListCommits \/ ReadPlanned
                  \/ ReadCommitted

Request == \/ StartTrace \/ ProbeKafka \/ ReadTail \/ ReadBronze \/ ReadDlq
           \/ ReadBatches \/ ReadSilver \/ TrinoFails \/ ReadCheckpoint

TraceNext == Stream \/ Tailing \/ Request

TraceSpec == TraceInit /\ [][TraceNext]_traceVars

-----------------------------------------------------------------------------
(* Properties                                                              *)

\* No job has started with another checkpoint since the epoch was read.
SameLineage == since = epochs

\* The checkpoint stage is "done" only for a batch whose commit marker was
\* written in the row's own epoch, however many batches of another lineage have
\* the same number (domain/trace.py 3-4, 143-155).
CheckpointDoneIsCommitted ==
    Traced /\ SameLineage /\ Answer.checkpoint = "done" =>
        \A row \in BronzeOf : <<row.epoch, row.batch>> \in finished

\* A trace that shows the change processed shows it visible in silver, although
\* bronze and silver are read at different times and committed apart (sink.py
\* 485-520; domain/trace.py 129-142, 184-198).
SparkDoneIsVisible ==
    Traced /\ ~view.trouble /\ Answer.spark = "done" => Answer.trino = "done"

\* If the monitor shows no lag, every record up to the end offsets it has probed
\* is in the lakehouse: they are read before the checkpoint, and the offsets are
\* those of a batch that has its commit marker (monitor.py 140-164).
NoLagMeansStored ==
    kind = "lag" /\ reading = "done" /\ SameLineage /\ ~view.lost /\ Lag = 0 =>
        \A x \in Coordinates :
            x[1] \in Topics /\ x[2] <= view.ends[x[1]] => Stored(x)

\* A trace taken while nothing happens leaves no stage pending once the change
\* is in bronze, if the checkpoint is still the one it was processed under.
SettledTraceIsFinal ==
    Traced /\ quiet /\ ~view.trouble =>
        \A row \in BronzeOf : row.epoch = epochFile =>
            \A s \in DOMAIN Answer : Answer[s] # "pending"

\* The bucket of a key holds exactly the records of the index whose key was read
\* as this one, once each and in the order of the index, also after evictions and
\* reconnections; a record without a readable key is in none (tracer.py 137-149).
IndexAgrees ==
    /\ \A m, n \in DOMAIN events : events[m] = events[n] => m = n
    /\ \A k \in Key :
        /\ {byKey[k][i] : i \in DOMAIN byKey[k]} =
              {events[n] : n \in {m \in DOMAIN events :
                                    HasKey(events[m]) /\ RecordKey(events[m]) = k}}
        /\ \A i, j \in DOMAIN byKey[k] : i < j =>
              \E m, n \in DOMAIN events :
                 m < n /\ events[m] = byKey[k][i] /\ events[n] = byKey[k][j]

=============================================================================
