---------------------------- MODULE Maintenance ----------------------------
(***************************************************************************)
(* Table maintenance beside the stream: maintain_table of                  *)
(* libs/lakeflow_core/maintenance.py, run hourly by Airflow for every      *)
(* table and by hand, each statement executed by Trino.                    *)
(*                                                                         *)
(* One Iceberg table is a log of snapshots.  The stream appends rows and   *)
(* replaces rows (MERGE); a runner compacts files, looks up the evidence   *)
(* that its rewrite changed no content, expires old snapshots and removes  *)
(* files that nothing refers to.  Every statement is a step of its own, so *)
(* commits of the stream and of other runners come between any two, and    *)
(* any of them may fail.  A rewrite may lose a row: that is the fault the  *)
(* evidence is there for.                                                  *)
(*                                                                         *)
(* Iceberg and Trino are external: optimistic commits, expiry and orphan   *)
(* removal are modelled by what the code relies on.  Counts of files and   *)
(* bytes are left out, a fingerprint is the set of rows it is taken of.    *)
(***************************************************************************)
EXTENDS Integers, Sequences, FiniteSets, FiniteSetsExt

CONSTANTS
    Runner,             \* Airflow's task for the table, the command line
    Lossy,              \* whether Trino may lose a row in a rewrite
    SnapshotRetention,  \* Policy.snapshot_retention, in ticks of the clock
    OrphanRetention,    \* Policy.orphan_retention
    MaxCommits,         \* bound: commits of the stream
    MaxFiles,           \* bound: files written, by runs started so far
    MaxRuns,            \* bound: runs of maintain_table
    MaxClock            \* bound: ticks

ASSUME MaintenanceAssumption ==
    /\ Lossy \in BOOLEAN
    /\ SnapshotRetention \in Nat /\ OrphanRetention \in Nat
    /\ MaxCommits \in Nat /\ MaxRuns \in Nat /\ MaxClock \in Nat
    /\ MaxFiles \in [0..MaxRuns -> Nat]

VARIABLES
    \* the table
    created,    \* the sink has created it
    log,        \* its snapshots, in the order of committed_at
    expired,    \* those that are expired
    stored,     \* the files in object storage, with the time of their writing
    written,    \* files written so far; they are numbered
    pending,    \* the file the stream has written and not committed, or 0
    clock,
    \* maintain_table, by runner
    stage,      \* the statement it executes next
    before,     \* last_commit of the first file_stats: a position in the log
    draft,      \* the rewrite under way: the files it reads, the file it writes
    evidence,   \* what the record says of the rewrite
    orphans,    \* the files remove_orphan_files is about to delete
    status,     \* status of the record
    runs,       \* runs started so far
    \* auxiliary, by runner
    own,        \* the last rewrite the run committed, or 0
    alone       \* no other run was active during this one

table == <<created, log, expired, stored, written, pending>>
run   == <<stage, before, draft, evidence, orphans, status, own, alone>>
vars  == <<table, clock, run, runs>>

-----------------------------------------------------------------------------
(* Data                                                                    *)

Stage    == {"idle", "exists", "before", "plan", "rewrite", "find", "parent",
             "expire", "scan", "remove", "after", "record"}
File     == [id : Nat, rows : SUBSET Nat]
Snapshot == [operation : {"append", "overwrite", "replace"},
             files : SUBSET File, at : Nat]
NoFile   == [id |-> 0, rows |-> {}]
NoDraft  == [old |-> {}, new |-> NoFile]

\* rewrite is rewrite_snapshot_id or 0, rows the fingerprint of that snapshot
\* while its parent is awaited, match is fingerprint_match.
Evidence   == [rewrite : Nat, rows : SUBSET Nat, match : {"none", "same", "changed"}]
NoEvidence == [rewrite |-> 0, rows |-> {}, match |-> "none"]

Ids(files)  == {f.id : f \in files}
Rows(files) == UNION {f.rows : f \in files}

\* One row less: which one makes no difference.
Less(rows) == IF rows = {} THEN {} ELSE rows \ {CHOOSE row \in rows : TRUE}

\* The logical rows of a snapshot; before the first one there are none.
Content(n) == IF n = 0 THEN {} ELSE Rows(log[n].files)
Files      == IF log = <<>> THEN {} ELSE log[Len(log)].files
Live       == DOMAIN log \ expired
Referenced == UNION {Ids(log[n].files) : n \in Live}
InFlight   == ({pending} \cup {draft[r].new.id : r \in Runner}) \ {0}

-----------------------------------------------------------------------------
(* Initial state                                                           *)

Init ==
    /\ created = FALSE /\ log = <<>> /\ expired = {}
    /\ stored = [f \in {} |-> 0] /\ written = 0 /\ pending = 0 /\ clock = 0
    /\ stage = [r \in Runner |-> "idle"] /\ before = [r \in Runner |-> 0]
    /\ draft = [r \in Runner |-> NoDraft]
    /\ evidence = [r \in Runner |-> NoEvidence]
    /\ orphans = [r \in Runner |-> {}] /\ status = [r \in Runner |-> "none"]
    /\ runs = 0
    /\ own = [r \in Runner |-> 0] /\ alone = [r \in Runner |-> FALSE]

-----------------------------------------------------------------------------
(* The stream and the clock                                                *)

Commit(operation, files) ==
    log' = Append(log, [operation |-> operation, files |-> files, at |-> clock])

WriteFile(f) == stored' = [g \in DOMAIN stored \cup {f} |->
                             IF g = f THEN clock ELSE stored[g]]

\* ensure_tables of the sink.
Create ==
    /\ ~created
    /\ created' = TRUE
    /\ UNCHANGED <<log, expired, stored, written, pending, clock, run, runs>>

\* A task of Spark writes a data file ...
StreamWrites ==
    /\ created /\ pending = 0 /\ written < MaxFiles[runs]
    /\ Cardinality({n \in DOMAIN log : log[n].operation # "replace"}) < MaxCommits
    /\ written' = written + 1
    /\ pending' = written'
    /\ WriteFile(pending')
    /\ UNCHANGED <<created, log, expired, clock, run, runs>>

\* ... and the driver commits it: new rows, or rows that take the place of
\* others, which stay in their files and are marked as deleted.  A conflict is
\* retried until it is none.  The row is numbered like the commit.
StreamCommits ==
    /\ pending # 0
    /\ LET added == {[id |-> pending, rows |-> {Len(log) + 1}]}
       IN  \/ Commit("append", Files \cup added)
           \/ \E f \in Files :
                Commit("overwrite", (Files \ {f}) \cup added
                                      \cup {[f EXCEPT !.rows = Less(@)]})
    /\ pending' = 0
    /\ UNCHANGED <<created, expired, stored, written, clock, run, runs>>

\* A crash before the commit leaves the file behind.
StreamDies ==
    /\ pending # 0
    /\ pending' = 0
    /\ UNCHANGED <<created, log, expired, stored, written, clock, run, runs>>

\* No write, of the stream or of a rewrite, takes longer than the retention
\* of orphan files.
Tick ==
    /\ clock < MaxClock
    /\ \A f \in InFlight : clock < stored[f] + OrphanRetention
    /\ clock' = clock + 1
    /\ UNCHANGED <<table, run, runs>>

-----------------------------------------------------------------------------
(* maintain_table                                                          *)

Goto(r, s)  == stage' = [stage EXCEPT ![r] = s]
At(r, s)    == stage[r] = s

\* Airflow's schedule, its retry of a failed task, or `make maintenance`.
Begin(r) ==
    /\ At(r, "idle") /\ runs < MaxRuns
    /\ runs' = runs + 1
    /\ Goto(r, "exists")
    /\ alone' = [q \in Runner |-> q = r /\ \A p \in Runner \ {r} : At(p, "idle")]
    /\ UNCHANGED <<table, clock, before, draft, evidence, orphans, status, own>>

TableExists(r) ==
    /\ At(r, "exists")
    /\ IF created THEN Goto(r, "before") /\ UNCHANGED status
       ELSE Goto(r, "record") /\ status' = [status EXCEPT ![r] = "skipped"]
    /\ UNCHANGED <<table, clock, runs, before, draft, evidence, orphans,
                   own, alone>>

\* file_stats; of its numbers only last_commit is used.
StatsBefore(r) ==
    /\ At(r, "before")
    /\ before' = [before EXCEPT ![r] = Len(log)]
    /\ Goto(r, "plan")
    /\ UNCHANGED <<table, clock, runs, draft, evidence, orphans, status,
                   own, alone>>

\* What a rewrite makes of the rows it reads.
Rewritten(rows) == {rows} \cup (IF Lossy THEN {Less(rows)} ELSE {})

\* optimize, first half: read the files of the current snapshot and write one
\* for them; if they are not small enough to compact the statement is done.
PlanRewrite(r) ==
    /\ At(r, "plan")
    /\ \/ /\ Goto(r, "find")
          /\ UNCHANGED <<stored, written, draft>>
       \/ /\ Cardinality(Files) > 1 /\ written < MaxFiles[runs]
          /\ \E rows \in Rewritten(Rows(Files)) :
               draft' = [draft EXCEPT ![r] =
                           [old |-> Files, new |-> [id |-> written + 1, rows |-> rows]]]
          /\ written' = written + 1
          /\ WriteFile(written')
          /\ Goto(r, "rewrite")
    /\ UNCHANGED <<created, log, expired, pending, clock, runs, before,
                   evidence, orphans, status, own, alone>>

\* optimize, second half: the commit, on top of whatever was committed since.
\* If a file it replaces has changed it conflicts.  It may also take effect
\* and be reported with a message that reads like a conflict.  A conflict is
\* tried again (_execute_with_retries); running out of attempts is Fail.
CommitRewrite(r) ==
    LET old == draft[r].old
        new == draft[r].new
    IN  /\ At(r, "rewrite")
        /\ \/ /\ old \subseteq Files
              /\ Commit("replace", (Files \ old) \cup {new})
              /\ own' = [own EXCEPT ![r] = Len(log) + 1]
              /\ Goto(r, "find") \/ Goto(r, "plan")
           \/ /\ ~(old \subseteq Files)
              /\ Goto(r, "plan")
              /\ UNCHANGED <<log, own>>
        /\ draft' = [draft EXCEPT ![r] = NoDraft]
        /\ UNCHANGED <<created, expired, stored, written, pending, clock, runs, before,
                       evidence, orphans, status, alone>>

\* The newest rewrite that was committed after the first file_stats, by this
\* run or by another; none is looked for if there was no commit before.
FindRewrite(r) ==
    LET rewrites == {n \in Live : log[n].operation = "replace" /\ n > before[r]}
    IN  /\ At(r, "find")
        /\ IF before[r] = 0 \/ rewrites = {}
             THEN Goto(r, "expire") /\ UNCHANGED evidence
             ELSE /\ evidence' = [evidence EXCEPT ![r] =
                        [rewrite |-> Max(rewrites),
                         rows    |-> Content(Max(rewrites)), match |-> "none"]]
                  /\ Goto(r, "parent")
        /\ UNCHANGED <<table, clock, runs, before, draft, orphans, status,
                       own, alone>>

\* Faulty: the rewrite is compared with the table as the run found it.
Parent_Before(r) == before[r]

\* parent_id: commits are serialised, so it is the snapshot before.
Parent(r) == evidence[r].rewrite - 1

\* The second fingerprint.  An expired snapshot cannot be read.
CompareParent(r) ==
    /\ At(r, "parent")
    /\ Parent(r) \notin expired
    /\ evidence' = [evidence EXCEPT ![r].match =
                      IF evidence[r].rows = Content(Parent(r)) THEN "same" ELSE "changed"]
    /\ Goto(r, "expire")
    /\ UNCHANGED <<table, clock, runs, before, draft, orphans, status,
                   own, alone>>

\* Snapshots beyond the retention but for the current one, and the files only
\* they refer to.  Like the rewrite it may take effect and be tried again.
Old(n) == n < Len(log) /\ log[n].at + SnapshotRetention < clock
ExpireSnapshots(r) ==
    /\ At(r, "expire")
    /\ expired' = expired \cup {n \in DOMAIN log : Old(n)}
    /\ LET dropped == UNION {Ids(log[n].files) : n \in expired'}
           kept    == UNION {Ids(log[n].files) : n \in DOMAIN log \ expired'}
       IN  stored' = [f \in DOMAIN stored \ (dropped \ kept) |-> stored[f]]
    /\ Goto(r, "scan") \/ Goto(r, "expire")
    /\ UNCHANGED <<created, log, written, pending, clock, runs, before, draft,
                   evidence, orphans, status, own, alone>>

\* Faulty: young files count as orphans too.
Orphans_AnyAge == DOMAIN stored \ Referenced

\* remove_orphan_files: find what no snapshot refers to and is old enough ...
Orphans == {f \in DOMAIN stored \ Referenced : stored[f] + OrphanRetention < clock}
ScanOrphans(r) ==
    /\ At(r, "scan")
    /\ orphans' = [orphans EXCEPT ![r] = Orphans]
    /\ Goto(r, "remove")
    /\ UNCHANGED <<table, clock, runs, before, draft, evidence, status,
                   own, alone>>

\* ... and delete it, after which it may be tried again.
RemoveOrphans(r) ==
    /\ At(r, "remove")
    /\ stored' = [f \in DOMAIN stored \ orphans[r] |-> stored[f]]
    /\ orphans' = [orphans EXCEPT ![r] = {}]
    /\ Goto(r, "after") \/ Goto(r, "scan")
    /\ UNCHANGED <<created, log, expired, written, pending, clock, runs, before, draft,
                   evidence, status, own, alone>>

\* file_stats again, and the verdict.
StatsAfter(r) ==
    /\ At(r, "after")
    /\ status' = [status EXCEPT ![r] =
                    IF evidence[r].match = "changed" THEN "failed" ELSE "succeeded"]
    /\ Goto(r, "record")
    /\ UNCHANGED <<table, clock, runs, before, draft, evidence, orphans,
                   own, alone>>

\* A statement raises, at whatever it has done by then.
Fail(r) ==
    /\ stage[r] \notin {"idle", "record"}
    /\ status' = [status EXCEPT ![r] = "failed"]
    /\ draft' = [draft EXCEPT ![r] = NoDraft]
    /\ orphans' = [orphans EXCEPT ![r] = {}]
    /\ Goto(r, "record")
    /\ UNCHANGED <<table, clock, runs, before, evidence, own, alone>>

\* The record is returned, and stored if that works.  Airflow fails the task
\* if its status is "failed".
Record(r) ==
    /\ At(r, "record")
    /\ Goto(r, "idle")
    /\ before' = [before EXCEPT ![r] = 0]
    /\ evidence' = [evidence EXCEPT ![r] = NoEvidence]
    /\ status' = [status EXCEPT ![r] = "none"]
    /\ own' = [own EXCEPT ![r] = 0]
    /\ alone' = [alone EXCEPT ![r] = FALSE]
    /\ UNCHANGED <<table, clock, runs, draft, orphans>>

-----------------------------------------------------------------------------
(* Specification                                                           *)

Stream == Create \/ StreamWrites \/ StreamCommits \/ StreamDies

Maintain(r) ==
    \/ Begin(r) \/ TableExists(r) \/ StatsBefore(r) \/ PlanRewrite(r)
    \/ CommitRewrite(r) \/ FindRewrite(r) \/ CompareParent(r)
    \/ ExpireSnapshots(r) \/ ScanOrphans(r) \/ RemoveOrphans(r)
    \/ StatsAfter(r) \/ Fail(r) \/ Record(r)

Next == Stream \/ Tick \/ \E r \in Runner : Maintain(r)

Spec == Init /\ [][Next]_vars

-----------------------------------------------------------------------------
(* Properties                                                              *)

\* What a record says of a rewrite is true of that rewrite, whatever the stream
\* and other runs commit meanwhile (maintenance.py 5-6).  And if a run reports
\* success, the last rewrite it has committed lost no row, provided no other run
\* was active and the table had a snapshot when it began.  Of an earlier rewrite
\* of the run, one that took effect and was reported as a conflict, no record
\* says anything.
EvidenceIsTrue ==
    \A r \in Runner :
        /\ LET n == evidence[r].rewrite
           IN  evidence[r].match # "none" =>
                 (evidence[r].match = "same" <=> Content(n) = Content(n - 1))
        /\ status[r] = "succeeded" /\ alone[r] /\ before[r] # 0 /\ own[r] # 0 =>
             Content(own[r]) = Content(own[r] - 1)

\* No file of a snapshot that can still be read is ever deleted, neither with
\* the expired snapshots nor as an orphan, although files are written before
\* the snapshot that refers to them (Policy 70-76).
NoFileMissing == Referenced \subseteq DOMAIN stored

=============================================================================
